---------------------------- MODULE TrustProofs ----------------------------
(***************************************************************************)
(* What a caller may trust.  A message it accepts with KernelIdentity was  *)
(* signed by the owner of the key it holds: for any number of processes    *)
(* and messages, another signer, whatever the network puts together, and   *)
(* identities with any key put into them.  After a failure, one fetch is   *)
(* enough.  The client it builds with an extra root trusts one, for texts  *)
(* of every length.                                                        *)
(***************************************************************************)
EXTENDS KernelTrust, TrustAnchor, FiniteSetTheorems, TLAPS

(* The kernel's signatures are over the messages they are sent with, and   *)
(* of processes that have started.                                         *)
SignedOwn ==
  \A m \in signed : \E n \in 1 .. epoch, message \in MESSAGES :
    m = SignedBy(n, message)

(* What the caller is busy with is a message with a signature somebody     *)
(* made, perhaps of another message.                                       *)
HandDelivered == pc # "idle" => hand \in Delivered

(* The identity is one process n's, changed on the way or not, and that    *)
(* process is no older than the one whose signature is in hand.            *)
LaterAnswer(body, n) ==
  /\ hand.signature.signing_key <= n
  /\ body \in Identities(PublishedBy(n))

(* An answer was given after its message was signed, ...                   *)
AnswerIsLater ==
  pc = "reply" => \E n \in 1 .. epoch : LaterAnswer(answer, n)

(* ... and so was the identity a message is verified with again.           *)
IdentityIsLater ==
  (pc = "verify" /\ refetched) =>
    \E n \in 1 .. epoch : \E body \in Identities(PublishedBy(n)) :
      /\ LaterAnswer(body, n)
      /\ FetchKernelIdentity(Reply(200, body)) = Ok(identity)

HInv ==
  /\ epoch \in Nat \ {0}
  /\ SignedOwn
  /\ HandDelivered
  /\ OnlySignedMessages
  /\ AnswerIsLater
  /\ IdentityIsLater

-----------------------------------------------------------------------------
(* s is what a process that has started signed, or somebody else.          *)
Sound(s) ==
  /\ s.by \in 1 .. epoch \/ s.by = 0
  /\ s.signature = [signing_key |-> s.by, message |-> s.message]

(* Whoever signed made one signature, over one message, with one key.      *)
LEMMA SignaturesNameSigner ==
  ASSUME SignedOwn
  PROVE  \A s \in AllSigned : Sound(s)
<1>1. ASSUME NEW n, NEW message
      PROVE  /\ SignedBy(n, message).by = n
             /\ SignedBy(n, message).signature =
                  [signing_key |-> SignedBy(n, message).by,
                   message |-> SignedBy(n, message).message]
  BY DEF SignedBy, SignBytes, KernelCredential, Generate
<1>2. ASSUME NEW s \in signed
      PROVE  Sound(s)
  <2>1. PICK n \in 1 .. epoch, message \in MESSAGES :
          s = SignedBy(n, message)
    BY DEF SignedOwn
  <2>2. QED BY <1>1, <2>1 DEF Sound
<1>3. ASSUME NEW message \in MESSAGES, NEW s, s = SignedBy(0, message)
      PROVE  Sound(s)
  BY <1>1, <1>3 DEF Sound
<1>4. \A s \in AllSigned :
        s \in signed \/ \E message \in MESSAGES : s = SignedBy(0, message)
  BY Zenon DEF AllSigned
<1>5. QED BY <1>2, <1>3, <1>4, Zenon

(* A message that verifies came with the signature made over it, by the    *)
(* owner of the key the caller holds.                                      *)
LEMMA VerifiedIsSigned ==
  ASSUME SignedOwn, hand \in Delivered, Verdict.ok
  PROVE  \E s \in AllSigned :
           /\ identity.public_key.signing_key = s.by
           /\ hand.message = s.message
<1>1. PICK message \in MESSAGES, s \in AllSigned :
        hand = [message |-> message, signature |-> s.signature]
  BY DEF Delivered, Received
<1>2. s.signature = [signing_key |-> s.by, message |-> s.message]
  BY SignaturesNameSigner DEF Sound
<1>3. /\ identity.public_key.on_curve
      /\ hand.signature = [signing_key |-> identity.public_key.signing_key,
                           message |-> hand.message]
  BY DEF Verdict, VerifyMessage, VerifyBytes, SignBytes, Ok, Err
<1>4. /\ s.by = identity.public_key.signing_key
      /\ hand.message = s.message
  BY <1>1, <1>2, <1>3
<1>5. QED BY <1>4

(* A signature in hand is one of a process that has started, or of         *)
(* somebody else.                                                          *)
LEMMA HandHasStarted ==
  ASSUME SignedOwn, hand \in Delivered
  PROVE  hand.signature.signing_key \in (1 .. epoch) \cup {0}
<1>1. PICK s \in AllSigned : hand.signature = s.signature
  BY DEF Delivered, Received
<1>2. /\ s.by \in 1 .. epoch \/ s.by = 0
      /\ s.signature = [signing_key |-> s.by, message |-> s.message]
  BY SignaturesNameSigner DEF Sound
<1>3. s.signature.signing_key = s.by
  BY <1>2
<1>4. QED BY <1>1, <1>2, <1>3

(* The identity from_json makes of a body names the process of the body.   *)
LEMMA FetchedFields ==
  \A body, fetched :
    FetchKernelIdentity(Reply(200, body)) = Ok(fetched) =>
      /\ fetched.instance_id = body.instance_id
      /\ fetched.public_key = body.public_key
BY DEF FetchKernelIdentity, FromJson, Reply, IsSuccess, Ok, Err

(* What changes on the way leaves the instance ID as it was.               *)
LEMMA IdentityNamesProcess ==
  \A n : \A body \in Identities(PublishedBy(n)) :
    body.instance_id = InstanceId(n)
<1>1. ASSUME NEW n, NEW key, NEW fingerprint
      PROVE  Changed(PublishedBy(n), key, fingerprint).instance_id
               = InstanceId(n)
  BY DEF Changed, PublishedBy, PublishedIdentity, KernelCredential, Generate,
         ClientPublicKey
<1>2. ASSUME NEW n, NEW body \in Identities(PublishedBy(n))
      PROVE  body.instance_id = InstanceId(n)
  <2>1. PICK key, fingerprint :
          body = Changed(PublishedBy(n), key, fingerprint)
    BY DEF Identities
  <2>2. QED BY <1>1, <2>1, Zenon
<1>3. QED BY <1>2

-----------------------------------------------------------------------------
LEMMA HInit ==
  ASSUME Init PROVE HInv
BY DEF Init, HInv, SignedOwn, HandDelivered, AllSigned, OnlySignedMessages,
       AnswerIsLater, IdentityIsLater

LEMMA RestartKernelKeeps ==
  ASSUME HInv, RestartKernel
  PROVE  HInv'
<1> USE DEF RestartKernel
<1>1. epoch' \in Nat \ {0} /\ 1 .. epoch \subseteq 1 .. epoch'
  BY DEF HInv
<1>2. SignedOwn'
  BY <1>1 DEF HInv, SignedOwn
<1>3. HandDelivered' /\ OnlySignedMessages'
  BY DEF HInv, HandDelivered, Delivered, AllSigned, OnlySignedMessages
<1>4. AnswerIsLater'
  BY <1>1 DEF HInv, AnswerIsLater, LaterAnswer
<1>5. IdentityIsLater'
  BY <1>1 DEF HInv, IdentityIsLater, LaterAnswer
<1>6. QED BY <1>1, <1>2, <1>3, <1>4, <1>5 DEF HInv

LEMMA SignMessageKeeps ==
  ASSUME HInv, NEW message \in MESSAGES, SignMessage(message)
  PROVE  HInv'
<1> USE DEF SignMessage
<1>1. SignedOwn'
  <2>1. epoch \in 1 .. epoch
    BY DEF HInv
  <2>2. QED BY <2>1 DEF HInv, SignedOwn
<1>2. HandDelivered'
  <2>1. signed \subseteq signed'
    OBVIOUS
  <2>2. Delivered \subseteq Delivered'
    BY <2>1 DEF Delivered, AllSigned
  <2>3. QED BY <2>2 DEF HInv, HandDelivered
<1>3. OnlySignedMessages'
  BY DEF HInv, AllSigned, OnlySignedMessages
<1>4. AnswerIsLater' /\ IdentityIsLater'
  BY DEF HInv, AnswerIsLater, IdentityIsLater, LaterAnswer
<1>5. QED BY <1>1, <1>2, <1>3, <1>4 DEF HInv

LEMMA TakeKeeps ==
  ASSUME HInv, NEW message \in Delivered, Take(message)
  PROVE  HInv'
BY DEF Take, HInv, SignedOwn, HandDelivered, Delivered, AllSigned,
       OnlySignedMessages, AnswerIsLater, IdentityIsLater

LEMMA AcceptKeeps ==
  ASSUME HInv, Accept
  PROVE  HInv'
<1>1. \E s \in AllSigned : /\ identity.public_key.signing_key = s.by
                            /\ hand.message = s.message
  BY VerifiedIsSigned DEF HInv, HandDelivered, Accept
<1>2. OnlySignedMessages'
  <2>1. /\ accepted' = [received |-> hand, key |-> identity.public_key]
        /\ AllSigned' = AllSigned
    BY DEF Accept, AllSigned
  <2>2. QED BY <1>1, <2>1 DEF OnlySignedMessages
<1>3. QED
  BY <1>2 DEF Accept, HInv, SignedOwn, HandDelivered, AnswerIsLater,
              IdentityIsLater

(* The step that makes answers later: the running process gives it, and    *)
(* the signature in hand is not of a process to come.                      *)
LEMMA KernelAnswersKeeps ==
  ASSUME HInv, NEW published \in Identities(Published), KernelAnswers(published)
  PROVE  HInv'
<1> USE DEF KernelAnswers
<1>1. hand.signature.signing_key \in (1 .. epoch) \cup {0}
  BY HandHasStarted DEF HInv, HandDelivered
<1>2. epoch \in 1 .. epoch /\ hand.signature.signing_key <= epoch
  BY <1>1 DEF HInv
<1>3. LaterAnswer(published, epoch)
  BY <1>2 DEF LaterAnswer, Published
<1>4. AnswerIsLater'
  BY <1>2, <1>3 DEF AnswerIsLater, LaterAnswer
<1>5. IdentityIsLater'
  BY DEF IdentityIsLater
<1>6. SignedOwn' /\ HandDelivered' /\ OnlySignedMessages'
  BY DEF HInv, SignedOwn, HandDelivered, Delivered, AllSigned,
         OnlySignedMessages
<1>7. QED BY <1>4, <1>5, <1>6 DEF HInv

LEMMA FetchReturnsKeeps ==
  ASSUME HInv, FetchReturns
  PROVE  HInv'
<1> USE DEF FetchReturns
<1>1. PICK n \in 1 .. epoch : LaterAnswer(answer, n)
  BY DEF HInv, AnswerIsLater
<1>2. FetchKernelIdentity(Reply(200, answer)) = Ok(identity')
  <2>1. PICK fetched : fetched = FetchKernelIdentity(Reply(200, answer))
    OBVIOUS
  <2>2. fetched.ok /\ identity' = fetched.value
    BY <2>1
  <2>3. fetched = Ok(fetched.value)
    BY <2>1, <2>2 DEF FetchKernelIdentity, FromJson, Ok, Err
  <2>4. QED BY <2>1, <2>2, <2>3
<1>3. IdentityIsLater'
  BY <1>1, <1>2 DEF IdentityIsLater, LaterAnswer
<1>4. AnswerIsLater'
  BY DEF AnswerIsLater
<1>5. SignedOwn' /\ HandDelivered' /\ OnlySignedMessages'
  BY DEF HInv, SignedOwn, HandDelivered, Delivered, AllSigned,
         OnlySignedMessages
<1>6. QED BY <1>3, <1>4, <1>5 DEF HInv

(* The steps that neither sign, take nor accept, and end with nothing      *)
(* fetched.                                                                *)
LEMMA OthersKeep ==
  ASSUME HInv, Refetch \/ Reject \/ FetchFails
  PROVE  HInv'
<1>1. /\ epoch' = epoch /\ signed' = signed /\ accepted' = accepted
      /\ pc' \in {"idle", "fetch"}
      /\ pc' # "idle" => pc # "idle" /\ hand' = hand
  BY DEF Refetch, Reject, FetchFails
<1>2. Delivered' = Delivered
  BY <1>1 DEF Delivered, AllSigned
<1>3. QED
  BY <1>1, <1>2 DEF HInv, SignedOwn, HandDelivered, AllSigned,
                    OnlySignedMessages, AnswerIsLater, IdentityIsLater

LEMMA StutterKeeps ==
  ASSUME HInv, UNCHANGED vars
  PROVE  HInv'
BY DEF HInv, vars, SignedOwn, HandDelivered, Delivered, AllSigned,
       OnlySignedMessages, AnswerIsLater, IdentityIsLater, LaterAnswer

LEMMA HAlways == Spec => []HInv
<1>1. Init => HInv
  BY HInit
<1>2. HInv /\ [Next]_vars => HInv'
  <2> SUFFICES ASSUME HInv, [Next]_vars PROVE HInv'
    OBVIOUS
  <2>1. CASE RestartKernel
    BY <2>1, RestartKernelKeeps
  <2>2. CASE \E message \in MESSAGES : SignMessage(message)
    BY <2>2, SignMessageKeeps
  <2>3. CASE \E message \in Delivered : Take(message)
    BY <2>3, TakeKeeps
  <2>4. CASE Accept
    BY <2>4, AcceptKeeps
  <2>5. CASE \E published \in Identities(Published) : KernelAnswers(published)
    BY <2>5, KernelAnswersKeeps
  <2>6. CASE FetchReturns
    BY <2>6, FetchReturnsKeeps
  <2>7. CASE Refetch \/ Reject \/ FetchFails
    BY <2>7, OthersKeep
  <2>8. CASE UNCHANGED vars
    BY <2>8, StutterKeeps
  <2>9. QED BY <2>1, <2>2, <2>3, <2>4, <2>5, <2>6, <2>7, <2>8 DEF Next
<1>3. QED BY <1>1, <1>2, PTL DEF Spec

-----------------------------------------------------------------------------
(* What verifies was signed by the owner of the key in the identity held,  *)
(* whoever that is (KernelIdentity::verify).                               *)
THEOREM AcceptedMessagesWereSigned == Spec => []OnlySignedMessages
<1>1. HInv => OnlySignedMessages
  BY DEF HInv
<1>2. QED BY <1>1, HAlways, PTL

(* An identity as process n published it, of a process no older than the   *)
(* running one, verifies what the running one signs.                       *)
LEMMA LaterIdentityVerifies ==
  ASSUME HInv, pc = "verify", refetched, hand \in Current,
         NEW n \in 1 .. epoch,
         FetchKernelIdentity(Reply(200, PublishedBy(n))) = Ok(identity)
  PROVE  Verdict.ok
<1>1. PICK message \in MESSAGES :
        hand = [message   |-> message,
                signature |-> SignedBy(epoch, message).signature]
  BY DEF Current, AsSigned, Received
<1>2. /\ hand.signature = SignBytes(epoch, hand.message)
      /\ hand.signature.signing_key = epoch
  BY <1>1 DEF SignedBy, SignBytes, KernelCredential, Generate
<1>3. PICK k \in 1 .. epoch : \E body \in Identities(PublishedBy(k)) :
        /\ LaterAnswer(body, k)
        /\ FetchKernelIdentity(Reply(200, body)) = Ok(identity)
  BY DEF HInv, IdentityIsLater
<1>4. k = epoch
  BY <1>2, <1>3 DEF HInv, LaterAnswer
<1>5. identity.instance_id = InstanceId(k)
  BY <1>3, FetchedFields, IdentityNamesProcess
<1>6. /\ identity.instance_id = InstanceId(n)
      /\ identity.public_key = KeyBytes(n)
  <2>1. /\ PublishedBy(n).instance_id = InstanceId(n)
        /\ PublishedBy(n).public_key = KeyBytes(n)
    BY DEF PublishedBy, PublishedIdentity, KernelCredential, Generate,
           ClientPublicKey
  <2>2. QED BY <2>1, FetchedFields
<1>7. n = epoch
  BY <1>4, <1>5, <1>6 DEF InstanceId
<1>8. identity.public_key = [on_curve |-> TRUE, signing_key |-> epoch]
  BY <1>6, <1>7 DEF KeyBytes
<1>9. Verdict = Ok("verified")
  BY <1>2, <1>8 DEF Verdict, VerifyMessage, VerifyBytes
<1>10. QED BY <1>9 DEF Ok

(* The rule the documentation of KernelIdentity gives is enough: what the  *)
(* running process signed does not fail again, after a fetch, against an   *)
(* identity as it was published.                                           *)
THEOREM RefetchIsEnough == Spec => []RefetchedIdentityVerifies
<1>1. HInv => RefetchedIdentityVerifies
  BY LaterIdentityVerifies DEF RefetchedIdentityVerifies
<1>2. QED BY <1>1, HAlways, PTL

-----------------------------------------------------------------------------
(* The trust anchor.                                                       *)
LEMMA EarliestIsFirst ==
  \A T \in SUBSET Nat :
    T # {} => Earliest(T) \in T /\ \A j \in T : Earliest(T) <= j
<1> SUFFICES ASSUME NEW T \in SUBSET Nat, T # {}
             PROVE  Earliest(T) \in T /\ \A j \in T : Earliest(T) <= j
  OBVIOUS
<1>1. \E i \in T : \A j \in T : ~(<<j, i>> \in OpToRel(<, Nat))
  BY NatLessThanWellFounded, WFMin
<1>2. \A i, j \in T : ~(<<j, i>> \in OpToRel(<, Nat)) => i <= j
  BY DEF OpToRel
<1>3. \E i \in T : \A j \in T : i <= j
  BY <1>1, <1>2
<1>4. QED BY <1>3 DEF Earliest

(* find returns the first place after i, if the marker is there at all.    *)
LEMMA FindAfterIsFirst ==
  \A text \in Seq(Tokens), i \in Nat, marker \in Tokens :
    /\ FindAfter(text, i, marker) # 0 =>
         /\ FindAfter(text, i, marker) \in i + 1 .. Len(text)
         /\ text[FindAfter(text, i, marker)] = marker
    /\ \A j \in i + 1 .. Len(text) :
         text[j] = marker =>
           /\ FindAfter(text, i, marker) # 0
           /\ FindAfter(text, i, marker) <= j
<1> SUFFICES ASSUME NEW text \in Seq(Tokens), NEW i \in Nat,
                    NEW marker \in Tokens
             PROVE  /\ FindAfter(text, i, marker) # 0 =>
                         /\ FindAfter(text, i, marker) \in i + 1 .. Len(text)
                         /\ text[FindAfter(text, i, marker)] = marker
                    /\ \A j \in i + 1 .. Len(text) :
                         text[j] = marker =>
                           /\ FindAfter(text, i, marker) # 0
                           /\ FindAfter(text, i, marker) <= j
  OBVIOUS
<1> DEFINE places == {j \in i + 1 .. Len(text) : text[j] = marker}
           found == FindAfter(text, i, marker)
<1>1. found = IF places = {} THEN 0 ELSE Earliest(places)
  BY DEF FindAfter
<1>2. places \in SUBSET Nat /\ 0 \notin places
  OBVIOUS
<1>3. /\ \A j \in places : j \in i + 1 .. Len(text) /\ text[j] = marker
      /\ \A j \in i + 1 .. Len(text) : text[j] = marker => j \in places
  OBVIOUS
<1> HIDE DEF places, found
<1>4. found # 0 => found \in places
  BY <1>1, <1>2, EarliestIsFirst
<1>5. \A j \in places : found # 0 /\ found <= j
  BY <1>1, <1>2, EarliestIsFirst
<1>6. /\ found # 0 => found \in i + 1 .. Len(text) /\ text[found] = marker
      /\ \A j \in i + 1 .. Len(text) :
           text[j] = marker => found # 0 /\ found <= j
  BY <1>3, <1>4, <1>5
<1>7. QED BY <1>6 DEF found

(* How a place that is the first with the marker is found.                 *)
LEMMA FoundThere ==
  \A text \in Seq(Tokens), i \in Nat, marker \in Tokens :
    \A b \in i + 1 .. Len(text) :
      text[b] = marker /\ (\A j \in i + 1 .. b - 1 : text[j] # marker)
        => FindAfter(text, i, marker) = b
<1> SUFFICES ASSUME NEW text \in Seq(Tokens), NEW i \in Nat,
                    NEW marker \in Tokens, NEW b \in i + 1 .. Len(text),
                    text[b] = marker,
                    \A j \in i + 1 .. b - 1 : text[j] # marker
             PROVE  FindAfter(text, i, marker) = b
  OBVIOUS
<1>1. PICK f : f = FindAfter(text, i, marker)
  OBVIOUS
<1>2. f # 0 /\ f <= b
  BY <1>1, FindAfterIsFirst
<1>3. f \in i + 1 .. Len(text) /\ text[f] = marker
  BY <1>1, <1>2, FindAfterIsFirst
<1>4. f \notin i + 1 .. b - 1
  BY <1>3
<1>5. QED BY <1>1, <1>2, <1>3, <1>4

LEMMA BlocksAreFinite ==
  ASSUME NEW text \in Seq(Tokens)
  PROVE  /\ IsFiniteSet(Blocks(text))
         /\ Blocks(text) # {} => Cardinality(Blocks(text)) >= 1
<1>1. Len(text) \in Nat
  OBVIOUS
<1>2. IsFiniteSet(1 .. Len(text))
  BY <1>1, FS_Interval
<1>3. Blocks(text) \in SUBSET (1 .. Len(text))
  BY DEF Blocks
<1>4. IsFiniteSet(Blocks(text))
  BY <1>2, <1>3, FS_Subset
<1>5. Cardinality(Blocks(text)) \in Nat
  BY <1>4, FS_CardinalityType
<1>6. Blocks(text) # {} => Cardinality(Blocks(text)) # 0
  BY <1>4, FS_EmptySet
<1>7. QED BY <1>4, <1>5, <1>6

(* The first beginning the check finds is a block for the backend, if it   *)
(* starts its line.                                                        *)
LEMMA CheckedHasBlock ==
  ASSUME NEW text \in Seq(Tokens), ValidatePemCertificate(text).ok,
         \A i \in DOMAIN text : text[i] = "begin" => StartsLine(text, i, "begin")
  PROVE  Blocks(text) # {}
<1>1. PICK b : b = FindAfter(text, 0, "begin")
  OBVIOUS
<1>2. b # 0
  BY <1>1 DEF ValidatePemCertificate, Err
<1>3. "begin" \in Tokens
  BY DEF Tokens
<1>4. /\ b \in 1 .. Len(text) /\ text[b] = "begin"
      /\ \A j \in 1 .. Len(text) : text[j] = "begin" => b <= j
  BY <1>1, <1>2, <1>3, FindAfterIsFirst
<1>5. StartsLine(text, b, "begin")
  BY <1>4
<1>6. \A c \in 1 .. b - 1 : ~StartsLine(text, c, "begin")
  <2>1. TAKE c \in 1 .. b - 1
  <2>2. c \in 1 .. Len(text) /\ ~(b <= c)
    BY <1>4
  <2>3. text[c] # "begin"
    BY <1>4, <2>2
  <2>4. QED BY <2>3 DEF StartsLine
<1>7. b \in Blocks(text)
  BY <1>4, <1>5, <1>6 DEF Blocks
<1>8. QED BY <1>7

(* The text is one of TEXTS, and the client what it makes of it.           *)
Built ==
  /\ pem \in Seq(Tokens)
  /\ client # << >> =>
       client = IF ValidatePemCertificate(pem).ok
                  THEN Build(pem) ELSE ValidatePemCertificate(pem)

LEMMA BuiltAlways == AnchorSpec => []Built
<1>1. AnchorInit => Built
  BY AnchorAssumption DEF AnchorInit, Built
<1>2. Built /\ [AnchorNext]_anchor_vars => Built'
  <2> SUFFICES ASSUME Built, [AnchorNext]_anchor_vars PROVE Built'
    OBVIOUS
  <2>1. CASE WithExtraRootCertificate
    BY <2>1 DEF WithExtraRootCertificate, Built
  <2>2. CASE UNCHANGED anchor_vars
    BY <2>2 DEF anchor_vars, Built
  <2>3. QED BY <2>1, <2>2 DEF AnchorNext
<1>3. QED BY <1>1, <1>2, PTL DEF AnchorSpec

(* A client built from a text whose beginnings of blocks start their lines *)
(* trusts an extra root: what passes validate_pem_certificate is not       *)
(* skipped by the TLS backend.                                             *)
THEOREM BuiltClientTrusts == AnchorSpec => []UsableOrRefused
<1>1. Built => UsableOrRefused
  <2> SUFFICES ASSUME Built, client # << >>, BeginsStartLines, client.ok
               PROVE  client.value.roots >= 1
    BY DEF UsableOrRefused
  <2>1. ValidatePemCertificate(pem).ok
    BY DEF Built
  <2>2. client = Build(pem)
    BY <2>1 DEF Built
  <2>3. Blocks(pem) # {}
    BY <2>1, CheckedHasBlock DEF Built, BeginsStartLines
  <2>4. client = Ok([roots |-> Cardinality(Blocks(pem))])
    BY <2>2 DEF Build, Err
  <2>5. client.value.roots = Cardinality(Blocks(pem))
    BY <2>4 DEF Ok
  <2>6. QED BY <2>3, <2>5, BlocksAreFinite DEF Built
<1>2. QED BY <1>1, BuiltAlways, PTL

(* A text with one certificate passes the check, and the backend finds     *)
(* that certificate and nothing else.                                      *)
LEMMA GenuineIsOneBlock ==
  ASSUME pem \in Seq(Tokens), Genuine
  PROVE  ValidatePemCertificate(pem).ok /\ Build(pem) = Ok([roots |-> 1])
<1>1. PICK b \in DOMAIN pem, e \in DOMAIN pem :
        /\ StartsLine(pem, b, "begin") /\ StartsLine(pem, e, "end")
        /\ CertificateBetween(pem, b, e)
        /\ \A i \in DOMAIN pem \ (b .. e) :
             pem[i] \notin {"begin", "end", "latin1"}
  BY DEF Genuine
<1>2. PICK i \in b + 1 .. e - 1 :
        Solid(pem, b, e) = {i} /\ pem[i] = "certificate"
  BY <1>1 DEF CertificateBetween
<1>3. /\ DOMAIN pem = 1 .. Len(pem) /\ Len(pem) \in Nat
      /\ b \in 1 .. Len(pem) /\ e \in 1 .. Len(pem) /\ e \in b + 1 .. Len(pem)
  BY <1>2
<1>4. /\ pem[b] = "begin" /\ pem[e] = "end"
      /\ \A j \in b + 1 .. e - 1 :
           pem[j] \notin {"begin", "end", "latin1"}
  <2>1. \A j \in b + 1 .. e - 1 : j # i => pem[j] \in Blank
    BY <1>2 DEF Solid
  <2>2. \A j \in b + 1 .. e - 1 : pem[j] \notin {"begin", "end", "latin1"}
    BY <1>2, <2>1 DEF Blank
  <2>3. QED BY <1>1, <2>2 DEF StartsLine
<1>5. \A j \in 1 .. Len(pem) :
        /\ pem[j] # "latin1"
        /\ pem[j] = "begin" => j = b
        /\ pem[j] = "end" => j = e
  <2>1. TAKE j \in 1 .. Len(pem)
  <2>2. CASE j \notin b .. e
    BY <1>1, <1>3, <2>2
  <2>3. CASE j \in b + 1 .. e - 1
    BY <1>4, <2>3
  <2>4. CASE j = b \/ j = e
    BY <1>4, <2>4
  <2>5. QED BY <1>3, <2>2, <2>3, <2>4
<1>6. FindAfter(pem, 0, "begin") = b
  <2>1. b \in 0 + 1 .. Len(pem) /\ \A j \in 0 + 1 .. b - 1 : pem[j] # "begin"
    BY <1>3, <1>5
  <2>2. "begin" \in Tokens /\ 0 \in Nat
    BY DEF Tokens
  <2>3. QED BY <1>4, <2>1, <2>2, FoundThere
<1>7. FindAfter(pem, b, "end") = e
  <2>1. \A j \in b + 1 .. e - 1 : pem[j] # "end"
    BY <1>4
  <2>2. "end" \in Tokens /\ b \in Nat
    BY <1>3 DEF Tokens
  <2>3. QED BY <1>3, <1>4, <2>1, <2>2, FoundThere
<1>8. Earliest(Solid(pem, b, e)) = i
  <2>1. Solid(pem, b, e) \in SUBSET Nat /\ Solid(pem, b, e) # {}
    BY <1>2, <1>3
  <2>2. Earliest(Solid(pem, b, e)) \in Solid(pem, b, e)
    BY <2>1, EarliestIsFirst
  <2>3. QED BY <1>2, <2>2
<1>9. ValidatePemCertificate(pem).ok
  <2>1. b # 0 /\ e # 0
    BY <1>3
  <2>2. /\ \A j \in Solid(pem, b, e) : pem[j] \in Base64
        /\ Solid(pem, b, e) # {}
        /\ pem[Earliest(Solid(pem, b, e))] # "key"
    BY <1>2, <1>8 DEF Base64
  <2>3. ValidatePemCertificate(pem) = Ok("checked")
    BY <1>5, <1>6, <1>7, <2>1, <2>2 DEF ValidatePemCertificate
  <2>4. QED BY <2>3 DEF Ok
<1>10. Blocks(pem) = {b}
  <2>1. \A c \in 1 .. b - 1 : ~StartsLine(pem, c, "begin")
    <3>1. TAKE c \in 1 .. b - 1
    <3>2. c \in 1 .. Len(pem) /\ c # b
      BY <1>3
    <3>3. QED BY <1>5, <3>2 DEF StartsLine
  <2>2. b \in Blocks(pem)
    BY <1>1, <1>3, <2>1 DEF Blocks
  <2>3. \A c \in Blocks(pem) : c = b
    BY <1>5 DEF Blocks, StartsLine
  <2>4. QED BY <2>2, <2>3
<1>11. Readable(pem, b)
  BY <1>1, <1>3 DEF Readable
<1>12. Cardinality(Blocks(pem)) = 1
  BY <1>10, FS_Singleton
<1>13. QED BY <1>9, <1>10, <1>11, <1>12 DEF Build

(* A certificate as the tools write it is trusted, and alone, whatever is  *)
(* written around it: with_extra_root_certificate refuses no good one.     *)
THEOREM GenuineIsTrusted == AnchorSpec => []GenuineTrusted
<1>1. Built => GenuineTrusted
  BY GenuineIsOneBlock DEF Built, GenuineTrusted
<1>2. QED BY <1>1, BuiltAlways, PTL
=============================================================================
