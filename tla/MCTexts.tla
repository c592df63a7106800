------------------------------ MODULE MCTexts ------------------------------
(***************************************************************************)
(* The four machines about texts in one run: each behaviour is one of      *)
(* RequestText, InputText, ProofText or TrustAnchor, the other three being *)
(* left out, and ends when its call has returned.                          *)
(***************************************************************************)
EXTENDS RequestText, InputText, ProofText, MCTrustAnchor

UpTo(n, chars) == UNION {[1 .. k -> chars] : k \in 0 .. n}

-----------------------------------------------------------------------------
(* Characters.                                                             *)
Alphanumeric == {"P", "K", "a", "0", "1", "2", "k", "n"}
Graphic ==
  Alphanumeric \cup Separators \cup
  {"d", "s", "i", "r1", "r2", "p", "/", "@", "?", "#", "-", "_", "https://",
   "sig1=", "ed25519", "urn:uuid:"}
Printable == Graphic \cup {SPACE, "covered;created="} \cup LineNames
AnyCharacters == Printable \cup {LF}

-----------------------------------------------------------------------------
(* RequestText: every short authority and path over a letter and a slash,  *)
(* and a few that hold a further line, blanks or a bad character.          *)

(* The lines from a digest to a content type, as part of another value.    *)
FurtherLines(value) == <<LF, "content-digest", "d", LF, "content-type">> \o value

Heads ==
  [method : {<<"P">>, <<"P", "P">>, <<"a">>, << >>},
   authority : UpTo(2, {"a", "/"}) \cup {<<"a", "@">>, <<"a", "#">>},
   path_and_query :
     UpTo(3, {"a", "/"}) \cup {<<"/", "#">>, <<"/">> \o FurtherLines(<<"a">>)},
   content_type : {<<"a">>, <<"a", SPACE, "a">>, <<"a", SPACE>>, << >>,
                   <<"a">> \o FurtherLines(<<"a">>)}]

Computed ==
  {[digest |-> <<"d">>, service_id |-> <<"s">>, instance_id |-> <<"i">>,
    request_id |-> <<r>>, parameters |-> <<"p">>] : r \in {"r1", "r2"}}

-----------------------------------------------------------------------------
(* InputText: nonces of the lengths at both limits and of the length       *)
(* generate_nonce makes, all of one character but for one, which may be a  *)
(* separator.                                                              *)
Timestamps == {-1, 0, 1, 21}

DigitValue == ("0" :> 0) @@ ("1" :> 1) @@ ("2" :> 2)

(* The digits of a number below 100.                                       *)
DecimalBelow100(t) ==
  LET digit(v) == CHOOSE d \in DIGITS : DIGIT_VALUE[d] = v
  IN IF t < 10 THEN <<digit(t)>> ELSE <<digit(t \div 10), digit(t % 10)>>

Uniform(n, c) == [i \in 1 .. n |-> IF i = 3 THEN c ELSE "n"]

Nonces ==
  {Uniform(n, c) : n \in {15, 16, 32, 128, 129}, c \in {"n", "-"}}
    \cup {Uniform(16, c) : c \in {";keyid=", LF}}
    \cup {Uniform(32, "/")}

(* Two UUIDs, and the ways to write one: with hyphens, without, in         *)
(* capitals and as a URN.                                                  *)
KeyIds == {"key 1", "key 2"}

LastDigit(k) == IF k = "key 1" THEN "1" ELSE "2"

WithHyphens(k) == <<"k", "-", LastDigit(k)>>

Writings(k) ==
  {WithHyphens(k), <<"k", LastDigit(k)>>, <<"K", "-", LastDigit(k)>>,
   <<"urn:uuid:", "k", "-", LastDigit(k)>>}

UuidOf(text) ==
  IF \E k \in KeyIds : text \in Writings(k)
    THEN CHOOSE k \in KeyIds : text \in Writings(k)
    ELSE GARBLED

Smudges ==
  {"0", "1", "2", "n", "k", "K", "/", "urn:uuid:", ";expires=", ";nonce=",
   ";keyid=", ";alg=", "ed25519"}

-----------------------------------------------------------------------------
(* ProofText: endpoint, pod UID and the two fields around them of every    *)
(* length up to two, of bytes that are lengths, too.                       *)
ProofFields ==
  {[context |-> <<1>>, challenge |-> <<2, 2>>, service_id |-> <<1>>,
    instance_id |-> <<2>>, key_id |-> <<0>>, public_key |-> k,
    endpoint |-> e, pod_uid |-> p, token_digest |-> d] :
     k \in {<<0, 1>>, <<1, 1>>}, e \in UpTo(2, {0, 1, 2}),
     p \in UpTo(2, {1, 2}), d \in {<<1>>, <<2>>}}

-----------------------------------------------------------------------------
NoRequest ==
  /\ head = NOT_YET
  /\ computed = NOT_YET
  /\ base = NOT_YET
  /\ received = NOT_YET
  /\ request_verified = NOT_YET

NoHeader ==
  /\ asked = NOT_YET
  /\ header = NOT_YET
  /\ header_received = NOT_YET
  /\ parsed = NOT_YET

NoProof ==
  /\ proof_signed = NO_PROOF_YET
  /\ proof_received = NO_PROOF_YET
  /\ proof_verified = NO_PROOF_YET

NoAnchor == pem = << >> /\ client = << >>

Init ==
  \/ RequestInit /\ NoHeader /\ NoProof /\ NoAnchor
  \/ NoRequest /\ InputInit /\ NoProof /\ NoAnchor
  \/ NoRequest /\ NoHeader /\ ProofInit /\ NoAnchor
  \/ NoRequest /\ NoHeader /\ NoProof /\ AnchorInit

Next ==
  \/ /\ head # NOT_YET
     /\ RequestNext
     /\ UNCHANGED <<input_vars, proof_vars, anchor_vars>>
  \/ /\ asked # NOT_YET
     /\ InputNext
     /\ UNCHANGED <<request_vars, proof_vars, anchor_vars>>
  \/ /\ proof_signed # NO_PROOF_YET
     /\ ProofNext
     /\ UNCHANGED <<request_vars, input_vars, anchor_vars>>
  \/ /\ NoRequest /\ NoHeader /\ NoProof
     /\ AnchorNext
     /\ UNCHANGED <<request_vars, input_vars, proof_vars>>

Spec == Init /\ [][Next]_<<request_vars, input_vars, proof_vars, anchor_vars>>
=============================================================================
