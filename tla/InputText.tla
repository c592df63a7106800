----------------------------- MODULE InputText -----------------------------
(***************************************************************************)
(* The Signature-Input header as the text it is: signature_parameters      *)
(* writes it, and parse_signature_input takes it apart at the first        *)
(* occurrence of each of four separators.                                  *)
(*                                                                         *)
(* Modules Wire and Verify keep the header as a record with one field per  *)
(* parameter, or GARBLED.  This module says what that leaves out.  A       *)
(* number and a key ID can be written in more ways than signature_         *)
(* parameters does: with zeros in front, in capitals, without hyphens.     *)
(* Such a header parses, and the parameters kept for the signature base    *)
(* are its text as received.  The quotation mark before or after a value   *)
(* belongs to its separator.                                               *)
(***************************************************************************)
EXTENDS Text

CONSTANTS
  DIGIT_VALUE,       \* the value of each decimal digit
  I64_MAX,           \* i64::MAX
  Decimal(_),        \* how an i64 is written
  Hyphenated(_),     \* how a UUID is written
  ParseUuid(_),      \* the UUID a text stands for, or GARBLED
  TIMESTAMPS,        \* timestamps a caller passes
  NONCES,            \* texts of the nonces a caller passes
  KEY_IDS,           \* UUIDs
  SMUDGES,           \* characters a damaged header may show
  SIGNATURE_VALIDITY_SECONDS,
  MIN_NONCE_LENGTH, MAX_NONCE_LENGTH,
  NONCE_BYTES        \* random bytes generate_nonce draws

DIGITS == DOMAIN DIGIT_VALUE

(* The number a text of digits stands for.                                 *)
Number(text) ==
  LET upto[n \in 0 .. Len(text)] ==
        IF n = 0 THEN 0 ELSE 10 * upto[n - 1] + DIGIT_VALUE[text[n]]
  IN upto[Len(text)]

Separators == {";expires=", ";nonce=", ";keyid=", ";alg="}

ASSUME RangeAssumption ==
  /\ I64_MAX \in Nat
  /\ TIMESTAMPS \subseteq (-I64_MAX - 1) .. I64_MAX
  /\ SIGNATURE_VALIDITY_SECONDS \in Nat

ASSUME InputTextAssumption ==
  /\ DIGITS \subseteq ALPHANUMERIC
  /\ NONCES \subseteq Seq(CHARACTERS)
  /\ SMUDGES \subseteq CHARACTERS
  /\ Separators \cap (ALPHANUMERIC \cup {"-", "_"}) = {}
  /\ Separators \cup {"sig1=", "covered;created=", "ed25519"}
       \subseteq CHARACTERS

(* The conversions of the standard library and of the uuid crate: a value  *)
(* is written in one way, which stands for it again.                       *)
ASSUME ConversionAssumption ==
  /\ \A t \in TIMESTAMPS :
       t >= 0 => /\ Decimal(t) \in Seq(DIGITS) \ {<< >>}
                 /\ Number(Decimal(t)) = t
  /\ \A k \in KEY_IDS :
       /\ Hyphenated(k) \in Seq(ALPHANUMERIC \cup {"-"})
       /\ ParseUuid(Hyphenated(k)) = k
  /\ GARBLED \notin KEY_IDS

NonceCharacters == ALPHANUMERIC \cup {"-", "_"}

(* A slip the runs must notice: the standard alphabet, not the URL-safe.   *)
GeneratedStandard(nonce) ==
  /\ Len(nonce) = (4 * NONCE_BYTES + 2) \div 3
  /\ Over(nonce, ALPHANUMERIC \cup {"/"})

(* generate_nonce: base64url, unpadded, of NONCE_BYTES random bytes.       *)
Generated(nonce) ==
  /\ Len(nonce) = (4 * NONCE_BYTES + 2) \div 3
  /\ Over(nonce, NonceCharacters)

(* A slip the runs must notice: only the length is looked at.              *)
ValidNonceLength(nonce) ==
  Len(nonce) \in MIN_NONCE_LENGTH .. MAX_NONCE_LENGTH

ValidNonce(nonce) ==
  /\ Len(nonce) \in MIN_NONCE_LENGTH .. MAX_NONCE_LENGTH
  /\ Over(nonce, NonceCharacters)

(* Checked in this order, so the difference is one of two numbers that are *)
(* not negative and does not leave the i64 range.                          *)
ValidateSignatureMetadata(created, expires, nonce) ==
  IF created < 0
    THEN Err(InvalidRequestPart("created"))
  ELSE IF expires <= created \/ expires - created > SIGNATURE_VALIDITY_SECONDS
    THEN Err(InvalidRequestPart("expires"))
  ELSE IF ~ValidNonce(nonce)
    THEN Err(InvalidRequestPart("nonce"))
  ELSE Ok("valid")

(* The five parameters, each as a text.                                    *)
SignatureParameters(created, expires, nonce, key_id) ==
  <<"covered;created=">> \o (created \o
    (<<";expires=">> \o (expires \o
      (<<";nonce=">> \o (nonce \o
        (<<";keyid=">> \o (key_id \o <<";alg=", "ed25519">>)))))))

Label(parameters) == <<"sig1=">> \o parameters

-----------------------------------------------------------------------------
(* The strip_prefix and split_once calls of parse_signature_input.         *)
Split(value) ==
  LET parameters == After(value, 1)
      rest == After(parameters, 1)
      e == Find(rest, ";expires=")
      after_e == After(rest, e)
      n == Find(after_e, ";nonce=")
      after_n == After(after_e, n)
      k == Find(after_n, ";keyid=")
      after_k == After(after_n, k)
      a == Find(after_k, ";alg=")
  IN IF \/ ~StartsWith(value, "sig1=")
        \/ ~StartsWith(parameters, "covered;created=")
        \/ 0 \in {e, n, k, a}
       THEN Err(InvalidRequestPart("signature_input"))
       ELSE Ok([parameters |-> parameters,
                created    |-> Before(rest, e),
                expires    |-> Before(after_e, n),
                nonce      |-> Before(after_n, k),
                key_id     |-> Before(after_k, a),
                algorithm  |-> After(after_k, a)])

(* A slip the runs must notice: more may follow.                           *)
BeginsWithEd25519(algorithm) == StartsWith(algorithm, "ed25519")

IsEd25519(algorithm) == algorithm = <<"ed25519">>

ParseTimestamp(text) ==
  IF text = << >> \/ ~Over(text, DIGITS)
    THEN Err(InvalidRequestPart("timestamp"))
  ELSE IF Number(text) \notin 0 .. I64_MAX
    THEN Err(InvalidRequestPart("timestamp"))
  ELSE Ok(Number(text))

ParseSignatureInput(value) ==
  LET split == Split(value)
      texts == split.value
      created == ParseTimestamp(texts.created)
      expires == ParseTimestamp(texts.expires)
      metadata == ValidateSignatureMetadata(created.value, expires.value,
                                            texts.nonce)
      key_id == ParseUuid(texts.key_id)
  IN IF ~split.ok
       THEN split
     ELSE IF ~IsEd25519(texts.algorithm)
       THEN Err(InvalidRequestPart("signature_input"))
     ELSE IF ~created.ok
       THEN created
     ELSE IF ~expires.ok
       THEN expires
     ELSE IF ~metadata.ok
       THEN metadata
     ELSE IF key_id = GARBLED
       THEN Err(InvalidRequestPart("signature_input"))
     ELSE Ok([parameters |-> texts.parameters, created |-> created.value,
              expires |-> expires.value, key_id |-> key_id])

-----------------------------------------------------------------------------
VARIABLES
  asked,             \* what the caller of sign passes
  header,            \* the Signature-Input header, or the error of sign
  header_received,   \* the header as it arrives
  parsed             \* what parse_signature_input returned

input_vars == <<asked, header, header_received, parsed>>

InputInit ==
  /\ asked \in [created : TIMESTAMPS, expires : TIMESTAMPS, nonce : NONCES,
                key_id : KEY_IDS]
  /\ header = NOT_YET
  /\ header_received = NOT_YET
  /\ parsed = NOT_YET

(* The parameters signature_parameters writes for what was asked.          *)
ParametersOf(a) ==
  SignatureParameters(Decimal(a.created), Decimal(a.expires), a.nonce,
                      Hyphenated(a.key_id))

SignHeader ==
  /\ header = NOT_YET
  /\ header' =
       LET metadata == ValidateSignatureMetadata(asked.created, asked.expires,
                                                 asked.nonce)
       IN IF metadata.ok THEN Ok(Label(ParametersOf(asked))) ELSE metadata
  /\ UNCHANGED <<asked, header_received, parsed>>

(* The i-th character is missing, another, or followed by an extra one.    *)
Damaged(text, i, c) ==
  {Before(text, i) \o After(text, i),
   Before(text, i) \o (<<c>> \o After(text, i)),
   Before(text, i + 1) \o (<<c>> \o After(text, i))}

ReceiveHeader ==
  /\ header # NOT_YET
  /\ header.ok
  /\ header_received = NOT_YET
  /\ \/ header_received' = header.value
     \/ \E i \in 1 .. Len(header.value), c \in SMUDGES :
          header_received' \in Damaged(header.value, i, c)
  /\ UNCHANGED <<asked, header, parsed>>

ParseHeader ==
  /\ header_received # NOT_YET
  /\ parsed = NOT_YET
  /\ parsed' = ParseSignatureInput(header_received)
  /\ UNCHANGED <<asked, header, header_received>>

InputNext == SignHeader \/ ReceiveHeader \/ ParseHeader

InputSpec == InputInit /\ [][InputNext]_input_vars
-----------------------------------------------------------------------------
(* What sign writes is read back as it was passed, whatever nonce sign     *)
(* admits: no value holds a separator, so the first one is the right one.  *)
(* The parameters verify_incoming puts into the signature base are, to the *)
(* character, those the signature was made over.                           *)
ReadsBack ==
  (parsed # NOT_YET /\ header_received = header.value) =>
    parsed = Ok([parameters |-> ParametersOf(asked),
                 created |-> asked.created, expires |-> asked.expires,
                 key_id |-> asked.key_id])

(* A header that parses consists of the label and the five parameters,     *)
(* with nothing before, between or after them; its numbers are those the   *)
(* digits shown stand for, in the i64 range and at most the validity apart *)
(* even with zeros in front; and the parameters kept for the signature     *)
(* base are its whole text as received, so that no other way of writing    *)
(* the same values passes for the one that was signed.                     *)
NothingElseParses ==
  (parsed # NOT_YET /\ parsed.ok) =>
    LET value == parsed.value
        texts == Split(header_received).value
    IN /\ header_received = Label(value.parameters)
       /\ value.parameters =
            SignatureParameters(texts.created, texts.expires, texts.nonce,
                                texts.key_id)
       /\ Over(texts.created, DIGITS) /\ value.created = Number(texts.created)
       /\ Over(texts.expires, DIGITS) /\ value.expires = Number(texts.expires)
       /\ 0 <= value.created
       /\ value.created < value.expires
       /\ value.expires <= I64_MAX
       /\ value.expires - value.created <= SIGNATURE_VALIDITY_SECONDS
       /\ ValidNonce(texts.nonce)
       /\ value.key_id = ParseUuid(texts.key_id)

(* sign never refuses a nonce that generate_nonce made.                    *)
GeneratedNonceServes ==
  (header # NOT_YET /\ Generated(asked.nonce)) =>
    header # Err(InvalidRequestPart("nonce"))
=============================================================================
