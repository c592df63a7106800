---------------------------- MODULE TrustAnchor ----------------------------
(***************************************************************************)
(* Client::with_extra_root_certificate: a PEM text is read twice, by       *)
(* validate_pem_certificate (src/src/transport.rs), which searches the     *)
(* whole text, and by the TLS backend (external), which reads it line by   *)
(* line and skips, silently, what no line starts as a block.  The check    *)
(* exists because the backend does not mind a text without certificates.   *)
(*                                                                         *)
(* A text is a sequence of tokens: the two markers, white space, ends of   *)
(* lines, base64 of a certificate, of another ASN.1 SEQUENCE or of         *)
(* something else, text that is not base64, and bytes that are not UTF-8.  *)
(***************************************************************************)
EXTENDS Http, Sequences, FiniteSets

CONSTANT
  TEXTS   \* the texts a caller may pass

Blank  == {"space", "line end"}
Base64 == {"certificate", "sequence", "key"}
Tokens == {"begin", "end", "text", "latin1"} \cup Blank \cup Base64

ASSUME AnchorAssumption == TEXTS \subseteq Seq(Tokens)

VARIABLES
  pem,     \* the text given
  client   \* what with_extra_root_certificate returned, or <<>> before it

anchor_vars == <<pem, client>>

AnchorInit ==
  /\ pem \in TEXTS
  /\ client = << >>

-----------------------------------------------------------------------------
(* The crate's check.                                                      *)

Earliest(places) == CHOOSE i \in places : \A j \in places : i <= j

(* str::find in what follows place i; 0 if the marker is not there.        *)
FindAfter(text, i, marker) ==
  LET places == {j \in i + 1 .. Len(text) : text[j] = marker}
  IN IF places = {} THEN 0 ELSE Earliest(places)

(* The places between i and j that hold anything but white space.          *)
Solid(text, i, j) == {k \in i + 1 .. j - 1 : text[k] \notin Blank}

(* Slips the runs must notice: a text without markers passes, and the line *)
(* ends of the body are left where they are.                               *)
ValidateIfPresent(text) ==
  IF \E i \in 1 .. Len(text) : text[i] = "latin1"
    THEN Err(InvalidTrustAnchor) ELSE Ok("checked")

ValidateUnstripped(text) ==
  LET begin == FindAfter(text, 0, "begin")
      end == FindAfter(text, begin, "end")
  IN IF \/ 0 \in {begin, end}
        \/ \E i \in begin + 1 .. end - 1 : text[i] \notin Base64
       THEN Err(InvalidTrustAnchor)
       ELSE Ok("checked")

ValidatePemCertificate(text) ==
  LET begin == FindAfter(text, 0, "begin")
      end == FindAfter(text, begin, "end")
      body == Solid(text, begin, end)
  IN IF \/ \E i \in 1 .. Len(text) : text[i] = "latin1"
        \/ begin = 0
        \/ end = 0
        \/ \E i \in body : text[i] \notin Base64
        \/ body = {}
        \/ text[Earliest(body)] = "key"
       THEN Err(InvalidTrustAnchor)
       ELSE Ok("checked")

-----------------------------------------------------------------------------
(* The TLS backend (external).                                             *)

StartsLine(text, i, marker) ==
  /\ text[i] = marker
  /\ i = 1 \/ text[i - 1] = "line end"

(* Where the blocks begin: at a line that starts with the one marker,      *)
(* unless a line like that has begun a block which none with the other     *)
(* marker has ended.                                                       *)
Blocks(text) ==
  {b \in 1 .. Len(text) :
     /\ StartsLine(text, b, "begin")
     /\ \A c \in 1 .. b - 1 :
          StartsLine(text, c, "begin") =>
            \E d \in c + 1 .. b - 1 : StartsLine(text, d, "end")}

(* One certificate on the lines between two markers, and no more on the    *)
(* line of the first than the marker.                                      *)
CertificateBetween(text, b, e) ==
  \E i \in b + 1 .. e - 1 :
    /\ Solid(text, b, e) = {i}
    /\ text[i] = "certificate"
    /\ \E j \in b + 1 .. i - 1 : text[j] = "line end"

Readable(text, b) ==
  \E e \in b + 1 .. Len(text) :
    StartsLine(text, e, "end") /\ CertificateBetween(text, b, e)

(* ClientBuilder::build with the text as an extra root: every block has to *)
(* be a certificate, and how many there are is not asked.                  *)
Build(text) ==
  IF \A b \in Blocks(text) : Readable(text, b)
    THEN Ok([roots |-> Cardinality(Blocks(text))])
    ELSE Err(Transport)

-----------------------------------------------------------------------------
WithExtraRootCertificate ==
  /\ client = << >>
  /\ client' = IF ValidatePemCertificate(pem).ok
                 THEN Build(pem) ELSE ValidatePemCertificate(pem)
  /\ UNCHANGED pem

AnchorNext == WithExtraRootCertificate

AnchorSpec == AnchorInit /\ [][AnchorNext]_anchor_vars
-----------------------------------------------------------------------------
BeginsStartLines ==
  \A i \in DOMAIN pem : pem[i] = "begin" => StartsLine(pem, i, "begin")

(* One certificate, with other lines of text before and after it.          *)
Genuine ==
  \E b, e \in DOMAIN pem :
    /\ StartsLine(pem, b, "begin") /\ StartsLine(pem, e, "end")
    /\ CertificateBetween(pem, b, e)
    /\ \A i \in DOMAIN pem \ (b .. e) : pem[i] \notin {"begin", "end", "latin1"}

(* A client that was built trusts an extra root, if the markers of         *)
(* beginnings start their lines: the check lets nothing through that the   *)
(* backend skips.                                                          *)
UsableOrRefused ==
  (client # << >> /\ BeginsStartLines) =>
    (client.ok => client.value.roots >= 1)

(* A certificate in the form the tools write it is trusted, and alone,     *)
(* whatever is written around it and wherever its lines end.               *)
GenuineTrusted ==
  (client # << >> /\ Genuine) => client = Ok([roots |-> 1])

(* What validate_pem_certificate documents: a misconfigured trust anchor   *)
(* fails at construction time, not as a later handshake failure.           *)
FailsClosed ==
  client # << >> => (client.ok => client.value.roots >= 1)
=============================================================================
