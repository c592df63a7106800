-------------------------- MODULE SignedTextProofs --------------------------
(***************************************************************************)
(* That what is signed can be read in one way only.  A signature base: for *)
(* texts of every length over any characters, and HTTP hands over a        *)
(* request that sign admitted as it was signed.  The message of an         *)
(* enrollment proof: for fields of any lengths below LENGTH_SPAN.          *)
(***************************************************************************)
EXTENDS RequestText, ProofText, SequenceTheorems, WellFoundedInduction, TLAPS

Texts == Seq(CHARACTERS)

(* The text a has no m, and the text r begins with one.                    *)
Without(a, m) == \A i \in 1 .. Len(a) : a[i] # m

Begins(r, m) == r \in Texts /\ Len(r) > 0 /\ r[1] = m

LEMMA OneCharacter ==
  ASSUME NEW S, NEW c \in S
  PROVE  <<c>> \in Seq(S) /\ Len(<<c>>) = 1 /\ <<c>>[1] = c
OBVIOUS

(* Wherever two texts first show a mark is the same place in both.         *)
LEMMA MarkNotEarlier ==
  ASSUME NEW m, NEW a1 \in Texts, NEW a2 \in Texts,
         NEW r1 \in Texts, NEW r2 \in Texts,
         Without(a2, m), Begins(r1, m),
         a1 \o r1 = a2 \o r2
  PROVE  ~(Len(a1) < Len(a2))
<1> SUFFICES ASSUME Len(a1) < Len(a2) PROVE FALSE
  OBVIOUS
<1>1. Len(a1) \in Nat /\ Len(a2) \in Nat /\ Len(r1) \in Nat /\ Len(r2) \in Nat
  BY LenProperties DEF Texts
<1>2. (a1 \o r1)[Len(a1) + 1] = r1[1]
  <2>1. Len(a1) + 1 \in 1 .. Len(a1) + Len(r1)
    BY <1>1 DEF Begins
  <2>2. QED BY <1>1, <2>1, ConcatProperties DEF Texts
<1>3. (a2 \o r2)[Len(a1) + 1] = a2[Len(a1) + 1]
  <2>1. Len(a1) + 1 \in 1 .. Len(a2) + Len(r2) /\ Len(a1) + 1 <= Len(a2)
    BY <1>1
  <2>2. QED BY <1>1, <2>1, ConcatProperties DEF Texts
<1>4. Len(a1) + 1 \in 1 .. Len(a2)
  BY <1>1
<1>5. QED BY <1>2, <1>3, <1>4 DEF Without, Begins

LEMMA SameLengthSplits ==
  \A s1, s2, t1, t2 \in Texts :
    Len(s1) = Len(s2) /\ s1 \o t1 = s2 \o t2 => s1 = s2 /\ t1 = t2
<1> SUFFICES ASSUME NEW s1 \in Texts, NEW s2 \in Texts,
                    NEW t1 \in Texts, NEW t2 \in Texts,
                    Len(s1) = Len(s2), s1 \o t1 = s2 \o t2
             PROVE  s1 = s2 /\ t1 = t2
  OBVIOUS
<1> USE DEF Texts
<1>1. \A i \in 1 .. Len(s1) : s1[i] = s2[i]
  <2>1. TAKE i \in 1 .. Len(s1)
  <2>2. (s1 \o t1)[i] = s1[i] /\ (s2 \o t2)[i] = s2[i]
    BY LenProperties, ConcatProperties
  <2>3. QED BY <2>2
<1>2. s1 = s2
  BY <1>1, SeqEqual
<1>3. QED BY <1>2, ConcatSimplifications

(* A text is cut in one way at the first mark it shows.                    *)
LEMMA SplitsAtMark ==
  \A m : \A a1, a2, r1, r2 \in Texts :
    /\ Without(a1, m) /\ Without(a2, m)
    /\ Begins(r1, m) /\ Begins(r2, m)
    /\ a1 \o r1 = a2 \o r2
    => a1 = a2 /\ r1 = r2
<1> SUFFICES ASSUME NEW m, NEW a1 \in Texts, NEW a2 \in Texts,
                    NEW r1 \in Texts, NEW r2 \in Texts,
                    Without(a1, m), Without(a2, m),
                    Begins(r1, m), Begins(r2, m),
                    a1 \o r1 = a2 \o r2
             PROVE  a1 = a2 /\ r1 = r2
  OBVIOUS
<1>1. ~(Len(a1) < Len(a2)) /\ ~(Len(a2) < Len(a1))
  BY MarkNotEarlier
<1>2. Len(a1) \in Nat /\ Len(a2) \in Nat
  BY LenProperties DEF Texts
<1>3. Len(a1) = Len(a2)
  BY <1>1, <1>2
<1>4. QED BY <1>3, SameLengthSplits

LEMMA SameFirstCharacter ==
  \A c \in CHARACTERS : \A t1, t2 \in Texts :
    <<c>> \o t1 = <<c>> \o t2 => t1 = t2
<1> SUFFICES ASSUME NEW c \in CHARACTERS, NEW t1 \in Texts, NEW t2 \in Texts,
                    <<c>> \o t1 = <<c>> \o t2
             PROVE  t1 = t2
  OBVIOUS
<1>1. <<c>> \in Seq(CHARACTERS)
  BY OneCharacter
<1>2. QED BY <1>1, ConcatSimplifications DEF Texts

-----------------------------------------------------------------------------
(* A value of a line: printable, so that it holds no line break.           *)
Values == Seq(PRINTABLE)

LEMMA PrintableIsValue ==
  \A v \in Texts : Over(v, PRINTABLE) => v \in Values
<1> SUFFICES ASSUME NEW v \in Texts, Over(v, PRINTABLE)
             PROVE  v \in Seq(PRINTABLE)
  BY DEF Values
<1>1. Len(v) \in Nat /\ v = [i \in 1 .. Len(v) |-> v[i]]
  BY LenProperties DEF Texts
<1>2. \A i \in 1 .. Len(v) : v[i] \in PRINTABLE
  BY DEF Over
<1>3. QED BY <1>1, <1>2, IsASeq

LEMMA ValueWithoutBreak ==
  \A v \in Values : v \in Texts /\ Without(v, LF)
<1> SUFFICES ASSUME NEW v \in Seq(PRINTABLE)
             PROVE  v \in Seq(CHARACTERS) /\ Without(v, LF)
  BY DEF Values, Texts
<1>1. /\ Len(v) \in Nat /\ v = [i \in 1 .. Len(v) |-> v[i]]
      /\ \A i \in 1 .. Len(v) : v[i] \in PRINTABLE
  BY LenProperties
<1>2. \A i \in 1 .. Len(v) : v[i] \in CHARACTERS /\ v[i] # LF
  BY <1>1, CharacterAssumption
<1>3. QED BY <1>1, <1>2, IsASeq DEF Without

LEMMA BreakBegins ==
  \A t \in Texts : <<LF>> \o t \in Texts /\ Begins(<<LF>> \o t, LF)
<1> SUFFICES ASSUME NEW t \in Texts
             PROVE  <<LF>> \o t \in Texts /\ Begins(<<LF>> \o t, LF)
  OBVIOUS
<1>1. LF \in CHARACTERS
  BY CharacterAssumption
<1>2. /\ <<LF>> \in Seq(CHARACTERS) /\ Len(<<LF>>) = 1 /\ <<LF>>[1] = LF
  BY <1>1, OneCharacter
<1>3. t \in Seq(CHARACTERS) /\ Len(t) \in Nat
  BY LenProperties DEF Texts
<1>4. /\ <<LF>> \o t \in Seq(CHARACTERS)
      /\ Len(<<LF>> \o t) = 1 + Len(t)
      /\ (<<LF>> \o t)[1] = LF
  BY <1>2, <1>3, ConcatProperties
<1>5. QED BY <1>3, <1>4 DEF Texts, Begins

LEMMA LineIsText ==
  \A name \in PRINTABLE, v \in Values, rest \in Texts :
    Line(name, v, rest) \in Texts
<1> SUFFICES ASSUME NEW name \in PRINTABLE, NEW v \in Values,
                    NEW rest \in Texts
             PROVE  Line(name, v, rest) \in Texts
  OBVIOUS
<1>1. <<name>> \in Seq(CHARACTERS)
  BY OneCharacter, CharacterAssumption
<1>2. v \in Seq(CHARACTERS) /\ <<LF>> \o rest \in Seq(CHARACTERS)
  BY BreakBegins, ValueWithoutBreak DEF Texts
<1>3. v \o (<<LF>> \o rest) \in Seq(CHARACTERS)
  BY <1>2, ConcatProperties
<1>4. QED BY <1>1, <1>3, ConcatProperties DEF Line, Texts

(* Two texts that begin with a line of the same name have the same value   *)
(* on it and the same text after it.                                       *)
LEMMA LineDetermines ==
  \A name \in PRINTABLE, v1, v2 \in Values, t1, t2 \in Texts :
    Line(name, v1, t1) = Line(name, v2, t2) => v1 = v2 /\ t1 = t2
<1> SUFFICES ASSUME NEW name \in PRINTABLE,
                    NEW v1 \in Values, NEW v2 \in Values,
                    NEW t1 \in Texts, NEW t2 \in Texts,
                    Line(name, v1, t1) = Line(name, v2, t2)
             PROVE  v1 = v2 /\ t1 = t2
  OBVIOUS
<1>1. name \in CHARACTERS /\ LF \in CHARACTERS
  BY CharacterAssumption
<1>2. PICK b1, b2 : b1 = <<LF>> \o t1 /\ b2 = <<LF>> \o t2
  OBVIOUS
<1>3. b1 \in Texts /\ Begins(b1, LF) /\ b2 \in Texts /\ Begins(b2, LF)
  BY <1>2, BreakBegins
<1>4. /\ v1 \in Texts /\ Without(v1, LF)
      /\ v2 \in Texts /\ Without(v2, LF)
  BY ValueWithoutBreak
<1>5. PICK w1, w2 : w1 = v1 \o b1 /\ w2 = v2 \o b2
  OBVIOUS
<1>6. w1 \in Texts /\ w2 \in Texts
  BY <1>3, <1>4, <1>5, ConcatProperties DEF Texts
<1>7. <<name>> \o w1 = <<name>> \o w2
  BY <1>2, <1>5 DEF Line
<1>8. w1 = w2
  BY <1>1, <1>6, <1>7, SameFirstCharacter
<1>9. v1 \o b1 = v2 \o b2
  BY <1>5, <1>8
<1>10. v1 = v2 /\ b1 = b2
  BY <1>3, <1>4, <1>9, SplitsAtMark
<1>11. QED BY <1>1, <1>2, <1>10, SameFirstCharacter
-----------------------------------------------------------------------------
(* The four texts a caller passes, of any kind, and those sign admits.     *)
AnyHead ==
  [method : Texts, authority : Texts, path_and_query : Texts,
   content_type : Texts]

LEMMA AdmittedHead ==
  \A h \in AnyHead :
    RequestParts(h).ok =>
      /\ h.method \in Values /\ h.content_type \in Values
      /\ h.authority \in Values /\ Without(h.authority, "/")
      /\ h.path_and_query \in Values /\ Begins(h.path_and_query, "/")
      /\ h.content_type # << >> /\ IsTrimmed(h.content_type)
<1> SUFFICES ASSUME NEW h \in AnyHead, RequestParts(h).ok
             PROVE  /\ h.method \in Values /\ h.content_type \in Values
                    /\ h.authority \in Values /\ Without(h.authority, "/")
                    /\ h.path_and_query \in Values
                    /\ Begins(h.path_and_query, "/")
                    /\ h.content_type # << >> /\ IsTrimmed(h.content_type)
  OBVIOUS
<1>1. /\ h.method \in Texts /\ h.authority \in Texts
      /\ h.path_and_query \in Texts /\ h.content_type \in Texts
  BY DEF AnyHead
<1>2. /\ Over(h.method, UPPERCASE)
      /\ ValidUriValue(h.authority)
      /\ ~Holds(h.authority, {"/", "@", "?", "#"})
      /\ StartsWith(h.path_and_query, "/")
      /\ ValidUriValue(h.path_and_query)
      /\ ValidHeaderValue(h.content_type)
  BY DEF RequestParts, Err
<1>3. /\ Over(h.method, PRINTABLE) /\ Over(h.authority, PRINTABLE)
      /\ Over(h.path_and_query, PRINTABLE) /\ Over(h.content_type, PRINTABLE)
      /\ h.content_type # << >> /\ IsTrimmed(h.content_type)
  BY <1>2, CharacterAssumption DEF Over, ValidUriValue, ValidHeaderValue
<1>4. Without(h.authority, "/")
  BY <1>2 DEF Holds, Without
<1>5. Begins(h.path_and_query, "/")
  <2>1. h.path_and_query # << >> /\ h.path_and_query[1] = "/"
    BY <1>2 DEF StartsWith
  <2>2. Len(h.path_and_query) > 0
    BY <1>1, <2>1, EmptySeq, LenProperties DEF Texts
  <2>3. QED BY <1>1, <2>1, <2>2 DEF Begins
<1>6. QED BY <1>1, <1>3, <1>4, <1>5, PrintableIsValue

(* A target shows where its authority ends: at the first slash after the   *)
(* scheme.                                                                 *)
LEMMA TargetDetermines ==
  \A h, g \in AnyHead :
    /\ RequestParts(h).ok /\ RequestParts(g).ok
    => /\ TargetUri(h) \in Values
       /\ TargetUri(h) = TargetUri(g) =>
            h.authority = g.authority /\ h.path_and_query = g.path_and_query
<1> SUFFICES ASSUME NEW h \in AnyHead, NEW g \in AnyHead,
                    RequestParts(h).ok, RequestParts(g).ok
             PROVE  /\ TargetUri(h) \in Values
                    /\ TargetUri(h) = TargetUri(g) =>
                         /\ h.authority = g.authority
                         /\ h.path_and_query = g.path_and_query
  OBVIOUS
<1>1. "https://" \in PRINTABLE
  BY RequestTextAssumption
<1>2. PICK a1, p1, a2, p2 :
        /\ a1 = h.authority /\ p1 = h.path_and_query
        /\ a2 = g.authority /\ p2 = g.path_and_query
  OBVIOUS
<1>3. /\ a1 \in Values /\ Without(a1, "/") /\ p1 \in Values /\ Begins(p1, "/")
      /\ a2 \in Values /\ Without(a2, "/") /\ p2 \in Values /\ Begins(p2, "/")
  BY <1>2, AdmittedHead
<1>4. TargetUri(h) \in Values
  <2>1. <<"https://">> \in Seq(PRINTABLE)
    BY <1>1, OneCharacter
  <2>2. a1 \o p1 \in Seq(PRINTABLE)
    BY <1>3, ConcatProperties DEF Values
  <2>3. <<"https://">> \o (a1 \o p1) \in Seq(PRINTABLE)
    BY <2>1, <2>2, ConcatProperties
  <2>4. QED BY <1>2, <2>3 DEF TargetUri, Values
<1>5. ASSUME TargetUri(h) = TargetUri(g)
      PROVE  a1 = a2 /\ p1 = p2
  <2>1. a1 \in Texts /\ p1 \in Texts /\ a2 \in Texts /\ p2 \in Texts
    BY <1>3, ValueWithoutBreak
  <2>2. PICK c, t1, t2 : c = "https://" /\ t1 = a1 \o p1 /\ t2 = a2 \o p2
    OBVIOUS
  <2>3. t1 \in Texts /\ t2 \in Texts /\ c \in CHARACTERS
    BY <1>1, <2>1, <2>2, ConcatProperties, CharacterAssumption DEF Texts
  <2>4. <<c>> \o t1 = <<c>> \o t2
    BY <1>2, <1>5, <2>2 DEF TargetUri
  <2>5. t1 = t2
    BY <2>3, <2>4, SameFirstCharacter
  <2>6. a1 \o p1 = a2 \o p2
    BY <2>2, <2>5
  <2>7. QED BY <1>3, <2>1, <2>6, SplitsAtMark
<1>6. QED BY <1>2, <1>4, <1>5
-----------------------------------------------------------------------------
(* What the crate computes is printable.                                   *)
AnyComputed == [ComputedFields -> Values]

LEMMA ComputedValues ==
  \A c \in AnyComputed :
    /\ c.digest \in Values /\ c.service_id \in Values
    /\ c.instance_id \in Values /\ c.request_id \in Values
    /\ c.parameters \in Values
BY DEF AnyComputed, ComputedFields

LEMMA LineNamesPrintable ==
  /\ "@method" \in PRINTABLE /\ "@target-uri" \in PRINTABLE
  /\ "content-digest" \in PRINTABLE /\ "content-type" \in PRINTABLE
  /\ "infernal-service-id" \in PRINTABLE
  /\ "infernal-instance-id" \in PRINTABLE
  /\ "infernal-request-id" \in PRINTABLE
  /\ "@signature-params" \in PRINTABLE
BY RequestTextAssumption DEF LineNames

LEMMA LastLine ==
  \A p1, p2 \in Values :
    /\ <<"@signature-params">> \o p1 \in Texts
    /\ <<"@signature-params">> \o p1 = <<"@signature-params">> \o p2
         => p1 = p2
<1> SUFFICES ASSUME NEW p1 \in Values, NEW p2 \in Values
             PROVE  /\ <<"@signature-params">> \o p1 \in Texts
                    /\ <<"@signature-params">> \o p1 =
                         <<"@signature-params">> \o p2 => p1 = p2
  OBVIOUS
<1>1. PICK c : c = "@signature-params"
  OBVIOUS
<1>2. c \in CHARACTERS /\ p1 \in Texts /\ p2 \in Texts
  BY <1>1, LineNamesPrintable, CharacterAssumption, ValueWithoutBreak
<1>3. <<c>> \in Seq(CHARACTERS)
  BY <1>2, OneCharacter
<1>4. <<c>> \o p1 \in Texts
  BY <1>2, <1>3, ConcatProperties DEF Texts
<1>5. QED BY <1>1, <1>2, <1>4, SameFirstCharacter

(* The eight lines, one after the other.                                   *)
LEMMA BaseDetermines ==
  ASSUME NEW h \in AnyHead, NEW g \in AnyHead,
         NEW c \in AnyComputed, NEW d \in AnyComputed,
         RequestParts(h).ok, RequestParts(g).ok,
         SignatureBase(h, c) = SignatureBase(g, d)
  PROVE  h = g /\ c = d
<1> DEFINE B8(y) == <<"@signature-params">> \o y.parameters
           B7(y) == Line("infernal-request-id", y.request_id, B8(y))
           B6(y) == Line("infernal-instance-id", y.instance_id, B7(y))
           B5(y) == Line("infernal-service-id", y.service_id, B6(y))
           B4(x, y) == Line("content-type", x.content_type, B5(y))
           B3(x, y) == Line("content-digest", y.digest, B4(x, y))
           B2(x, y) == Line("@target-uri", TargetUri(x), B3(x, y))
           B1(x, y) == Line("@method", x.method, B2(x, y))
<1>1. B1(h, c) = B1(g, d)
  BY DEF SignatureBase
<1>2. /\ h.method \in Values /\ h.content_type \in Values
      /\ TargetUri(h) \in Values
      /\ g.method \in Values /\ g.content_type \in Values
      /\ TargetUri(g) \in Values
  BY AdmittedHead, TargetDetermines
<1>3. B8(c) \in Texts /\ B8(d) \in Texts
  BY ComputedValues, LastLine
<1> HIDE DEF B8
<1>4. B7(c) \in Texts /\ B7(d) \in Texts
  BY <1>3, ComputedValues, LineNamesPrintable, LineIsText
<1> HIDE DEF B7
<1>5. B6(c) \in Texts /\ B6(d) \in Texts
  BY <1>4, ComputedValues, LineNamesPrintable, LineIsText
<1> HIDE DEF B6
<1>6. B5(c) \in Texts /\ B5(d) \in Texts
  BY <1>5, ComputedValues, LineNamesPrintable, LineIsText
<1> HIDE DEF B5
<1>7. B4(h, c) \in Texts /\ B4(g, d) \in Texts
  BY <1>2, <1>6, LineNamesPrintable, LineIsText
<1> HIDE DEF B4
<1>8. B3(h, c) \in Texts /\ B3(g, d) \in Texts
  BY <1>7, ComputedValues, LineNamesPrintable, LineIsText
<1> HIDE DEF B3
<1>9. B2(h, c) \in Texts /\ B2(g, d) \in Texts
  BY <1>2, <1>8, LineNamesPrintable, LineIsText
<1> HIDE DEF B2
<1>10. h.method = g.method /\ B2(h, c) = B2(g, d)
  BY <1>1, <1>2, <1>9, LineNamesPrintable, LineDetermines DEF B1
<1>11. TargetUri(h) = TargetUri(g) /\ B3(h, c) = B3(g, d)
  BY <1>2, <1>8, <1>10, LineNamesPrintable, LineDetermines DEF B2
<1>12. c.digest = d.digest /\ B4(h, c) = B4(g, d)
  BY <1>7, <1>11, ComputedValues, LineNamesPrintable, LineDetermines DEF B3
<1>13. h.content_type = g.content_type /\ B5(c) = B5(d)
  BY <1>2, <1>6, <1>12, LineNamesPrintable, LineDetermines DEF B4
<1>14. c.service_id = d.service_id /\ B6(c) = B6(d)
  BY <1>5, <1>13, ComputedValues, LineNamesPrintable, LineDetermines DEF B5
<1>15. c.instance_id = d.instance_id /\ B7(c) = B7(d)
  BY <1>4, <1>14, ComputedValues, LineNamesPrintable, LineDetermines DEF B6
<1>16. c.request_id = d.request_id /\ B8(c) = B8(d)
  BY <1>3, <1>15, ComputedValues, LineNamesPrintable, LineDetermines DEF B7
<1>17. c.parameters = d.parameters
  BY <1>16, ComputedValues, LastLine DEF B8
<1>18. h.authority = g.authority /\ h.path_and_query = g.path_and_query
  BY <1>11, TargetDetermines
<1>19. h = g
  BY <1>10, <1>13, <1>18 DEF AnyHead
<1>20. c = d
  BY <1>12, <1>14, <1>15, <1>16, <1>17 DEF AnyComputed, ComputedFields
<1>21. QED BY <1>19, <1>20

-----------------------------------------------------------------------------
LEMMA LeastExists ==
  \A T \in SUBSET Nat : T # {} => \E i \in T : \A j \in T : i <= j
<1> SUFFICES ASSUME NEW T \in SUBSET Nat, T # {}
             PROVE  \E i \in T : \A j \in T : i <= j
  OBVIOUS
<1>1. \E i \in T : \A j \in T : ~(<<j, i>> \in OpToRel(<, Nat))
  BY NatLessThanWellFounded, WFMin
<1>2. \A i, j \in T : ~(<<j, i>> \in OpToRel(<, Nat)) => i <= j
  BY DEF OpToRel
<1>3. QED BY <1>1, <1>2

LEMMA GreatestExists ==
  \A n \in Nat : \A T \in SUBSET (1 .. n) :
    T # {} => \E i \in T : \A j \in T : j <= i
<1> SUFFICES ASSUME NEW n \in Nat, NEW T \in SUBSET (1 .. n), T # {}
             PROVE  \E i \in T : \A j \in T : j <= i
  OBVIOUS
<1> DEFINE U == {n - i : i \in T}
<1>1. U \in SUBSET Nat /\ U # {}
  <2>1. \A i \in T : n - i \in Nat
    OBVIOUS
  <2>2. QED BY <2>1
<1>2. PICK k \in U : \A l \in U : k <= l
  BY <1>1, LeastExists
<1>3. PICK i \in T : k = n - i
  OBVIOUS
<1>4. \A j \in T : n - i <= n - j
  BY <1>2, <1>3
<1>5. \A j \in T : j <= i
  BY <1>4
<1>6. QED BY <1>5

(* HTTP hands over a head of texts, and an admitted one unchanged.         *)
LEMMA HttpKeepsAdmitted ==
  \A h \in AnyHead :
    /\ OverHttp(h) \in AnyHead
    /\ RequestParts(h).ok => OverHttp(h) = h
<1> SUFFICES ASSUME NEW h \in AnyHead
             PROVE  /\ OverHttp(h) \in AnyHead
                    /\ RequestParts(h).ok => OverHttp(h) = h
  OBVIOUS
<1> DEFINE text == h.content_type
           kept == {i \in 1 .. Len(text) : text[i] # SPACE}
           first == CHOOSE i \in kept : \A j \in kept : i <= j
           last  == CHOOSE i \in kept : \A j \in kept : j <= i
           new == IF kept = {} THEN << >> ELSE SubSeq(text, first, last)
<1>1. OverHttp(h) = [h EXCEPT !.content_type = new]
  BY DEF OverHttp
<1>2. text \in Seq(CHARACTERS) /\ Len(text) \in Nat
  BY LenProperties DEF AnyHead, Texts
<1>3. ASSUME kept # {}
      PROVE  /\ first \in kept /\ \A j \in kept : first <= j
             /\ last \in kept /\ \A j \in kept : j <= last
  <2>1. kept \in SUBSET Nat /\ kept \in SUBSET (1 .. Len(text))
    BY <1>2
  <2>2. \E i \in kept : \A j \in kept : i <= j
    BY <1>3, <2>1, LeastExists
  <2>3. \E i \in kept : \A j \in kept : j <= i
    BY <1>2, <1>3, <2>1, GreatestExists
  <2>4. QED BY <2>2, <2>3
<1>4. new \in Texts
  <2>1. CASE kept = {}
    BY <2>1, EmptySeq DEF Texts
  <2>2. CASE kept # {}
    <3>1. first \in 1 .. Len(text) /\ last \in 1 .. Len(text)
      BY <1>3, <2>2
    <3>2. \A i \in first .. last : text[i] \in CHARACTERS
      BY <1>2, <3>1, LenProperties
    <3>3. SubSeq(text, first, last) \in Seq(CHARACTERS)
      <4>1. first \in Int /\ last \in Int
        BY <3>1
      <4>2. QED BY <3>2, <4>1, SubSeqProperties
    <3>4. QED BY <2>2, <3>3 DEF Texts
  <2>3. QED BY <2>1, <2>2
<1>5. ASSUME RequestParts(h).ok PROVE new = text
  <2>1. text # << >> /\ IsTrimmed(text)
    BY <1>5, AdmittedHead
  <2>2. Len(text) \in Nat \ {0}
    BY <1>2, <2>1, EmptySeq
  <2>3. 1 \in kept /\ Len(text) \in kept
    <3>1. text[1] # SPACE /\ text[Len(text)] # SPACE
      BY <2>1 DEF IsTrimmed
    <3>2. 1 \in 1 .. Len(text) /\ Len(text) \in 1 .. Len(text)
      BY <2>2
    <3>3. QED BY <3>1, <3>2
  <2>4. first = 1 /\ last = Len(text)
    BY <1>2, <1>3, <2>3
  <2>5. QED BY <1>2, <2>3, <2>4, SubSeqFull
<1> HIDE DEF new
<1>6. OverHttp(h) \in AnyHead
  BY <1>1, <1>4 DEF AnyHead
<1>7. RequestParts(h).ok => OverHttp(h) = h
  BY <1>1, <1>5 DEF AnyHead
<1>8. QED BY <1>6, <1>7

-----------------------------------------------------------------------------
(* A base is one of an admitted request, and a verdict is the comparison   *)
(* of two bases.                                                           *)
Compared ==
  /\ head \in HEADS /\ computed \in COMPUTED
  /\ base # NOT_YET =>
       (base.ok => /\ RequestParts(head).ok
                     /\ base.value = SignatureBase(head, computed))
  /\ received # NOT_YET =>
       /\ base # NOT_YET /\ base.ok
       /\ \E h \in HEADS, c \in COMPUTED :
            received = [head |-> OverHttp(h), computed |-> c]
  /\ request_verified # NOT_YET =>
       /\ received # NOT_YET
       /\ request_verified.value <=>
            /\ RequestParts(received.head).ok
            /\ SignatureBase(received.head, received.computed) = base.value

LEMMA Inputs == HEADS \subseteq AnyHead /\ COMPUTED \subseteq AnyComputed
BY RequestTextAssumption DEF AnyHead, AnyComputed, Texts, Values

LEMMA ComparedAlways == RequestSpec => []Compared
<1>1. RequestInit => Compared
  BY DEF RequestInit, Compared
<1>2. Compared /\ [RequestNext]_request_vars => Compared'
  <2> SUFFICES ASSUME Compared, [RequestNext]_request_vars PROVE Compared'
    OBVIOUS
  <2>1. CASE SignRequest
    <3>1. base = NOT_YET /\ received = NOT_YET /\ request_verified = NOT_YET
      BY <2>1 DEF SignRequest, Compared
    <3>2. base'.ok => /\ RequestParts(head).ok
                        /\ base'.value = SignatureBase(head, computed)
      BY <2>1 DEF SignRequest, Ok
    <3>3. UNCHANGED <<head, computed, received, request_verified>>
      BY <2>1 DEF SignRequest
    <3>4. QED BY <3>1, <3>2, <3>3 DEF Compared
  <2>2. CASE ReceiveRequest
    BY <2>2 DEF ReceiveRequest, Compared
  <2>3. CASE VerifyRequest
    BY <2>3 DEF VerifyRequest, Compared, Ok
  <2>4. CASE UNCHANGED request_vars
    BY <2>4 DEF request_vars, Compared
  <2>5. QED BY <2>1, <2>2, <2>3, <2>4 DEF RequestNext
<1>3. QED BY <1>1, <1>2, PTL DEF RequestSpec

(* A signature verifies for the request it was made for and for no other.  *)
THEOREM OnlyItsOwn == RequestSpec => []OnlyItsOwnVerifies
<1>1. Compared => OnlyItsOwnVerifies
  <2> SUFFICES ASSUME Compared,
                      request_verified # NOT_YET, request_verified.value
               PROVE  received = [head |-> head, computed |-> computed]
    BY DEF OnlyItsOwnVerifies
  <2>1. /\ head \in AnyHead /\ computed \in AnyComputed
        /\ RequestParts(head).ok
        /\ base.value = SignatureBase(head, computed)
    BY Inputs DEF Compared
  <2>2. PICK h \in HEADS, c \in COMPUTED :
          received = [head |-> OverHttp(h), computed |-> c]
    BY DEF Compared
  <2>3. /\ OverHttp(h) \in AnyHead /\ c \in AnyComputed
    BY Inputs, HttpKeepsAdmitted
  <2>4. /\ RequestParts(OverHttp(h)).ok
        /\ SignatureBase(OverHttp(h), c) = SignatureBase(head, computed)
    BY <2>1, <2>2 DEF Compared
  <2>5. OverHttp(h) = head /\ c = computed
    BY <2>1, <2>3, <2>4, BaseDetermines
  <2>6. QED BY <2>2, <2>5
<1>2. QED BY <1>1, ComparedAlways, PTL

(* A signature verifies for the request it was made for, after HTTP.       *)
THEOREM ItsOwn == RequestSpec => []ItsOwnVerifies
<1>1. Compared => ItsOwnVerifies
  <2> SUFFICES ASSUME Compared, request_verified # NOT_YET,
                      received = [head |-> OverHttp(head), computed |-> computed]
               PROVE  request_verified.value
    BY DEF ItsOwnVerifies
  <2>1. /\ head \in AnyHead /\ RequestParts(head).ok
        /\ base.value = SignatureBase(head, computed)
    BY Inputs DEF Compared
  <2>2. OverHttp(head) = head
    BY <2>1, HttpKeepsAdmitted
  <2>3. received.head = head /\ received.computed = computed
    BY <2>2
  <2>4. QED BY <2>1, <2>3 DEF Compared
<1>2. QED BY <1>1, ComparedAlways, PTL

-----------------------------------------------------------------------------
(* The message of an enrollment proof.                                     *)

LEMMA ModSmall ==
  ASSUME NEW a \in Nat, NEW b \in Nat, a < b
  PROVE  a % b = a
OBVIOUS

LEMMA OneByte ==
  ASSUME NEW a \in Nat
  PROVE  <<a>> \in Seq(Nat) /\ Len(<<a>>) = 1 /\ <<a>>[1] = a
OBVIOUS

LEMMA NoBytes == << >> \in Seq(Nat)
OBVIOUS

LEMMA LengthIsSmall ==
  ASSUME NEW f \in Bytes
  PROVE  /\ f \in Seq(Nat)
         /\ Len(f) \in Nat
         /\ Len(f) % LENGTH_SPAN = Len(f)
<1>1. f \in Seq(Nat) /\ Len(f) < LENGTH_SPAN
  BY DEF Bytes
<1>2. Len(f) \in Nat
  BY <1>1, LenProperties
<1>3. LENGTH_SPAN \in Nat
  BY ProofTextAssumption
<1>4. QED BY <1>1, <1>2, <1>3, ModSmall

(* Two texts of the same length with something after them are the same if  *)
(* the whole is, and so is what comes after.                               *)
LEMMA SameLengthBytes ==
  \A s1, s2, t1, t2 \in Seq(Nat) :
    Len(s1) = Len(s2) /\ s1 \o t1 = s2 \o t2 => s1 = s2 /\ t1 = t2
<1> SUFFICES ASSUME NEW s1 \in Seq(Nat), NEW s2 \in Seq(Nat),
                    NEW t1 \in Seq(Nat), NEW t2 \in Seq(Nat),
                    Len(s1) = Len(s2), s1 \o t1 = s2 \o t2
             PROVE  s1 = s2 /\ t1 = t2
  OBVIOUS
<1>1. \A i \in 1 .. Len(s1) : s1[i] = s2[i]
  <2>1. TAKE i \in 1 .. Len(s1)
  <2>2. (s1 \o t1)[i] = s1[i] /\ (s2 \o t2)[i] = s2[i]
    BY LenProperties, ConcatProperties
  <2>3. QED BY <2>2
<1>2. s1 = s2
  BY <1>1, SeqEqual
<1>3. QED BY <1>2, ConcatSimplifications

LEMMA OneByteSplits ==
  \A a, b \in Nat, t1, t2 \in Seq(Nat) :
    <<a>> \o t1 = <<b>> \o t2 => a = b /\ t1 = t2
<1> SUFFICES ASSUME NEW a \in Nat, NEW b \in Nat,
                    NEW t1 \in Seq(Nat), NEW t2 \in Seq(Nat),
                    <<a>> \o t1 = <<b>> \o t2
             PROVE  a = b /\ t1 = t2
  OBVIOUS
<1>1. PICK h1 : h1 = <<a>>
  OBVIOUS
<1>2. PICK h2 : h2 = <<b>>
  OBVIOUS
<1>3. /\ h1 \in Seq(Nat) /\ Len(h1) = 1 /\ h1[1] = a
      /\ h2 \in Seq(Nat) /\ Len(h2) = 1 /\ h2[1] = b
  BY <1>1, <1>2, OneByte
<1>4. Len(h1) = Len(h2)
  BY <1>3
<1>5. h1 \o t1 = h2 \o t2
  BY <1>1, <1>2
<1>6. h1 = h2 /\ t1 = t2
  BY <1>3, <1>4, <1>5, SameLengthBytes
<1>7. QED BY <1>3, <1>6

LEMMA FieldIsText ==
  ASSUME NEW f \in Bytes, NEW r \in Seq(Nat)
  PROVE  Field(f, r) \in Seq(Nat)
<1>1. <<Len(f) % LENGTH_SPAN>> \in Seq(Nat)
  BY LengthIsSmall, OneByte
<1>2. f \o r \in Seq(Nat)
  BY LengthIsSmall, ConcatProperties
<1>3. QED BY <1>1, <1>2, ConcatProperties DEF Field

(* A field of any admissible length and what follows it can be told apart. *)
LEMMA FieldSplits ==
  ASSUME NEW f \in Bytes, NEW g \in Bytes,
         NEW r \in Seq(Nat), NEW s \in Seq(Nat),
         Field(f, r) = Field(g, s)
  PROVE  f = g /\ r = s
<1>1. f \in Seq(Nat) /\ Len(f) \in Nat /\ Len(f) % LENGTH_SPAN = Len(f)
  BY LengthIsSmall
<1>2. g \in Seq(Nat) /\ Len(g) \in Nat /\ Len(g) % LENGTH_SPAN = Len(g)
  BY LengthIsSmall
<1>3. <<Len(f)>> \o (f \o r) = <<Len(g)>> \o (g \o s)
  BY <1>1, <1>2 DEF Field
<1>4. f \o r \in Seq(Nat) /\ g \o s \in Seq(Nat)
  BY <1>1, <1>2, ConcatProperties
<1>5. Len(f) = Len(g) /\ f \o r = g \o s
  <2>1. PICK a, b, t1, t2 :
          a = Len(f) /\ b = Len(g) /\ t1 = f \o r /\ t2 = g \o s
    OBVIOUS
  <2>2. /\ a \in Nat /\ b \in Nat /\ t1 \in Seq(Nat) /\ t2 \in Seq(Nat)
        /\ <<a>> \o t1 = <<b>> \o t2
    BY <1>1, <1>2, <1>3, <1>4, <2>1
  <2>3. a = b /\ t1 = t2
    BY <2>2, OneByteSplits
  <2>4. QED BY <2>1, <2>3
<1>6. QED BY <1>1, <1>2, <1>5, SameLengthBytes

(* The nine fields, one after the other.                                   *)
LEMMA MessageDetermines ==
  ASSUME NEW f \in FIELDS, NEW g \in FIELDS,
         ProofMessage(f) = ProofMessage(g)
  PROVE  f = g
<1> DEFINE F9(x) == Field(x.token_digest, << >>)
           F8(x) == Field(x.pod_uid, F9(x))
           F7(x) == Field(x.endpoint, F8(x))
           F6(x) == Field(x.public_key, F7(x))
           F5(x) == Field(x.key_id, F6(x))
           F4(x) == Field(x.instance_id, F5(x))
           F3(x) == Field(x.service_id, F4(x))
           F2(x) == Field(x.challenge, F3(x))
           F1(x) == Field(x.context, F2(x))
<1>1. \A x \in FIELDS :
        /\ x.context \in Bytes /\ x.challenge \in Bytes
        /\ x.service_id \in Bytes /\ x.instance_id \in Bytes
        /\ x.key_id \in Bytes /\ x.public_key \in Bytes
        /\ x.endpoint \in Bytes /\ x.pod_uid \in Bytes
        /\ x.token_digest \in Bytes
  BY ProofTextAssumption DEF Fields
<1>2. \A x \in FIELDS :
        /\ F9(x) \in Seq(Nat) /\ F8(x) \in Seq(Nat) /\ F7(x) \in Seq(Nat)
        /\ F6(x) \in Seq(Nat) /\ F5(x) \in Seq(Nat) /\ F4(x) \in Seq(Nat)
        /\ F3(x) \in Seq(Nat) /\ F2(x) \in Seq(Nat)
  BY <1>1, FieldIsText, NoBytes
<1>3. F1(f) = F1(g)
  BY DEF ProofMessage
<1> HIDE DEF F1, F2, F3, F4, F5, F6, F7, F8, F9
<1>4. f.context = g.context /\ F2(f) = F2(g)
  BY <1>1, <1>2, <1>3, FieldSplits DEF F1
<1>5. f.challenge = g.challenge /\ F3(f) = F3(g)
  BY <1>1, <1>2, <1>4, FieldSplits DEF F2
<1>6. f.service_id = g.service_id /\ F4(f) = F4(g)
  BY <1>1, <1>2, <1>5, FieldSplits DEF F3
<1>7. f.instance_id = g.instance_id /\ F5(f) = F5(g)
  BY <1>1, <1>2, <1>6, FieldSplits DEF F4
<1>8. f.key_id = g.key_id /\ F6(f) = F6(g)
  BY <1>1, <1>2, <1>7, FieldSplits DEF F5
<1>9. f.public_key = g.public_key /\ F7(f) = F7(g)
  BY <1>1, <1>2, <1>8, FieldSplits DEF F6
<1>10. f.endpoint = g.endpoint /\ F8(f) = F8(g)
  BY <1>1, <1>2, <1>9, FieldSplits DEF F7
<1>11. f.pod_uid = g.pod_uid /\ F9(f) = F9(g)
  BY <1>1, <1>2, <1>10, FieldSplits DEF F8
<1>12. f.token_digest = g.token_digest
  BY <1>1, <1>11, NoBytes, FieldSplits DEF F9
<1>13. f \in Fields /\ g \in Fields
  BY ProofTextAssumption
<1>14. QED
  BY <1>4, <1>5, <1>6, <1>7, <1>8, <1>9, <1>10, <1>11, <1>12, <1>13
  DEF Fields

-----------------------------------------------------------------------------
(* The signed fields come from FIELDS, and a verdict is the comparison of  *)
(* the two messages.                                                       *)
ProofCompared ==
  /\ proof_signed \in FIELDS
  /\ proof_received # NO_PROOF_YET => proof_received.fields \in FIELDS
  /\ proof_verified # NO_PROOF_YET =>
       /\ proof_received # NO_PROOF_YET
       /\ proof_verified.ok =>
            ProofMessage(proof_received.fields) = ProofMessage(proof_signed)

(* A proof verifies for the fields it was signed for and for no others,    *)
(* whatever their lengths.                                                 *)
THEOREM ProofsDetermineTheirFields == ProofSpec => []ProofDetermines
<1>1. ProofInit => ProofCompared
  BY DEF ProofInit, ProofCompared
<1>2. ProofCompared /\ [ProofNext]_proof_vars => ProofCompared'
  <2> SUFFICES ASSUME ProofCompared, [ProofNext]_proof_vars PROVE ProofCompared'
    OBVIOUS
  <2>1. CASE ReceiveProof
    BY <2>1 DEF ReceiveProof, ProofCompared
  <2>2. CASE VerifyProof
    BY <2>2 DEF VerifyProof, ProofCompared
  <2>3. CASE UNCHANGED proof_vars
    BY <2>3 DEF proof_vars, ProofCompared
  <2>4. QED BY <2>1, <2>2, <2>3 DEF ProofNext
<1>3. ProofCompared => ProofDetermines
  BY MessageDetermines DEF ProofCompared, ProofDetermines
<1>4. QED BY <1>1, <1>2, <1>3, PTL DEF ProofSpec
=============================================================================
