-------------------------- MODULE InputTextProofs --------------------------
(***************************************************************************)
(* That parse_signature_input reads back what signature_parameters wrote,  *)
(* and accepts nothing but texts of that form, for values of every length. *)
(***************************************************************************)
EXTENDS InputText, SequenceTheorems, WellFoundedInduction, TLAPS

Texts == Seq(CHARACTERS)

Without(a, c) == \A i \in 1 .. Len(a) : a[i] # c

LEMMA OneCharacter ==
  ASSUME NEW c \in CHARACTERS
  PROVE  <<c>> \in Texts /\ Len(<<c>>) = 1 /\ <<c>>[1] = c
BY DEF Texts

LEMMA PartIsText ==
  \A w \in Texts : \A m, n \in Nat :
    1 <= m /\ n <= Len(w) => SubSeq(w, m, n) \in Texts
<1> SUFFICES ASSUME NEW w \in Texts, NEW m \in Nat, NEW n \in Nat,
                    1 <= m, n <= Len(w)
             PROVE  SubSeq(w, m, n) \in Texts
  OBVIOUS
<1>1. \A i \in m .. n : w[i] \in CHARACTERS
  BY LenProperties DEF Texts
<1>2. m \in Int /\ n \in Int
  OBVIOUS
<1>3. QED BY <1>1, <1>2, SubSeqProperties DEF Texts

LEMMA CutAfter ==
  \A w \in Texts : \A n \in 0 .. Len(w) :
    /\ SubSeq(w, 1, n) \in Texts /\ Len(SubSeq(w, 1, n)) = n
    /\ SubSeq(w, n + 1, Len(w)) \in Texts
    /\ w = SubSeq(w, 1, n) \o SubSeq(w, n + 1, Len(w))
<1> SUFFICES ASSUME NEW w \in Texts, NEW n \in 0 .. Len(w)
             PROVE  /\ SubSeq(w, 1, n) \in Texts /\ Len(SubSeq(w, 1, n)) = n
                    /\ SubSeq(w, n + 1, Len(w)) \in Texts
                    /\ w = SubSeq(w, 1, n) \o SubSeq(w, n + 1, Len(w))
  OBVIOUS
<1>1. Len(w) \in Nat /\ w \in Seq(CHARACTERS)
  BY LenProperties DEF Texts
<1>2. SubSeq(w, 1, n) \in Texts /\ SubSeq(w, n + 1, Len(w)) \in Texts
  BY <1>1, PartIsText
<1>3. Len(SubSeq(w, 1, n)) = n
  <2>1. \A i \in 1 .. n : w[i] \in CHARACTERS
    BY <1>1, LenProperties
  <2>2. 1 \in Int /\ n \in Int /\ n >= 0
    BY <1>1
  <2>3. Len(SubSeq(w, 1, n)) = IF 1 <= n THEN n - 1 + 1 ELSE 0
    BY <2>1, <2>2, SubSeqProperties
  <2>4. QED BY <2>2, <2>3
<1>4. SubSeq(w, 1, n) \o SubSeq(w, n + 1, Len(w)) = SubSeq(w, 1, Len(w))
  <2>1. /\ 1 \in 1 .. Len(w) + 1 /\ n \in 1 - 1 .. Len(w)
        /\ Len(w) \in n .. Len(w)
    BY <1>1
  <2>2. QED BY <1>1, <2>1, ConcatAdjacentSubSeq
<1>5. QED BY <1>1, <1>2, <1>3, <1>4, SubSeqFull

(* What is before a place in a text, what is there, and what is after it.  *)
LEMMA CutAt ==
  \A w \in Texts : \A i \in 1 .. Len(w) :
    /\ Before(w, i) \in Texts /\ After(w, i) \in Texts
    /\ Len(Before(w, i)) = i - 1
    /\ w = Before(w, i) \o (<<w[i]>> \o After(w, i))
<1> SUFFICES ASSUME NEW w \in Texts, NEW i \in 1 .. Len(w)
             PROVE  /\ Before(w, i) \in Texts /\ After(w, i) \in Texts
                    /\ Len(Before(w, i)) = i - 1
                    /\ w = Before(w, i) \o (<<w[i]>> \o After(w, i))
  OBVIOUS
<1>1. Len(w) \in Nat /\ w \in Seq(CHARACTERS)
  BY LenProperties DEF Texts
<1>2. i \in 0 .. Len(w) /\ i - 1 \in 0 .. Len(w) /\ (i - 1) + 1 = i
  BY <1>1
<1>3. /\ Before(w, i) \in Texts /\ Len(Before(w, i)) = i - 1
      /\ w = Before(w, i) \o SubSeq(w, i, Len(w))
  <2>1. /\ SubSeq(w, 1, i - 1) \in Texts /\ Len(SubSeq(w, 1, i - 1)) = i - 1
        /\ w = SubSeq(w, 1, i - 1) \o SubSeq(w, (i - 1) + 1, Len(w))
    BY <1>2, CutAfter
  <2>2. QED BY <1>2, <2>1 DEF Before
<1>4. After(w, i) \in Texts
  BY <1>2, CutAfter DEF After
<1>5. SubSeq(w, i, Len(w)) = <<w[i]>> \o After(w, i)
  <2>1. Len(w) \in i .. Len(w)
    BY <1>1
  <2>2. QED BY <1>1, <2>1, SubSeqRecursiveFirst DEF After
<1>6. QED BY <1>3, <1>4, <1>5

-----------------------------------------------------------------------------
LEMMA LeastExists ==
  \A T \in SUBSET Nat : T # {} => \E i \in T : \A j \in T : i <= j
<1> SUFFICES ASSUME NEW T \in SUBSET Nat, T # {}
             PROVE  \E i \in T : \A j \in T : i <= j
  OBVIOUS
<1>1. \E i \in T : \A j \in T : ~(<<j, i>> \in OpToRel(<, Nat))
  BY NatLessThanWellFounded, WFMin
<1>2. \A i, j \in T : ~(<<j, i>> \in OpToRel(<, Nat)) => i <= j
  BY DEF OpToRel
<1>3. QED BY <1>1, <1>2

(* find returns the first place, if the character is there at all.         *)
LEMMA FindIsFirst ==
  \A w \in Texts : \A c :
    /\ Find(w, c) # 0 => Find(w, c) \in 1 .. Len(w) /\ w[Find(w, c)] = c
    /\ \A i \in 1 .. Len(w) :
         w[i] = c => Find(w, c) # 0 /\ Find(w, c) <= i
<1> SUFFICES ASSUME NEW w \in Texts, NEW c
             PROVE  /\ Find(w, c) # 0 =>
                         Find(w, c) \in 1 .. Len(w) /\ w[Find(w, c)] = c
                    /\ \A i \in 1 .. Len(w) :
                         w[i] = c => Find(w, c) # 0 /\ Find(w, c) <= i
  OBVIOUS
<1> DEFINE at == {i \in 1 .. Len(w) : w[i] = c}
           least == CHOOSE i \in at : \A j \in at : i <= j
<1>1. Find(w, c) = IF at = {} THEN 0 ELSE least
  BY DEF Find
<1>2. ASSUME at # {}
      PROVE  least \in at /\ \A j \in at : least <= j
  <2>1. at \in SUBSET Nat
    BY LenProperties DEF Texts
  <2>2. \E i \in at : \A j \in at : i <= j
    BY <1>2, <2>1, LeastExists
  <2>3. QED BY <2>2
<1>3. \A i \in at : i \in 1 .. Len(w) /\ w[i] = c /\ i # 0
  BY LenProperties DEF Texts
<1>4. \A i \in 1 .. Len(w) : w[i] = c => i \in at
  OBVIOUS
<1> HIDE DEF at, least
<1>5. CASE at = {}
  BY <1>1, <1>4, <1>5
<1>6. CASE at # {}
  BY <1>1, <1>2, <1>3, <1>4, <1>6
<1>7. QED BY <1>5, <1>6

(* A text in which a separator is found is cut there in two.               *)
LEMMA SplitOnce ==
  \A w \in Texts : \A c :
    Find(w, c) # 0 =>
      /\ Before(w, Find(w, c)) \in Texts /\ After(w, Find(w, c)) \in Texts
      /\ w = Before(w, Find(w, c)) \o (<<c>> \o After(w, Find(w, c)))
BY FindIsFirst, CutAt

LEMMA SameLengthSplits ==
  \A s1, s2, t1, t2 \in Texts :
    Len(s1) = Len(s2) /\ s1 \o t1 = s2 \o t2 => s1 = s2 /\ t1 = t2
<1> SUFFICES ASSUME NEW s1 \in Texts, NEW s2 \in Texts,
                    NEW t1 \in Texts, NEW t2 \in Texts,
                    Len(s1) = Len(s2), s1 \o t1 = s2 \o t2
             PROVE  s1 = s2 /\ t1 = t2
  OBVIOUS
<1> USE DEF Texts
<1>1. \A i \in 1 .. Len(s1) : s1[i] = s2[i]
  <2>1. TAKE i \in 1 .. Len(s1)
  <2>2. (s1 \o t1)[i] = s1[i] /\ (s2 \o t2)[i] = s2[i]
    BY LenProperties, ConcatProperties
  <2>3. QED BY <2>2
<1>2. s1 = s2
  BY <1>1, SeqEqual
<1>3. QED BY <1>2, ConcatSimplifications

LEMMA Prepended ==
  \A c \in CHARACTERS : \A r \in Texts :
    /\ <<c>> \o r \in Texts
    /\ Len(<<c>> \o r) = 1 + Len(r)
    /\ (<<c>> \o r)[1] = c
<1> SUFFICES ASSUME NEW c \in CHARACTERS, NEW r \in Texts
             PROVE  /\ <<c>> \o r \in Texts
                    /\ Len(<<c>> \o r) = 1 + Len(r)
                    /\ (<<c>> \o r)[1] = c
  OBVIOUS
<1>1. <<c>> \in Texts /\ Len(<<c>>) = 1 /\ <<c>>[1] = c /\ Len(r) \in Nat
  BY OneCharacter, LenProperties DEF Texts
<1>2. QED BY <1>1, ConcatProperties DEF Texts

(* A separator that a value does not hold is found right after it.         *)
LEMMA FindsSeparator ==
  \A w : \A c \in CHARACTERS : \A a, r \in Texts :
    w = a \o (<<c>> \o r) /\ Without(a, c) =>
      /\ w \in Texts
      /\ Find(w, c) # 0
      /\ Before(w, Find(w, c)) = a
      /\ After(w, Find(w, c)) = r
<1> SUFFICES ASSUME NEW w, NEW c \in CHARACTERS,
                    NEW a \in Texts, NEW r \in Texts,
                    w = a \o (<<c>> \o r), Without(a, c)
             PROVE  /\ w \in Texts
                    /\ Find(w, c) # 0
                    /\ Before(w, Find(w, c)) = a
                    /\ After(w, Find(w, c)) = r
  OBVIOUS
<1>1. PICK t : t = <<c>> \o r /\ w = a \o t
  OBVIOUS
<1>2. t \in Texts /\ Len(t) = 1 + Len(r) /\ t[1] = c
  BY <1>1, Prepended
<1>3. Len(a) \in Nat /\ Len(r) \in Nat
  BY LenProperties DEF Texts
<1>4. /\ w \in Texts /\ Len(w) = Len(a) + Len(t)
      /\ \A i \in 1 .. Len(a) + Len(t) :
           w[i] = IF i <= Len(a) THEN a[i] ELSE t[i - Len(a)]
  BY <1>1, <1>2, ConcatProperties DEF Texts
<1>5. Len(a) + 1 \in 1 .. Len(w) /\ w[Len(a) + 1] = c
  BY <1>2, <1>3, <1>4
<1>6. \A i \in 1 .. Len(w) : i <= Len(a) => w[i] # c
  <2> SUFFICES ASSUME NEW i \in 1 .. Len(w), i <= Len(a) PROVE w[i] # c
    OBVIOUS
  <2>1. w[i] = a[i] /\ i \in 1 .. Len(a)
    BY <1>2, <1>3, <1>4
  <2>2. QED BY <2>1 DEF Without
<1>7. PICK f : f = Find(w, c)
  OBVIOUS
<1>8. f # 0 /\ f <= Len(a) + 1 /\ f \in 1 .. Len(w) /\ w[f] = c
  BY <1>4, <1>5, <1>7, FindIsFirst
<1>9. f = Len(a) + 1
  BY <1>3, <1>6, <1>8
<1>10. PICK b, o, q : b = Before(w, f) /\ q = After(w, f) /\ o = <<c>> \o q
  OBVIOUS
<1>11. /\ b \in Texts /\ q \in Texts /\ Len(b) = Len(a)
       /\ w = b \o o
  <2>1. /\ Before(w, f) \in Texts /\ After(w, f) \in Texts
        /\ Len(Before(w, f)) = f - 1
        /\ w = Before(w, f) \o (<<w[f]>> \o After(w, f))
    BY <1>4, <1>8, CutAt
  <2>2. f - 1 = Len(a)
    BY <1>3, <1>9
  <2>3. b \in Texts /\ q \in Texts /\ Len(b) = Len(a)
    BY <1>10, <2>1, <2>2
  <2>4. w = b \o o
    BY <1>8, <1>10, <2>1
  <2>5. QED BY <2>3, <2>4
<1>12. o \in Texts
  BY <1>10, <1>11, Prepended
<1>13. b \o o = a \o t
  BY <1>1, <1>11
<1>14. b = a /\ o = t
  BY <1>2, <1>11, <1>12, <1>13, SameLengthSplits
<1>15. q = r
  <2>1. PICK h : h = <<c>>
    OBVIOUS
  <2>2. h \in Texts /\ h \o q = h \o r
    BY <1>1, <1>10, <1>14, <2>1, OneCharacter
  <2>3. QED BY <1>11, <2>2, SameLengthSplits
<1>16. QED BY <1>1, <1>4, <1>7, <1>8, <1>10, <1>14, <1>15
-----------------------------------------------------------------------------
LEMMA Fixed ==
  /\ ";expires=" \in CHARACTERS /\ ";nonce=" \in CHARACTERS
  /\ ";keyid=" \in CHARACTERS /\ ";alg=" \in CHARACTERS
  /\ "sig1=" \in CHARACTERS /\ "covered;created=" \in CHARACTERS
  /\ "ed25519" \in CHARACTERS
BY InputTextAssumption DEF Separators

(* A text that begins with a character is that character and the rest.     *)
LEMMA HeadTaken ==
  \A w \in Texts : \A c :
    StartsWith(w, c) => After(w, 1) \in Texts /\ w = <<c>> \o After(w, 1)
<1> SUFFICES ASSUME NEW w \in Texts, NEW c, StartsWith(w, c)
             PROVE  After(w, 1) \in Texts /\ w = <<c>> \o After(w, 1)
  OBVIOUS
<1>1. w # << >> /\ w[1] = c
  BY DEF StartsWith
<1>2. Len(w) \in Nat /\ Len(w) # 0
  BY <1>1, EmptySeq, LenProperties DEF Texts
<1>3. 1 \in 1 .. Len(w) /\ 1 - 1 = 0
  BY <1>2
<1>4. PICK b, r : b = Before(w, 1) /\ r = After(w, 1)
  OBVIOUS
<1>5. /\ b \in Texts /\ r \in Texts /\ Len(b) = 0
      /\ w = b \o (<<c>> \o r)
  BY <1>1, <1>3, <1>4, CutAt
<1>6. b = << >>
  BY <1>5, EmptySeq DEF Texts
<1>7. c \in CHARACTERS
  BY <1>1, <1>3, LenProperties DEF Texts
<1>8. PICK t : t = <<c>> \o r
  OBVIOUS
<1>9. t \in Texts
  BY <1>5, <1>7, <1>8, Prepended
<1>10. << >> \o t = t
  BY <1>9, ConcatEmptySeq DEF Texts
<1>11. QED BY <1>4, <1>5, <1>6, <1>8, <1>10

LEMMA HeadPut ==
  \A w : \A c \in CHARACTERS : \A r \in Texts :
    w = <<c>> \o r => w \in Texts /\ StartsWith(w, c) /\ After(w, 1) = r
<1> SUFFICES ASSUME NEW w, NEW c \in CHARACTERS, NEW r \in Texts,
                    w = <<c>> \o r
             PROVE  w \in Texts /\ StartsWith(w, c) /\ After(w, 1) = r
  OBVIOUS
<1>1. w \in Texts /\ Len(w) = 1 + Len(r) /\ w[1] = c /\ Len(r) \in Nat
  BY Prepended, LenProperties DEF Texts
<1>2. Len(w) # 0
  BY <1>1
<1>3. w # << >>
  BY <1>2, EmptySeq
<1>4. StartsWith(w, c)
  BY <1>1, <1>3 DEF StartsWith
<1>5. PICK h, q : h = <<c>> /\ q = After(w, 1)
  OBVIOUS
<1>6. h \in Texts /\ q \in Texts /\ h \o q = h \o r
  BY <1>1, <1>4, <1>5, HeadTaken, OneCharacter
<1>7. q = r
  BY <1>6, SameLengthSplits
<1>8. QED BY <1>1, <1>4, <1>5, <1>7

LEMMA EndIsText ==
  /\ <<"ed25519">> \in Texts
  /\ <<";alg=", "ed25519">> = <<";alg=">> \o <<"ed25519">>
<1>1. ASSUME NEW a \in CHARACTERS, NEW b \in CHARACTERS
      PROVE  <<a, b>> = <<a>> \o <<b>>
  <2>1. PICK p, q : p = <<a>> /\ q = <<b>>
    OBVIOUS
  <2>2. /\ p \in Seq(CHARACTERS) /\ Len(p) = 1 /\ p[1] = a
        /\ q \in Seq(CHARACTERS) /\ Len(q) = 1 /\ q[1] = b
    BY <2>1, OneCharacter DEF Texts
  <2>3. /\ p \o q \in Seq(CHARACTERS) /\ Len(p \o q) = 2
        /\ (p \o q)[1] = a /\ (p \o q)[2] = b
    BY <2>2, ConcatProperties
  <2>4. PICK r : r = <<a, b>>
    OBVIOUS
  <2>5. r \in Seq(CHARACTERS) /\ Len(r) = 2 /\ r[1] = a /\ r[2] = b
    BY <2>4
  <2>6. r = p \o q
    BY <2>3, <2>5, SeqEqual
  <2>7. QED BY <2>1, <2>4, <2>6
<1>2. QED BY <1>1, Fixed, OneCharacter

(* A text of letters, digits, - and _ holds none of the separators.        *)
LEMMA PlainText ==
  \A v \in Texts :
    Over(v, NonceCharacters) =>
      /\ Without(v, ";expires=") /\ Without(v, ";nonce=")
      /\ Without(v, ";keyid=") /\ Without(v, ";alg=")
<1>1. \A x \in NonceCharacters :
        x # ";expires=" /\ x # ";nonce=" /\ x # ";keyid=" /\ x # ";alg="
  BY InputTextAssumption DEF Separators, NonceCharacters
<1>2. QED BY <1>1 DEF Over, Without

LEMMA PlainValues ==
  /\ \A t \in TIMESTAMPS :
       t >= 0 => /\ Decimal(t) \in Texts
                 /\ Over(Decimal(t), NonceCharacters)
                 /\ ParseTimestamp(Decimal(t)) = Ok(t)
  /\ \A k \in KEY_IDS :
       Hyphenated(k) \in Texts /\ Over(Hyphenated(k), NonceCharacters)
  /\ \A n \in NONCES :
       n \in Texts /\ (ValidNonce(n) => Over(n, NonceCharacters))
<1>1. ASSUME NEW t \in TIMESTAMPS, t >= 0
      PROVE  /\ Decimal(t) \in Texts
             /\ Over(Decimal(t), NonceCharacters)
             /\ ParseTimestamp(Decimal(t)) = Ok(t)
  <2>1. PICK d : d = Decimal(t)
    OBVIOUS
  <2>2. d \in Seq(DIGITS) /\ d # << >> /\ Number(d) = t
    BY <1>1, <2>1, ConversionAssumption
  <2>3. \A i \in 1 .. Len(d) : d[i] \in DIGITS
    BY <2>2, LenProperties
  <2>4. DIGITS \subseteq NonceCharacters /\ DIGITS \subseteq CHARACTERS
    BY InputTextAssumption, CharacterAssumption DEF NonceCharacters
  <2>5. d \in Seq(CHARACTERS)
    BY <2>2, <2>4, SeqMonotonic
  <2>6. t \in 0 .. I64_MAX
    BY <1>1, RangeAssumption
  <2>7. Over(d, DIGITS) /\ Over(d, NonceCharacters)
    BY <2>3, <2>4 DEF Over
  <2>8. ParseTimestamp(d) = Ok(t)
    BY <2>2, <2>6, <2>7 DEF ParseTimestamp
  <2>9. QED BY <2>1, <2>5, <2>7, <2>8 DEF Texts
<1>2. ASSUME NEW k \in KEY_IDS
      PROVE  Hyphenated(k) \in Texts /\ Over(Hyphenated(k), NonceCharacters)
  <2>1. PICK d : d = Hyphenated(k)
    OBVIOUS
  <2>2. d \in Seq(ALPHANUMERIC \cup {"-"})
    BY <2>1, ConversionAssumption
  <2>3. \A i \in 1 .. Len(d) : d[i] \in ALPHANUMERIC \cup {"-"}
    BY <2>2, LenProperties
  <2>4. /\ ALPHANUMERIC \cup {"-"} \subseteq NonceCharacters
        /\ ALPHANUMERIC \cup {"-"} \subseteq CHARACTERS
    BY CharacterAssumption DEF NonceCharacters
  <2>5. d \in Seq(CHARACTERS)
    BY <2>2, <2>4, SeqMonotonic
  <2>6. QED BY <2>1, <2>3, <2>4, <2>5 DEF Over, Texts
<1>3. ASSUME NEW n \in NONCES
      PROVE  n \in Texts /\ (ValidNonce(n) => Over(n, NonceCharacters))
  BY InputTextAssumption DEF ValidNonce, Texts
<1>4. QED BY <1>1, <1>2, <1>3

Asked ==
  [created : TIMESTAMPS, expires : TIMESTAMPS, nonce : NONCES,
   key_id : KEY_IDS]

Admitted(a) ==
  ValidateSignatureMetadata(a.created, a.expires, a.nonce).ok

LEMMA AdmittedValues ==
  ASSUME NEW a \in Asked, Admitted(a)
  PROVE  /\ a.created \in TIMESTAMPS /\ a.created >= 0
         /\ a.expires \in TIMESTAMPS /\ a.expires >= 0
         /\ a.nonce \in NONCES /\ ValidNonce(a.nonce)
         /\ a.key_id \in KEY_IDS
<1>1. /\ a.created \in TIMESTAMPS /\ a.expires \in TIMESTAMPS
      /\ a.nonce \in NONCES /\ a.key_id \in KEY_IDS
  BY DEF Asked
<1>2. a.created \in Int /\ a.expires \in Int
  <2>1. \A t \in TIMESTAMPS : t \in Int
    BY RangeAssumption
  <2>2. QED BY <1>1, <2>1
<1>3. /\ ~(a.created < 0) /\ ~(a.expires <= a.created)
      /\ ValidNonce(a.nonce)
  BY DEF Admitted, ValidateSignatureMetadata, Err
<1>4. QED BY <1>1, <1>2, <1>3

(* What sign writes is taken apart as it was put together.                 *)
LEMMA ParseReadsBack ==
  ASSUME NEW q \in Asked, Admitted(q)
  PROVE  ParseSignatureInput(Label(ParametersOf(q))) =
           Ok([parameters |-> ParametersOf(q), created |-> q.created,
               expires |-> q.expires, key_id |-> q.key_id])
<1>0. PICK c, e, n, k :
        /\ c = Decimal(q.created) /\ e = Decimal(q.expires)
        /\ n = q.nonce /\ k = Hyphenated(q.key_id)
  OBVIOUS
<1>1. /\ c \in Texts /\ e \in Texts /\ n \in Texts /\ k \in Texts
      /\ Without(c, ";expires=") /\ Without(e, ";nonce=")
      /\ Without(n, ";keyid=") /\ Without(k, ";alg=")
  BY <1>0, AdmittedValues, PlainValues, PlainText
<1>a. PICK w5 : w5 = <<"ed25519">>
  OBVIOUS
<1>b. PICK w4 : w4 = k \o (<<";alg=">> \o w5)
  OBVIOUS
<1>c. PICK w3 : w3 = n \o (<<";keyid=">> \o w4)
  OBVIOUS
<1>d. PICK w2 : w2 = e \o (<<";nonce=">> \o w3)
  OBVIOUS
<1>e. PICK w1 : w1 = c \o (<<";expires=">> \o w2)
  OBVIOUS
<1>2. PICK p, w : p = <<"covered;created=">> \o w1 /\ w = <<"sig1=">> \o p
  OBVIOUS
<1>3. p = ParametersOf(q) /\ w = Label(ParametersOf(q))
  BY <1>0, <1>a, <1>b, <1>c, <1>d, <1>e, <1>2, EndIsText
  DEF SignatureParameters, ParametersOf, Label
<1>4. /\ w4 \in Texts /\ Find(w4, ";alg=") # 0
      /\ Before(w4, Find(w4, ";alg=")) = k
      /\ After(w4, Find(w4, ";alg=")) = w5
  <2>1. w5 \in Texts
    BY <1>a, EndIsText
  <2>2. /\ k \in Texts /\ Without(k, ";alg=") /\ ";alg=" \in CHARACTERS
    BY <1>1, Fixed
  <2>3. QED BY <1>b, <2>1, <2>2, FindsSeparator, Zenon
<1>5. /\ w3 \in Texts /\ Find(w3, ";keyid=") # 0
      /\ Before(w3, Find(w3, ";keyid=")) = n
      /\ After(w3, Find(w3, ";keyid=")) = w4
  <2>1. /\ n \in Texts /\ Without(n, ";keyid=") /\ w4 \in Texts
        /\ ";keyid=" \in CHARACTERS
    BY <1>1, <1>4, Fixed
  <2>2. QED BY <1>c, <2>1, FindsSeparator, Zenon
<1>6. /\ w2 \in Texts /\ Find(w2, ";nonce=") # 0
      /\ Before(w2, Find(w2, ";nonce=")) = e
      /\ After(w2, Find(w2, ";nonce=")) = w3
  <2>1. /\ e \in Texts /\ Without(e, ";nonce=") /\ w3 \in Texts
        /\ ";nonce=" \in CHARACTERS
    BY <1>1, <1>5, Fixed
  <2>2. QED BY <1>d, <2>1, FindsSeparator, Zenon
<1>7. /\ w1 \in Texts /\ Find(w1, ";expires=") # 0
      /\ Before(w1, Find(w1, ";expires=")) = c
      /\ After(w1, Find(w1, ";expires=")) = w2
  <2>1. /\ c \in Texts /\ Without(c, ";expires=") /\ w2 \in Texts
        /\ ";expires=" \in CHARACTERS
    BY <1>1, <1>6, Fixed
  <2>2. QED BY <1>e, <2>1, FindsSeparator, Zenon
<1>8. /\ StartsWith(p, "covered;created=") /\ After(p, 1) = w1
      /\ StartsWith(w, "sig1=") /\ After(w, 1) = p
  <2>1. p \in Texts /\ StartsWith(p, "covered;created=") /\ After(p, 1) = w1
    BY <1>2, <1>7, Fixed, HeadPut, Zenon
  <2>2. p \in Texts /\ "sig1=" \in CHARACTERS /\ w = <<"sig1=">> \o p
    BY <1>2, <2>1, Fixed
  <2>3. StartsWith(w, "sig1=") /\ After(w, 1) = p
    BY <2>2, HeadPut, Zenon
  <2>4. QED BY <2>1, <2>3
<1>9. Split(w) = Ok([parameters |-> p, created |-> c, expires |-> e,
                     nonce |-> n, key_id |-> k, algorithm |-> w5])
  BY <1>4, <1>5, <1>6, <1>7, <1>8 DEF Split
<1>10. PICK v : v = [parameters |-> p, created |-> c, expires |-> e,
                     nonce |-> n, key_id |-> k, algorithm |-> w5]
  OBVIOUS
<1>11. Split(w).ok /\ Split(w).value = v
  BY <1>9, <1>10 DEF Ok
<1>12. /\ v.parameters = p /\ IsEd25519(v.algorithm)
       /\ ParseTimestamp(v.created) = Ok(q.created)
       /\ ParseTimestamp(v.expires) = Ok(q.expires)
       /\ v.nonce = q.nonce
       /\ ParseUuid(v.key_id) = q.key_id /\ q.key_id # GARBLED
  <2>1. /\ v.parameters = p /\ v.created = c /\ v.expires = e
        /\ v.nonce = n /\ v.key_id = k /\ v.algorithm = <<"ed25519">>
    BY <1>a, <1>10
  <2>2. ParseUuid(k) = q.key_id /\ q.key_id # GARBLED
    BY <1>0, AdmittedValues, ConversionAssumption
  <2>3. ParseTimestamp(c) = Ok(q.created) /\ ParseTimestamp(e) = Ok(q.expires)
    BY <1>0, AdmittedValues, PlainValues
  <2>4. QED BY <1>0, <2>1, <2>2, <2>3 DEF IsEd25519
<1>13. PICK r : r = Ok([parameters |-> p, created |-> q.created,
                        expires |-> q.expires, key_id |-> q.key_id])
  OBVIOUS
<1>14. ParseSignatureInput(w) = r
  BY <1>11, <1>12, <1>13 DEF ParseSignatureInput, Admitted, Ok
<1>15. QED BY <1>3, <1>13, <1>14

(* And nothing but what sign could have written is accepted.               *)
LEMMA SplitsOnlyItsForm ==
  ASSUME NEW w \in Texts, Split(w).ok, IsEd25519(Split(w).value.algorithm)
  PROVE  LET v == Split(w).value
         IN  /\ w = Label(v.parameters)
             /\ v.parameters =
                  SignatureParameters(v.created, v.expires, v.nonce, v.key_id)
<1>1. PICK p, w1 : p = After(w, 1) /\ w1 = After(p, 1)
  OBVIOUS
<1>2. PICK w2 : w2 = After(w1, Find(w1, ";expires="))
  OBVIOUS
<1>3. PICK w3 : w3 = After(w2, Find(w2, ";nonce="))
  OBVIOUS
<1>4. PICK w4 : w4 = After(w3, Find(w3, ";keyid="))
  OBVIOUS
<1>5. PICK w5 : w5 = After(w4, Find(w4, ";alg="))
  OBVIOUS
<1>6. PICK c, e, n, k :
        /\ c = Before(w1, Find(w1, ";expires="))
        /\ e = Before(w2, Find(w2, ";nonce="))
        /\ n = Before(w3, Find(w3, ";keyid="))
        /\ k = Before(w4, Find(w4, ";alg="))
  OBVIOUS
<1>7. /\ StartsWith(w, "sig1=") /\ StartsWith(p, "covered;created=")
      /\ Find(w1, ";expires=") # 0 /\ Find(w2, ";nonce=") # 0
      /\ Find(w3, ";keyid=") # 0 /\ Find(w4, ";alg=") # 0
      /\ Split(w).value =
           [parameters |-> p, created |-> c, expires |-> e, nonce |-> n,
            key_id |-> k, algorithm |-> w5]
  BY <1>1, <1>2, <1>3, <1>4, <1>5, <1>6 DEF Split, Ok, Err
<1>f. /\ StartsWith(w, "sig1=") /\ StartsWith(p, "covered;created=")
      /\ Find(w1, ";expires=") # 0 /\ Find(w2, ";nonce=") # 0
      /\ Find(w3, ";keyid=") # 0 /\ Find(w4, ";alg=") # 0
  BY <1>7
<1>8. PICK v : v = [parameters |-> p, created |-> c, expires |-> e,
                    nonce |-> n, key_id |-> k, algorithm |-> w5]
  OBVIOUS
<1>9. /\ Split(w).value = v
      /\ v.parameters = p /\ v.created = c /\ v.expires = e
      /\ v.nonce = n /\ v.key_id = k /\ v.algorithm = w5
  BY <1>7, <1>8
<1>g. w5 = <<"ed25519">>
  BY <1>9 DEF IsEd25519
<1>10. /\ p \in Texts /\ w = <<"sig1=">> \o p
       /\ w1 \in Texts /\ p = <<"covered;created=">> \o w1
  <2>1. p \in Texts /\ w = <<"sig1=">> \o p
    BY <1>1, <1>f, HeadTaken
  <2>2. QED BY <1>1, <1>f, <2>1, HeadTaken
<1>11. w2 \in Texts /\ w1 = c \o (<<";expires=">> \o w2)
  BY <1>2, <1>6, <1>f, <1>10, SplitOnce
<1>12. w3 \in Texts /\ w2 = e \o (<<";nonce=">> \o w3)
  BY <1>3, <1>6, <1>f, <1>11, SplitOnce
<1>13. w4 \in Texts /\ w3 = n \o (<<";keyid=">> \o w4)
  BY <1>4, <1>6, <1>f, <1>12, SplitOnce
<1>14. w5 \in Texts /\ w4 = k \o (<<";alg=">> \o w5)
  BY <1>5, <1>6, <1>f, <1>13, SplitOnce
<1>15. w = Label(p) /\ p = SignatureParameters(c, e, n, k)
  BY <1>g, <1>10, <1>11, <1>12, <1>13, <1>14, EndIsText
  DEF SignatureParameters, Label
<1>16. QED BY <1>9, <1>15

(* What parses is split into the five parameters, and every one of them    *)
(* passes its own check.                                                   *)
LEMMA ParsesOnlyItsForm ==
  ASSUME NEW w \in Texts, ParseSignatureInput(w).ok
  PROVE  LET v == ParseSignatureInput(w).value
             t == Split(w).value
         IN  /\ w = Label(v.parameters)
             /\ v.parameters =
                  SignatureParameters(t.created, t.expires, t.nonce, t.key_id)
             /\ Over(t.created, DIGITS) /\ v.created = Number(t.created)
             /\ Over(t.expires, DIGITS) /\ v.expires = Number(t.expires)
             /\ v.created \in 0 .. I64_MAX /\ v.expires \in 0 .. I64_MAX
             /\ v.created < v.expires
             /\ v.expires - v.created <= SIGNATURE_VALIDITY_SECONDS
             /\ ValidNonce(t.nonce)
             /\ v.key_id = ParseUuid(t.key_id)
<1>1. PICK t, c, e :
        /\ t = Split(w).value
        /\ c = ParseTimestamp(t.created)
        /\ e = ParseTimestamp(t.expires)
  OBVIOUS
<1>2. /\ Split(w).ok /\ IsEd25519(t.algorithm) /\ c.ok /\ e.ok
      /\ ValidateSignatureMetadata(c.value, e.value, t.nonce).ok
      /\ ParseSignatureInput(w).value =
           [parameters |-> t.parameters, created |-> c.value,
            expires |-> e.value, key_id |-> ParseUuid(t.key_id)]
  BY <1>1 DEF ParseSignatureInput, Ok, Err
<1>3. /\ w = Label(t.parameters)
      /\ t.parameters =
           SignatureParameters(t.created, t.expires, t.nonce, t.key_id)
  BY <1>1, <1>2, SplitsOnlyItsForm
<1>4. /\ Over(t.created, DIGITS) /\ c.value = Number(t.created)
      /\ Over(t.expires, DIGITS) /\ e.value = Number(t.expires)
      /\ c.value \in 0 .. I64_MAX /\ e.value \in 0 .. I64_MAX
  BY <1>1, <1>2 DEF ParseTimestamp, Ok, Err
<1>5. /\ ~(e.value <= c.value)
      /\ ~(e.value - c.value > SIGNATURE_VALIDITY_SECONDS)
      /\ ValidNonce(t.nonce)
  BY <1>2 DEF ValidateSignatureMetadata, Err
<1>6. c.value < e.value /\ e.value - c.value <= SIGNATURE_VALIDITY_SECONDS
  BY <1>4, <1>5, RangeAssumption
<1>7. PICK v : v = ParseSignatureInput(w).value
  OBVIOUS
<1>8. /\ v.parameters = t.parameters /\ v.created = c.value
      /\ v.expires = e.value /\ v.key_id = ParseUuid(t.key_id)
  BY <1>2, <1>7
<1>9. QED BY <1>1, <1>3, <1>4, <1>5, <1>6, <1>7, <1>8

-----------------------------------------------------------------------------
LEMMA HeaderIsText ==
  ASSUME NEW q \in Asked, Admitted(q)
  PROVE  Label(ParametersOf(q)) \in Texts
<1>0. PICK c, e, n, k :
        /\ c = Decimal(q.created) /\ e = Decimal(q.expires)
        /\ n = q.nonce /\ k = Hyphenated(q.key_id)
  OBVIOUS
<1>1. c \in Texts /\ e \in Texts /\ n \in Texts /\ k \in Texts
  BY <1>0, AdmittedValues, PlainValues
<1>2. \A s, t \in Texts : s \o t \in Texts
  BY ConcatProperties DEF Texts
<1>3. \A x \in CHARACTERS : \A t \in Texts : <<x>> \o t \in Texts
  BY Prepended
<1>4. <<";alg=", "ed25519">> \in Texts
  BY <1>3, EndIsText, Fixed
<1>5. <<";keyid=">> \o (k \o <<";alg=", "ed25519">>) \in Texts
  BY <1>1, <1>2, <1>3, <1>4, Fixed
<1>6. PICK t3 : t3 = <<";keyid=">> \o (k \o <<";alg=", "ed25519">>)
  OBVIOUS
<1>7. <<";nonce=">> \o (n \o t3) \in Texts
  BY <1>1, <1>2, <1>3, <1>5, <1>6, Fixed
<1>8. PICK t2 : t2 = <<";nonce=">> \o (n \o t3)
  OBVIOUS
<1>9. <<";expires=">> \o (e \o t2) \in Texts
  BY <1>1, <1>2, <1>3, <1>7, <1>8, Fixed
<1>10. PICK t1 : t1 = <<";expires=">> \o (e \o t2)
  OBVIOUS
<1>11. <<"covered;created=">> \o (c \o t1) \in Texts
  BY <1>1, <1>2, <1>3, <1>9, <1>10, Fixed
<1>12. PICK p : p = <<"covered;created=">> \o (c \o t1)
  OBVIOUS
<1>13. <<"sig1=">> \o p \in Texts
  BY <1>3, <1>11, <1>12, Fixed
<1>14. QED BY <1>0, <1>6, <1>8, <1>10, <1>12, <1>13
           DEF SignatureParameters, ParametersOf, Label

LEMMA DamagedIsText ==
  ASSUME NEW w \in Texts, NEW i \in 1 .. Len(w), NEW x \in SMUDGES,
         NEW d \in Damaged(w, i, x)
  PROVE  d \in Texts
<1>1. Len(w) \in Nat
  BY LenProperties DEF Texts
<1>2. Before(w, i) \in Texts /\ After(w, i) \in Texts
  BY CutAt
<1>3. Before(w, i + 1) \in Texts
  <2>1. i \in 0 .. Len(w) /\ (i + 1) - 1 = i
    BY <1>1
  <2>2. SubSeq(w, 1, i) \in Texts
    BY <2>1, CutAfter
  <2>3. QED BY <2>1, <2>2 DEF Before
<1>4. <<x>> \o After(w, i) \in Texts
  BY <1>2, Prepended, InputTextAssumption
<1>5. \A s, t \in Texts : s \o t \in Texts
  BY ConcatProperties DEF Texts
<1>6. QED BY <1>2, <1>3, <1>4, <1>5 DEF Damaged

(* A header is what the values asked for are written as, and a verdict is  *)
(* what parsing the header that arrived returns.                           *)
Parsed ==
  /\ asked \in Asked
  /\ header # NOT_YET =>
       (header.ok =>
          Admitted(asked) /\ header.value = Label(ParametersOf(asked)))
  /\ header_received # NOT_YET =>
       header # NOT_YET /\ header.ok /\ header_received \in Texts
  /\ parsed # NOT_YET =>
       header_received # NOT_YET /\ parsed = ParseSignatureInput(header_received)

LEMMA ParsedAlways == InputSpec => []Parsed
<1>1. InputInit => Parsed
  BY DEF InputInit, Parsed, Asked
<1>2. Parsed /\ [InputNext]_input_vars => Parsed'
  <2> SUFFICES ASSUME Parsed, [InputNext]_input_vars PROVE Parsed'
    OBVIOUS
  <2>1. CASE SignHeader
    <3>1. header = NOT_YET /\ header_received = NOT_YET /\ parsed = NOT_YET
      BY <2>1 DEF SignHeader, Parsed
    <3>2. header'.ok =>
            Admitted(asked) /\ header'.value = Label(ParametersOf(asked))
      BY <2>1 DEF SignHeader, Admitted, Ok
    <3>3. UNCHANGED <<asked, header_received, parsed>>
      BY <2>1 DEF SignHeader
    <3>4. QED BY <3>1, <3>2, <3>3 DEF Parsed, Admitted, ParametersOf
  <2>2. CASE ReceiveHeader
    <3>1. header # NOT_YET /\ header.ok /\ header_received = NOT_YET
      BY <2>2 DEF ReceiveHeader
    <3>2. header.value \in Texts
      BY <3>1, HeaderIsText DEF Parsed
    <3>3. header_received' \in Texts
      BY <2>2, <3>2, DamagedIsText DEF ReceiveHeader
    <3>4. parsed = NOT_YET
      BY <3>1 DEF Parsed
    <3>5. QED BY <2>2, <3>1, <3>3, <3>4 DEF ReceiveHeader, Parsed
  <2>3. CASE ParseHeader
    BY <2>3 DEF ParseHeader, Parsed
  <2>4. CASE UNCHANGED input_vars
    BY <2>4 DEF input_vars, Parsed
  <2>5. QED BY <2>1, <2>2, <2>3, <2>4 DEF InputNext
<1>3. QED BY <1>1, <1>2, PTL DEF InputSpec

(* What sign writes is read back as it was passed, and the signature base  *)
(* is rebuilt with the parameters it was signed with.                      *)
THEOREM HeaderReadsBack == InputSpec => []ReadsBack
<1>1. Parsed => ReadsBack
  <2> SUFFICES ASSUME Parsed, parsed # NOT_YET, header_received = header.value
               PROVE  parsed =
                        Ok([parameters |-> ParametersOf(asked),
                            created |-> asked.created,
                            expires |-> asked.expires,
                            key_id |-> asked.key_id])
    BY DEF ReadsBack
  <2>1. /\ asked \in Asked /\ Admitted(asked)
        /\ parsed = ParseSignatureInput(Label(ParametersOf(asked)))
    BY DEF Parsed
  <2>2. QED BY <2>1, ParseReadsBack
<1>2. QED BY <1>1, ParsedAlways, PTL

(* Nothing but the label and the five parameters is accepted as a header,  *)
(* and the parameters kept are its text as received.                       *)
THEOREM OnlyHeadersParse == InputSpec => []NothingElseParses
<1>1. Parsed => NothingElseParses
  <2> SUFFICES ASSUME Parsed, parsed # NOT_YET, parsed.ok
               PROVE  NothingElseParses
    BY DEF NothingElseParses
  <2>1. PICK w : w = header_received
    OBVIOUS
  <2>2. w \in Texts /\ parsed = ParseSignatureInput(w)
    BY <2>1 DEF Parsed
  <2>3. QED BY <2>1, <2>2, ParsesOnlyItsForm DEF NothingElseParses
<1>2. QED BY <1>1, ParsedAlways, PTL

-----------------------------------------------------------------------------
(* What sign made of the values it was passed.                             *)
Judged ==
  header # NOT_YET =>
    header = LET metadata == ValidateSignatureMetadata(
                               asked.created, asked.expires, asked.nonce)
             IN IF metadata.ok THEN Ok(Label(ParametersOf(asked))) ELSE metadata

LEMMA JudgedAlways == InputSpec => []Judged
<1>1. InputInit => Judged
  BY DEF InputInit, Judged
<1>2. Judged /\ [InputNext]_input_vars => Judged'
  <2> SUFFICES ASSUME Judged, [InputNext]_input_vars PROVE Judged'
    OBVIOUS
  <2>1. CASE SignHeader
    BY <2>1 DEF SignHeader, Judged, ParametersOf
  <2>2. CASE ReceiveHeader
    BY <2>2 DEF ReceiveHeader, Judged, ParametersOf
  <2>3. CASE ParseHeader
    BY <2>3 DEF ParseHeader, Judged, ParametersOf
  <2>4. CASE UNCHANGED input_vars
    BY <2>4 DEF input_vars, Judged, ParametersOf
  <2>5. QED BY <2>1, <2>2, <2>3, <2>4 DEF InputNext
<1>3. QED BY <1>1, <1>2, PTL DEF InputSpec

(* 12 to 96 random bytes, of which generate_nonce draws 24, are written    *)
(* with 16 to 128 characters, the lengths valid_nonce admits.              *)
LEMMA GeneratedIsValid ==
  ASSUME MIN_NONCE_LENGTH = 16, MAX_NONCE_LENGTH = 128,
         NONCE_BYTES \in 12 .. 96,
         NEW nonce, Generated(nonce)
  PROVE  ValidNonce(nonce)
<1>1. (4 * NONCE_BYTES + 2) \div 3 \in 16 .. 128
  OBVIOUS
<1>2. QED BY <1>1 DEF Generated, ValidNonce

(* sign refuses no nonce that generate_nonce made, for every number of     *)
(* bytes it might draw and be admitted by the length check.                *)
THEOREM GeneratedNoncesServe ==
  ASSUME MIN_NONCE_LENGTH = 16, MAX_NONCE_LENGTH = 128,
         NONCE_BYTES \in 12 .. 96
  PROVE  InputSpec => []GeneratedNonceServes
<1>1. Judged => GeneratedNonceServes
  <2> SUFFICES ASSUME Judged, header # NOT_YET, Generated(asked.nonce)
               PROVE  header # Err(InvalidRequestPart("nonce"))
    BY DEF GeneratedNonceServes
  <2>1. ValidNonce(asked.nonce)
    BY GeneratedIsValid
  <2>2. PICK metadata :
          metadata = ValidateSignatureMetadata(asked.created, asked.expires,
                                               asked.nonce)
    OBVIOUS
  <2>3. header = IF metadata.ok THEN Ok(Label(ParametersOf(asked))) ELSE metadata
    BY <2>2 DEF Judged
  <2>4. \/ metadata = Err(InvalidRequestPart("created"))
        \/ metadata = Err(InvalidRequestPart("expires"))
        \/ metadata = Ok("valid")
    BY <2>1, <2>2 DEF ValidateSignatureMetadata
  <2>5. /\ Err(InvalidRequestPart("created")) # Err(InvalidRequestPart("nonce"))
        /\ Err(InvalidRequestPart("expires")) # Err(InvalidRequestPart("nonce"))
    BY DEF Err, InvalidRequestPart
  <2>6. \A v : Ok(v).ok /\ ~Err(InvalidRequestPart("nonce")).ok
    BY DEF Ok, Err
  <2>7. QED BY <2>3, <2>4, <2>5, <2>6
<1>2. QED BY <1>1, JudgedAlways, PTL
=============================================================================
