--------------------------- MODULE ProtocolProofs ---------------------------
(***************************************************************************)
(* Protocol, for any texts sent as keys and values, any methods, and any   *)
(* number of requests with up to three lines.                              *)
(*                                                                         *)
(* First what each search of the parser finds in a text; then where the    *)
(* line ends of a message are (MessageShape), what the parser makes of its *)
(* lines (MessageParsed) and where the framing cuts it, whatever follows   *)
(* (Framed); at last the buffer as the messages not parsed yet (Stream).   *)
(***************************************************************************)
EXTENDS Protocol, OrderLemmas

Token == STRING \cup {"CR", "LF", ":", "Method", "Key", "Value", "OK: Value="}
Text == Seq(Token)

----------------------------------------------------------------------------
(* Searches.                                                               *)

\* The first and the last of a set of positions are among them, and they are
\* what their names say.
LEMMA FirstOfIs ==
    ASSUME NEW n \in Nat, NEW S \in SUBSET (0..n), S # {}
    PROVE  /\ FirstOf(S) \in S /\ \A j \in S : FirstOf(S) <= j
           /\ \A i \in S : (\A j \in S : i <= j) => FirstOf(S) = i
<1>1. S \in SUBSET Int /\ IsFiniteSet(S)
  <2>1. n \in Int
    OBVIOUS
  <2> QED
    BY <2>1, UpToFinite
<1>2. \E i \in S : \A j \in S : i <= j
  BY <1>1, LeastElement
<1>3. FirstOf(S) \in S /\ \A j \in S : FirstOf(S) <= j
  BY <1>2 DEF FirstOf
<1>4. PICK f : f = FirstOf(S)
  OBVIOUS
<1>5. ASSUME NEW i \in S, \A j \in S : i <= j
      PROVE  f = i
  <2>1. f \in Int /\ i \in Int /\ f <= i /\ i <= f
    BY <1>1, <1>3, <1>4, <1>5
  <2> QED
    BY <2>1
<1> QED
  BY <1>3, <1>4, <1>5

LEMMA LastOfIs ==
    ASSUME NEW n \in Nat, NEW S \in SUBSET (0..n), S # {}
    PROVE  /\ LastOf(S) \in S /\ \A j \in S : j <= LastOf(S)
           /\ \A i \in S : (\A j \in S : j <= i) => LastOf(S) = i
<1>1. \E i \in S : \A j \in S : j <= i
  BY GreatestElement
<1>2. LastOf(S) \in S /\ \A j \in S : j <= LastOf(S)
  BY <1>1 DEF LastOf
<1>3. S \in SUBSET Int
  OBVIOUS
<1>4. PICK l : l = LastOf(S)
  OBVIOUS
<1>5. ASSUME NEW i \in S, \A j \in S : j <= i
      PROVE  l = i
  <2>1. l \in Int /\ i \in Int /\ l <= i /\ i <= l
    BY <1>2, <1>3, <1>4, <1>5
  <2> QED
    BY <2>1
<1> QED
  BY <1>2, <1>4, <1>5

LEMMA PlacesIn ==
    ASSUME NEW t, NEW S, NEW s \in Seq(S)
    PROVE  /\ Places(t, s) = {i \in 1..Len(s) : s[i] = t}
           /\ Places(t, s) \in SUBSET (0..Len(s)) /\ Len(s) \in Nat
  BY DEF Places

\* A part of a text is a text, whose elements are elements of it.
LEMMA PartOf ==
    ASSUME NEW S, NEW s \in Seq(S), NEW a \in Int, NEW b \in Int, 1 <= a, b <= Len(s)
    PROVE  /\ SubSeq(s, a, b) \in Seq(S)
           /\ Len(SubSeq(s, a, b)) = IF a <= b THEN b - a + 1 ELSE 0
           /\ \A i \in 1..(b - a + 1) : SubSeq(s, a, b)[i] = s[a + i - 1]
<1>1. Len(s) \in Nat
  OBVIOUS
<1>2. ASSUME NEW i \in a..b
      PROVE  s[i] \in S
  <2>1. i \in 1..Len(s)
    BY <1>1
  <2> QED
    BY <2>1, ElementOfSeq
<1> QED
  BY <1>2, SubSeqProperties

----------------------------------------------------------------------------
(* Answers of one line.                                                    *)

NoLineFeed(s) == \A i \in 1..Len(s) : s[i] # "LF"

LEMMA PartWithoutLineFeed ==
    ASSUME NEW s \in Text, NoLineFeed(s), NEW a \in Int, NEW b \in Int, 1 <= a, b <= Len(s)
    PROVE  SubSeq(s, a, b) \in Text /\ NoLineFeed(SubSeq(s, a, b))
<1>1. PICK t : t = SubSeq(s, a, b)
  OBVIOUS
<1>2. /\ t \in Text /\ Len(s) \in Nat
      /\ Len(t) = IF a <= b THEN b - a + 1 ELSE 0
      /\ \A i \in 1..(b - a + 1) : t[i] = s[a + i - 1]
  BY <1>1, PartOf DEF Text
<1>3. ASSUME NEW i \in 1..Len(t)
      PROVE  t[i] # "LF"
  <2>1. i \in 1..(b - a + 1) /\ a + i - 1 \in 1..Len(s)
    BY <1>2
  <2> QED
    BY <1>2, <2>1 DEF NoLineFeed
<1> QED
  BY <1>1, <1>2, <1>3 DEF NoLineFeed

\* getline stops before a line feed.
LEMMA LineHasNoLineFeed ==
    ASSUME NEW m \in Text, NEW p \in 0..Len(m)
    PROVE  LineAfter(m, p) \in Text /\ NoLineFeed(LineAfter(m, p))
<1>1. PICK E : E = {i \in Places("LF", m) : i > p}
  OBVIOUS
<1>2. PICK e : e = IF E = {} THEN Len(m) ELSE FirstOf(E) - 1
  OBVIOUS
<1>3. LineAfter(m, p) = SubSeq(m, p + 1, e)
  BY <1>1, <1>2 DEF LineAfter
<1>4. /\ E \in SUBSET (0..Len(m)) /\ Len(m) \in Nat
      /\ \A i \in 1..Len(m) : i > p /\ m[i] = "LF" => i \in E
  BY <1>1, PlacesIn DEF Text
<1>5. /\ e \in Int /\ e <= Len(m)
      /\ \A i \in (p + 1)..e : i \in 1..Len(m) /\ m[i] # "LF"
  <2>1. CASE E = {}
    BY <1>2, <1>4, <2>1
  <2>2. CASE E # {}
    <3>1. FirstOf(E) \in 0..Len(m) /\ \A j \in E : FirstOf(E) <= j
      BY <1>4, <2>2, FirstOfIs
    <3>2. PICK f \in 0..Len(m) : f = FirstOf(E)
      BY <3>1
    <3>3. e = f - 1 /\ \A j \in E : f <= j
      BY <1>2, <2>2, <3>1, <3>2
    <3> QED
      BY <1>4, <3>3
  <2> QED
    BY <2>1, <2>2
<1>6. PICK l : l = SubSeq(m, p + 1, e)
  OBVIOUS
<1>7. /\ l \in Text /\ Len(l) = IF p + 1 <= e THEN e - (p + 1) + 1 ELSE 0
      /\ \A i \in 1..(e - (p + 1) + 1) : l[i] = m[(p + 1) + i - 1]
  <2>1. p + 1 \in Int /\ 1 <= p + 1
    BY <1>4
  <2> QED
    BY <1>5, <1>6, <2>1, PartOf DEF Text
<1>8. ASSUME NEW i \in 1..Len(l)
      PROVE  l[i] # "LF"
  <2>1. i \in 1..(e - (p + 1) + 1) /\ (p + 1) + i - 1 \in (p + 1)..e
    BY <1>4, <1>5, <1>7
  <2> QED
    BY <1>5, <1>7, <2>1
<1> QED
  BY <1>3, <1>6, <1>7, <1>8 DEF NoLineFeed

LEMMA WithoutCRPart ==
    ASSUME NEW l \in Text, NoLineFeed(l)
    PROVE  WithoutCR(l) \in Text /\ NoLineFeed(WithoutCR(l))
<1>1. Len(l) \in Nat /\ 1 \in Int /\ Len(l) - 1 \in Int
  BY DEF Text
<1>2. SubSeq(l, 1, Len(l) - 1) \in Text /\ NoLineFeed(SubSeq(l, 1, Len(l) - 1))
  BY <1>1, PartWithoutLineFeed
<1> QED
  BY <1>2 DEF WithoutCR

LEMMA TrimPart ==
    ASSUME NEW x \in Text, NoLineFeed(x)
    PROVE  Trim(x) \in Text /\ NoLineFeed(Trim(x))
<1>1. PICK B : B = DOMAIN x \ Places(" ", x)
  OBVIOUS
<1>2. Len(x) \in Nat /\ B \in SUBSET (1..Len(x)) /\ B \in SUBSET (0..Len(x))
  <2>1. Len(x) \in Nat /\ DOMAIN x = 1..Len(x)
    BY LenProperties DEF Text
  <2>2. B \in SUBSET (DOMAIN x)
    BY <1>1
  <2>3. 1..Len(x) \subseteq 0..Len(x)
    BY <2>1
  <2> QED
    BY <2>1, <2>2, <2>3
<1>3. CASE B = {}
  <2>1. Trim(x) = <<>>
    BY <1>1, <1>3 DEF Trim
  <2>2. <<>> \in Text /\ NoLineFeed(<<>>)
    BY EmptySeq DEF Text, NoLineFeed
  <2> QED
    BY <2>1, <2>2
<1>4. CASE B # {}
  <2>1. FirstOf(B) \in B /\ LastOf(B) \in B
    BY <1>2, <1>4, FirstOfIs, LastOfIs
  <2>2. FirstOf(B) \in 1..Len(x) /\ LastOf(B) \in 1..Len(x)
    BY <1>2, <2>1
  <2>3. Trim(x) = SubSeq(x, FirstOf(B), LastOf(B))
    BY <1>1, <1>4 DEF Trim
  <2> QED
    BY <1>2, <2>2, <2>3, PartWithoutLineFeed
<1> QED
  BY <1>3, <1>4

\* What parse_fields finds for a field has no line feed, whatever was received.
LEMMA FieldHasNoLineFeed ==
    ASSUME NEW m \in Text, NEW name, Has(m, name)
    PROVE  parse_fields(m, name) \in Text /\ NoLineFeed(parse_fields(m, name))
<1>1. PICK P : P = LinesOf(m, name)
  OBVIOUS
<1>2. P \in SUBSET (0..Len(m)) /\ P # {} /\ Len(m) \in Nat
  <2>1. Places("LF", m) \in SUBSET (0..Len(m)) /\ Len(m) \in Nat
    BY PlacesIn DEF Text
  <2> QED
    BY <1>1, <2>1 DEF LinesOf, Has
<1>3. PICK p \in P : p = LastOf(P)
  BY <1>2, LastOfIs
<1>4. PICK l : l = Line(m, p)
  OBVIOUS
<1>5. Places(":", l) # {} /\ parse_fields(m, name) = FieldValue(l)
  BY <1>1, <1>3, <1>4 DEF LinesOf, parse_fields
<1>6. l \in Text /\ NoLineFeed(l)
  BY <1>2, <1>3, <1>4, LineHasNoLineFeed, WithoutCRPart DEF Line
<1>7. ColonOf(l) \in 1..Len(l) /\ Len(l) \in Nat
  <2>1. /\ Places(":", l) \in SUBSET (0..Len(l)) /\ Len(l) \in Nat
        /\ Places(":", l) = {i \in 1..Len(l) : l[i] = ":"}
    BY <1>6, PlacesIn DEF Text
  <2>2. ColonOf(l) \in Places(":", l)
    BY <1>5, <2>1, FirstOfIs DEF ColonOf
  <2> QED
    BY <2>1, <2>2
<1>8. PICK v : v = SubSeq(l, ColonOf(l) + 1, Len(l))
  OBVIOUS
<1>9. v \in Text /\ NoLineFeed(v)
  <2>1. ColonOf(l) + 1 \in Int /\ 1 <= ColonOf(l) + 1 /\ Len(l) \in Int /\ Len(l) <= Len(l)
    BY <1>7
  <2> QED
    BY <1>6, <1>8, <2>1, PartWithoutLineFeed
<1>10. Trim(v) \in Text /\ NoLineFeed(Trim(v))
  BY <1>9, TrimPart
<1> QED
  BY <1>5, <1>8, <1>10 DEF FieldValue

\* The values that commands carry.
Stored == {v \in Text : NoLineFeed(v)}

LEMMA ParsedValue ==
    ASSUME NEW m \in Text
    PROVE  parse_message(m).value \in Stored
<1>1. <<>> \in Stored
  BY EmptySeq DEF Stored, Text, NoLineFeed
<1>2. Has(m, "Value") => parse_fields(m, "Value") \in Stored
  BY FieldHasNoLineFeed DEF Stored
<1> QED
  BY <1>1, <1>2 DEF parse_message, Invalid, Command

\* An answer is a value between its prefix and the line's end.
LEMMA OneLineAnswer ==
    ASSUME NEW v \in Stored
    PROVE  LET a == format_response(ok_value(v))
           IN  Places("LF", a) = {Len(a)}
<1>1. v \in Text /\ NoLineFeed(v) /\ Len(v) \in Nat
  BY DEF Stored, Text
<1>2. <<"OK: Value=">> \in Text /\ EOL \in Text
  BY DEF Text, Token, EOL
<1>3. PICK b : b = ok_value(v)
  OBVIOUS
<1>4. /\ b \in Text /\ Len(b) = 1 + Len(v)
      /\ \A i \in 1..Len(b) : b[i] # "LF"
  <2>1. /\ b \in Text /\ Len(b) = 1 + Len(v)
        /\ \A i \in 1..(1 + Len(v)) :
               b[i] = IF i <= 1 THEN <<"OK: Value=">>[i] ELSE v[i - 1]
    <3>1. Len(<<"OK: Value=">>) = 1
      OBVIOUS
    <3> QED
      BY <1>1, <1>2, <1>3, <3>1, ConcatProperties DEF ok_value, Text
  <2>2. ASSUME NEW i \in 1..(1 + Len(v))
        PROVE  b[i] # "LF"
    <3>1. CASE i = 1
      <4>1. <<"OK: Value=">>[1] = "OK: Value=" /\ "OK: Value=" # "LF"
        OBVIOUS
      <4>2. 1 \in 1..(1 + Len(v)) /\ 1 <= 1
        BY <1>1
      <4>3. b[1] = <<"OK: Value=">>[1]
        BY <2>1, <4>2
      <4> QED
        BY <3>1, <4>1, <4>3
    <3>2. CASE i # 1
      <4>1. i - 1 \in 1..Len(v) /\ ~ (i <= 1)
        BY <1>1, <3>2
      <4>2. b[i] = v[i - 1]
        BY <2>1, <4>1
      <4> QED
        BY <1>1, <4>1, <4>2 DEF NoLineFeed
    <3> QED
      BY <3>1, <3>2
  <2> QED
    BY <1>1, <2>1, <2>2
<1>5. PICK a : a = format_response(b)
  OBVIOUS
<1>6. Len(EOL) = 2 /\ EOL[1] = "CR" /\ EOL[2] = "LF"
  BY DEF EOL
<1>7. /\ a \in Text /\ Len(a) = Len(b) + 2
      /\ \A i \in 1..(Len(b) + 2) : a[i] = IF i <= Len(b) THEN b[i] ELSE EOL[i - Len(b)]
  <2>1. /\ b \o EOL \in Text /\ Len(b \o EOL) = Len(b) + Len(EOL)
        /\ \A i \in 1..(Len(b) + Len(EOL)) :
               (b \o EOL)[i] = IF i <= Len(b) THEN b[i] ELSE EOL[i - Len(b)]
    BY <1>2, <1>4, ConcatProperties DEF Text
  <2>2. a = b \o EOL
    BY <1>5 DEF format_response
  <2> QED
    BY <1>6, <2>1, <2>2
<1>8. Len(b) \in Nat /\ Len(a) \in 1..Len(a)
  BY <1>1, <1>4, <1>7
<1>9. a[Len(a)] = "LF"
  <2>1. Len(a) - Len(b) = 2 /\ ~ (Len(a) <= Len(b)) /\ Len(a) \in 1..(Len(b) + 2)
    BY <1>7, <1>8
  <2> QED
    BY <1>6, <1>7, <2>1
<1>10. ASSUME NEW i \in 1..Len(a), i # Len(a)
       PROVE  a[i] # "LF"
  <2>1. CASE i <= Len(b)
    BY <1>4, <1>7, <1>8, <2>1
  <2>2. CASE ~ (i <= Len(b))
    <3>1. i - Len(b) = 1
      BY <1>7, <1>8, <1>10, <2>2
    <3> QED
      BY <1>6, <1>7, <1>8, <2>2, <3>1
  <2> QED
    BY <2>1, <2>2
<1>11. Places("LF", a) = {i \in 1..Len(a) : a[i] = "LF"}
  BY <1>7, PlacesIn DEF Text
<1>12. Places("LF", a) = {Len(a)}
  BY <1>8, <1>9, <1>10, <1>11
<1> QED
  BY <1>3, <1>5, <1>12

----------------------------------------------------------------------------
(* What a message looks like.                                              *)

FieldNames == {"Method", "Key", "Value"}

\* What request r says behind a field's colon.
Content(r, name) ==
    CASE name = "Method" -> <<r.method>>
      [] name = "Key"    -> r.key
      [] name = "Value"  -> r.value

\* The line ends with a line end, put as two positions: line l of text m ends
\* at position e, behind position b.
LineAt(m, b, e, l) ==
    /\ e = b + Len(l) + 2 /\ e <= Len(m)
    /\ \A i \in 1..Len(l) : m[b + i] = l[i]
    /\ m[b + Len(l) + 1] = "CR" /\ m[b + Len(l) + 2] = "LF"

\* m has a line for each element of the layout of r, between the positions in
\* ends, and an empty line.
Shape(m, r, ends) ==
    LET n == Len(r.layout)
    IN  /\ ends \in [0..n -> Nat] /\ ends[0] = 0
        /\ \A j \in 1..n : LineAt(m, ends[j - 1], ends[j], FieldLine(r, r.layout[j]))
        /\ LineAt(m, ends[n], Len(m), <<>>)

\* Strings and the sequences of strings are tokens and texts.
LEMMA StringsAreText ==
    ASSUME NEW s \in Seq(STRING)
    PROVE  s \in Text
<1>1. s \in [1..Len(s) -> STRING] /\ Len(s) \in Nat
  BY LenProperties
<1>2. s \in [1..Len(s) -> Token]
  BY <1>1 DEF Token
<1> QED
  BY <1>1, <1>2 DEF Text

\* A line that a client writes: a name, a colon and a content without a line
\* feed, if key and value have none.
LEMMA FieldLineIs ==
    ASSUME NEW r \in Requests, NEW name \in FieldNames
    PROVE  /\ Content(r, name) \in Text /\ FieldLine(r, name) \in Text
           /\ Len(FieldLine(r, name)) = 2 + Len(Content(r, name))
           /\ FieldLine(r, name)[1] = name /\ FieldLine(r, name)[2] = ":"
           /\ \A i \in 1..Len(Content(r, name)) :
                  FieldLine(r, name)[2 + i] = Content(r, name)[i]
<1>1. r.method \in STRING /\ r.key \in Seq(STRING) /\ r.value \in Seq(STRING)
  BY TextAssumption DEF Requests
<1>2. <<r.method>> \in Seq(STRING)
  BY <1>1
<1>3. PICK c : c = Content(r, name)
  OBVIOUS
<1>4. c \in Seq(STRING)
  BY <1>1, <1>2, <1>3 DEF Content, FieldNames
<1>5. c \in Text
  BY <1>4, StringsAreText
<1>6. PICK h : h = <<name, ":">>
  OBVIOUS
<1>7. h \in Text /\ Len(h) = 2 /\ h[1] = name /\ h[2] = ":"
  <2>1. name \in Token /\ ":" \in Token
    BY DEF Token, FieldNames
  <2>2. <<name, ":">> \in Seq(Token)
    BY <2>1
  <2> QED
    BY <1>6, <2>2 DEF Text
<1>8. FieldLine(r, name) = h \o c
  BY <1>3, <1>6 DEF FieldLine, Content
<1>9. /\ h \o c \in Text /\ Len(h \o c) = Len(h) + Len(c)
      /\ \A i \in 1..(Len(h) + Len(c)) : (h \o c)[i] = IF i <= Len(h) THEN h[i] ELSE c[i - Len(h)]
  BY <1>5, <1>7, ConcatProperties DEF Text
<1>10. PICK f : f = h \o c
  OBVIOUS
<1>11. /\ f \in Text /\ Len(f) = 2 + Len(c) /\ Len(c) \in Nat
       /\ \A i \in 1..(2 + Len(c)) : f[i] = IF i <= 2 THEN h[i] ELSE c[i - 2]
  BY <1>5, <1>7, <1>9, <1>10 DEF Text
<1>12. f[1] = name /\ f[2] = ":"
  <2>1. 1 \in 1..(2 + Len(c)) /\ 2 \in 1..(2 + Len(c)) /\ 1 <= 2 /\ 2 <= 2
    BY <1>11
  <2> QED
    BY <1>7, <1>11, <2>1
<1>13. ASSUME NEW i \in 1..Len(c)
       PROVE  f[2 + i] = c[i]
  <2>1. 2 + i \in 1..(2 + Len(c)) /\ ~ (2 + i <= 2) /\ (2 + i) - 2 = i
    BY <1>11
  <2> QED
    BY <1>11, <2>1
<1> QED
  BY <1>3, <1>5, <1>8, <1>10, <1>11, <1>12, <1>13

\* A line and its end behind a text.
LEMMA AddLine ==
    ASSUME NEW m \in Text, NEW l \in Text, NEW t, t = m \o (l \o EOL)
    PROVE  /\ t \in Text /\ Len(t) = Len(m) + Len(l) + 2
           /\ \A i \in 1..Len(m) : t[i] = m[i]
           /\ LineAt(t, Len(m), Len(t), l)
<1>1. EOL \in Text /\ Len(EOL) = 2 /\ EOL[1] = "CR" /\ EOL[2] = "LF"
  <2>1. "CR" \in Token /\ "LF" \in Token
    BY DEF Token
  <2>2. <<"CR", "LF">> \in Seq(Token)
    BY <2>1
  <2> QED
    BY <2>2 DEF EOL, Text
<1>2. Len(m) \in Nat /\ Len(l) \in Nat
  BY DEF Text
<1>3. PICK u : u = l \o EOL
  OBVIOUS
<1>4. /\ u \in Text /\ Len(u) = Len(l) + 2
      /\ \A i \in 1..(Len(l) + 2) : u[i] = IF i <= Len(l) THEN l[i] ELSE EOL[i - Len(l)]
  <2>1. /\ l \o EOL \in Text /\ Len(l \o EOL) = Len(l) + Len(EOL)
        /\ \A i \in 1..(Len(l) + Len(EOL)) :
               (l \o EOL)[i] = IF i <= Len(l) THEN l[i] ELSE EOL[i - Len(l)]
    BY <1>1, ConcatProperties DEF Text
  <2> QED
    BY <1>1, <1>3, <2>1
<1>5. /\ t \in Text /\ Len(t) = Len(m) + Len(u)
      /\ \A i \in 1..(Len(m) + Len(u)) : t[i] = IF i <= Len(m) THEN m[i] ELSE u[i - Len(m)]
  <2>1. t = m \o u
    BY <1>3
  <2>2. /\ m \o u \in Text /\ Len(m \o u) = Len(m) + Len(u)
        /\ \A i \in 1..(Len(m) + Len(u)) :
               (m \o u)[i] = IF i <= Len(m) THEN m[i] ELSE u[i - Len(m)]
    <3>1. m \in Seq(Token) /\ u \in Seq(Token)
      BY <1>4 DEF Text
    <3> QED
      BY <3>1, ConcatProperties DEF Text
  <2> QED
    BY <2>1, <2>2
<1>6. Len(t) = Len(m) + Len(l) + 2
  BY <1>2, <1>4, <1>5
<1>7. \A i \in 1..Len(m) : t[i] = m[i]
  BY <1>2, <1>4, <1>5
<1>8. ASSUME NEW i \in 1..(Len(l) + 2)
      PROVE  t[Len(m) + i] = u[i]
  <2>1. /\ Len(m) + i \in 1..(Len(m) + Len(u)) /\ ~ (Len(m) + i <= Len(m))
        /\ (Len(m) + i) - Len(m) = i
    BY <1>2, <1>4
  <2> QED
    BY <1>5, <2>1
<1>9. \A i \in 1..Len(l) : t[Len(m) + i] = l[i]
  <2> SUFFICES ASSUME NEW i \in 1..Len(l)
               PROVE  t[Len(m) + i] = l[i]
    OBVIOUS
  <2>1. i \in 1..(Len(l) + 2) /\ i <= Len(l)
    BY <1>2
  <2> QED
    BY <1>4, <1>8, <2>1
<1>10. t[Len(m) + Len(l) + 1] = "CR" /\ t[Len(m) + Len(l) + 2] = "LF"
  <2>1. /\ Len(l) + 1 \in 1..(Len(l) + 2) /\ Len(l) + 2 \in 1..(Len(l) + 2)
        /\ ~ (Len(l) + 1 <= Len(l)) /\ ~ (Len(l) + 2 <= Len(l))
        /\ (Len(l) + 1) - Len(l) = 1 /\ (Len(l) + 2) - Len(l) = 2
    BY <1>2
  <2>2. u[Len(l) + 1] = "CR" /\ u[Len(l) + 2] = "LF"
    BY <1>1, <1>4, <2>1
  <2>3. t[Len(m) + (Len(l) + 1)] = "CR" /\ t[Len(m) + (Len(l) + 2)] = "LF"
    BY <1>8, <2>1, <2>2
  <2>4. Len(m) + (Len(l) + 1) = Len(m) + Len(l) + 1 /\ Len(m) + (Len(l) + 2) = Len(m) + Len(l) + 2
    BY <1>2
  <2> QED
    BY <2>3, <2>4
<1>11. LineAt(t, Len(m), Len(t), l)
  <2>1. Len(t) = Len(m) + Len(l) + 2 /\ Len(t) <= Len(t)
    BY <1>2, <1>6
  <2> QED
    BY <1>9, <1>10, <2>1 DEF LineAt
<1> QED
  BY <1>5, <1>6, <1>7, <1>11

\* A longer text has the same lines.
LEMMA LineStays ==
    ASSUME NEW m, NEW t, Len(m) \in Nat, Len(t) \in Nat, Len(m) <= Len(t),
           \A i \in 1..Len(m) : t[i] = m[i],
           NEW b \in Nat, NEW e, NEW l \in Text, LineAt(m, b, e, l)
    PROVE  LineAt(t, b, e, l)
<1>1. Len(l) \in Nat /\ e = b + Len(l) + 2 /\ e <= Len(m)
  BY DEF LineAt, Text
<1>2. e <= Len(t)
  BY <1>1
<1>3. ASSUME NEW i \in 1..Len(l)
      PROVE  t[b + i] = l[i]
  <2>1. b + i \in 1..Len(m)
    BY <1>1
  <2> QED
    BY <2>1 DEF LineAt
<1>4. b + Len(l) + 1 \in 1..Len(m) /\ b + Len(l) + 2 \in 1..Len(m)
  BY <1>1
<1>5. t[b + Len(l) + 1] = "CR" /\ t[b + Len(l) + 2] = "LF"
  BY <1>4 DEF LineAt
<1> QED
  BY <1>1, <1>2, <1>3, <1>5 DEF LineAt

\* m consists of the first k lines of r.
HasLines(m, r, k) ==
    \E ends \in [0..k -> Nat] :
        /\ ends[0] = 0 /\ ends[k] = Len(m)
        /\ \A j \in 1..k : LineAt(m, ends[j - 1], ends[j], FieldLine(r, r.layout[j]))

LEMMA AddField ==
    ASSUME NEW r \in Requests, NEW m \in Text, NEW k \in Nat, k < Len(r.layout),
           HasLines(m, r, k), NEW t,
           t = m \o (FieldLine(r, r.layout[k + 1]) \o EOL)
    PROVE  t \in Text /\ HasLines(t, r, k + 1)
<1>1. r.layout \in Seq(FieldNames) /\ Len(r.layout) \in 1..3
  BY TextAssumption DEF Requests, FieldNames
<1>2. ASSUME NEW j \in 1..(k + 1)
      PROVE  r.layout[j] \in FieldNames /\ FieldLine(r, r.layout[j]) \in Text
  <2>1. j \in 1..Len(r.layout)
    BY <1>1
  <2>2. r.layout[j] \in FieldNames
    BY <1>1, <2>1, ElementOfSeq
  <2> QED
    BY <2>2, FieldLineIs
<1>3. PICK l \in Text : l = FieldLine(r, r.layout[k + 1])
  BY <1>2
<1>4. /\ t \in Text /\ Len(t) = Len(m) + Len(l) + 2
      /\ \A i \in 1..Len(m) : t[i] = m[i]
      /\ LineAt(t, Len(m), Len(t), l)
  <2>1. t = m \o (l \o EOL)
    BY <1>3
  <2> QED
    BY <2>1, AddLine
<1>5. Len(m) \in Nat /\ Len(t) \in Nat /\ Len(l) \in Nat
  BY <1>4 DEF Text
<1>6. PICK ends \in [0..k -> Nat] :
        /\ ends[0] = 0 /\ ends[k] = Len(m)
        /\ \A j \in 1..k : LineAt(m, ends[j - 1], ends[j], FieldLine(r, r.layout[j]))
  BY DEF HasLines
<1>7. PICK new : new = [j \in 0..(k + 1) |-> IF j = k + 1 THEN Len(t) ELSE ends[j]]
  OBVIOUS
<1>8. /\ new \in [0..(k + 1) -> Nat] /\ new[k + 1] = Len(t)
      /\ \A j \in 0..k : new[j] = ends[j]
  <2>1. ASSUME NEW j \in 0..(k + 1), j # k + 1
        PROVE  j \in 0..k
    BY <2>1
  <2>2. ASSUME NEW j \in 0..k
        PROVE  j \in 0..(k + 1) /\ j # k + 1
    OBVIOUS
  <2>3. k + 1 \in 0..(k + 1)
    OBVIOUS
  <2> QED
    BY <1>5, <1>7, <2>1, <2>2, <2>3
<1>9. new[0] = 0
  BY <1>6, <1>8
<1>10. ASSUME NEW j \in 1..(k + 1)
       PROVE  LineAt(t, new[j - 1], new[j], FieldLine(r, r.layout[j]))
  <2>1. CASE j = k + 1
    <3>1. j - 1 = k /\ k \in 0..k
      BY <2>1
    <3>2. new[j - 1] = Len(m) /\ new[j] = Len(t)
      BY <1>6, <1>8, <2>1, <3>1
    <3> QED
      BY <1>3, <1>4, <2>1, <3>2
  <2>2. CASE j # k + 1
    <3>1. j \in 1..k /\ j \in 0..k /\ j - 1 \in 0..k
      BY <2>2
    <3>2. LineAt(m, ends[j - 1], ends[j], FieldLine(r, r.layout[j])) /\ ends[j - 1] \in Nat
      BY <1>6, <3>1
    <3>3. Len(m) <= Len(t)
      BY <1>4, <1>5
    <3>4. LineAt(t, ends[j - 1], ends[j], FieldLine(r, r.layout[j]))
      <4>1. PICK x \in Text : x = FieldLine(r, r.layout[j])
        BY <1>2
      <4>2. PICK a \in Nat, e \in Nat : a = ends[j - 1] /\ e = ends[j]
        BY <3>1, <3>2
      <4>3. LineAt(m, a, e, x)
        BY <3>2, <4>1, <4>2
      <4>4. \A i \in 1..Len(m) : t[i] = m[i]
        BY <1>4
      <4>5. LineAt(t, a, e, x)
        BY <1>5, <3>3, <4>3, <4>4, LineStays
      <4> QED
        BY <4>1, <4>2, <4>5
    <3> QED
      BY <1>8, <3>1, <3>4
  <2> QED
    BY <2>1, <2>2
<1>11. HasLines(t, r, k + 1)
  BY <1>8, <1>9, <1>10 DEF HasLines
<1> QED
  BY <1>4, <1>11

\* What a client writes has the shape that it should have.
LEMMA MessageShape ==
    ASSUME NEW r \in Requests
    PROVE  Message(r) \in Text /\ \E ends : Shape(Message(r), r, ends)
<1> DEFINE n == Len(r.layout)
           line(i) == IF i \in DOMAIN r.layout
                      THEN FieldLine(r, r.layout[i]) \o EOL ELSE <<>>
           upto(i) == IF i <= n THEN i ELSE n
<1>1. n \in 1..3 /\ DOMAIN r.layout = 1..n
  <2>1. r.layout \in Layouts
    BY DEF Requests
  <2>2. r.layout \in Seq(FieldNames) /\ Len(r.layout) \in 1..3
    BY <2>1, TextAssumption DEF FieldNames
  <2> QED
    BY <2>2, LenProperties
<1>2. ASSUME NEW i \in 0..2, NEW m \in Text, HasLines(m, r, upto(i))
      PROVE  m \o line(i + 1) \in Text /\ HasLines(m \o line(i + 1), r, upto(i + 1))
  <2>1. CASE i < n
    <3>1. upto(i) = i /\ upto(i + 1) = i + 1 /\ i \in Nat
      BY <1>1, <2>1
    <3>2. line(i + 1) = FieldLine(r, r.layout[i + 1]) \o EOL
      BY <1>1, <2>1
    <3> HIDE DEF line, upto
    <3> QED
      BY <1>2, <2>1, <3>1, <3>2, AddField
  <2>2. CASE ~ (i < n)
    <3>1. upto(i) = n /\ upto(i + 1) = n
      BY <1>1, <2>2
    <3>2. line(i + 1) = <<>>
      BY <1>1, <2>2
    <3>3. m \o <<>> = m
      BY ConcatEmptySeq DEF Text
    <3> HIDE DEF line, upto
    <3> QED
      BY <1>2, <3>1, <3>2, <3>3
  <2> QED
    BY <2>1, <2>2
<1>3. <<>> \in Text /\ HasLines(<<>>, r, upto(0))
  <2>1. <<>> \in Text /\ Len(<<>>) = 0
    BY EmptySeq DEF Text
  <2>2. upto(0) = 0
    BY <1>1
  <2>3. PICK f : f = [j \in 0..0 |-> 0]
    OBVIOUS
  <2>4. f \in [0..0 -> Nat] /\ f[0] = 0 /\ 1..0 = {}
    BY <2>3
  <2>5. HasLines(<<>>, r, 0)
    BY <2>1, <2>4 DEF HasLines
  <2> QED
    BY <2>1, <2>2, <2>5
<1>4. PICK t : t = line(1) \o line(2) \o line(3)
  OBVIOUS
<1>5. Message(r) = t \o EOL
  BY <1>4 DEF Message
<1>6. upto(3) = n
  <2>1. n = 1 \/ n = 2 \/ n = 3
    BY <1>1
  <2> QED
    BY <2>1
<1> HIDE DEF upto, line
<1>7. line(1) \in Text /\ HasLines(line(1), r, upto(1))
  <2>1. <<>> \o line(1) \in Text /\ HasLines(<<>> \o line(1), r, upto(1))
    <3>1. 0 \in 0..2 /\ 0 + 1 = 1
      OBVIOUS
    <3>2. <<>> \o line(0 + 1) \in Text /\ HasLines(<<>> \o line(0 + 1), r, upto(0 + 1))
      BY <1>2, <1>3, <3>1
    <3> QED
      BY <3>1, <3>2
  <2>2. <<>> \o line(1) = line(1)
    <3>1. line(1) \in Text
      <4>1. 1 \in 1..n
        BY <1>1
      <4>2. r.layout[1] \in FieldNames
        BY <1>1, <4>1, ElementOfSeq, TextAssumption DEF Requests, FieldNames
      <4>3. PICK l \in Text : l = FieldLine(r, r.layout[1])
        BY <4>2, FieldLineIs
      <4>4. <<"CR", "LF">> \in Seq(Token)
        <5>1. "CR" \in Token /\ "LF" \in Token
          BY DEF Token
        <5> QED
          BY <5>1
      <4>5. l \o EOL \in Text
        BY <4>4, ConcatProperties DEF EOL, Text
      <4> QED
        BY <1>1, <4>1, <4>3, <4>5 DEF line
    <3> QED
      BY <3>1, ConcatEmptySeq DEF Text
  <2> QED
    BY <2>1, <2>2
<1>8. line(1) \o line(2) \in Text /\ HasLines(line(1) \o line(2), r, upto(2))
  <2>1. 1 \in 0..2 /\ 1 + 1 = 2
    OBVIOUS
  <2>2. line(1) \o line(1 + 1) \in Text /\ HasLines(line(1) \o line(1 + 1), r, upto(1 + 1))
    BY <1>2, <1>7, <2>1
  <2> QED
    BY <2>1, <2>2
<1>9. t \in Text /\ HasLines(t, r, n)
  <2>1. 2 \in 0..2 /\ 2 + 1 = 3
    OBVIOUS
  <2>2. PICK s \in Text : s = line(1) \o line(2) /\ HasLines(s, r, upto(2))
    BY <1>8
  <2>3. s \o line(2 + 1) \in Text /\ HasLines(s \o line(2 + 1), r, upto(2 + 1))
    BY <1>2, <2>1, <2>2
  <2> QED
    BY <1>4, <1>6, <2>1, <2>2, <2>3
<1>10. PICK ends \in [0..n -> Nat] :
        /\ ends[0] = 0 /\ ends[n] = Len(t)
        /\ \A j \in 1..n : LineAt(t, ends[j - 1], ends[j], FieldLine(r, r.layout[j]))
  BY <1>9 DEF HasLines
<1>11. PICK m : m = Message(r)
  OBVIOUS
<1>12. /\ m \in Text /\ Len(m) = Len(t) + 0 + 2
       /\ \A i \in 1..Len(t) : m[i] = t[i]
       /\ LineAt(m, Len(t), Len(m), <<>>)
  <2>1. EOL = <<>> \o EOL
    <3>1. "CR" \in Token /\ "LF" \in Token
      BY DEF Token
    <3>2. <<"CR", "LF">> \in Seq(Token)
      BY <3>1
    <3> QED
      BY <3>2, ConcatEmptySeq DEF EOL
  <2>2. m = t \o (<<>> \o EOL)
    BY <1>5, <1>11, <2>1
  <2>3. PICK z \in Text : z = <<>> /\ Len(z) = 0
    BY <1>3
  <2>4. t \in Text /\ m = t \o (z \o EOL)
    BY <1>9, <2>2, <2>3
  <2>5. /\ m \in Text /\ Len(m) = Len(t) + Len(z) + 2
        /\ \A i \in 1..Len(t) : m[i] = t[i]
        /\ LineAt(m, Len(t), Len(m), z)
    BY <2>4, AddLine
  <2> QED
    BY <2>3, <2>5
<1>13. ASSUME NEW j \in 1..n
       PROVE  LineAt(m, ends[j - 1], ends[j], FieldLine(r, r.layout[j]))
  <2>1. r.layout[j] \in FieldNames
    BY <1>1, ElementOfSeq, TextAssumption DEF Requests, FieldNames
  <2>2. FieldLine(r, r.layout[j]) \in Text
    BY <2>1, FieldLineIs
  <2>3. j - 1 \in 0..n
    BY <1>1
  <2>4. ends[j - 1] \in Nat /\ LineAt(t, ends[j - 1], ends[j], FieldLine(r, r.layout[j]))
    BY <1>10, <2>3
  <2>5. Len(t) \in Nat /\ Len(m) \in Nat /\ Len(t) <= Len(m)
    BY <1>9, <1>12 DEF Text
  <2> QED
    BY <1>12, <2>2, <2>4, <2>5, LineStays
<1>14. Shape(m, r, ends)
  BY <1>10, <1>12, <1>13 DEF Shape
<1> QED
  BY <1>11, <1>12, <1>14

----------------------------------------------------------------------------
(* What the parser makes of a message.                                     *)

LEMMA LayoutIs ==
    ASSUME NEW r \in Requests
    PROVE  /\ Len(r.layout) \in 1..3 /\ DOMAIN r.layout = 1..Len(r.layout)
           /\ \A j \in 1..Len(r.layout) : r.layout[j] \in FieldNames
<1>1. r.layout \in Layouts
  BY DEF Requests
<1>2. r.layout \in Seq(FieldNames) /\ Len(r.layout) \in 1..3
  BY <1>1, TextAssumption DEF FieldNames
<1> QED
  BY <1>2, LenProperties, ElementOfSeq

\* No line of such a request has a line feed in it.
LEMMA FieldLineNoLineFeed ==
    ASSUME NEW r \in Requests, OneLine(r), NEW name \in FieldNames
    PROVE  NoLineFeed(FieldLine(r, name))
<1>1. r.method \in Methods /\ r.key \in Text /\ r.value \in Text
  BY TextAssumption, StringsAreText DEF Requests
<1>2. r.method # "LF"
  BY <1>1, TextAssumption
<1>3. PICK c : c = r.key \o r.value
  OBVIOUS
<1>4. /\ c \in Text /\ Len(c) = Len(r.key) + Len(r.value)
      /\ \A i \in 1..(Len(r.key) + Len(r.value)) :
             c[i] = IF i <= Len(r.key) THEN r.key[i] ELSE r.value[i - Len(r.key)]
  BY <1>1, <1>3, ConcatProperties DEF Text
<1>5. Len(r.key) \in Nat /\ Len(r.value) \in Nat
  BY <1>1 DEF Text
<1>0. PICK a \in Nat, d \in Nat : a = Len(r.key) /\ d = Len(r.value) /\ Len(c) = a + d
  BY <1>4, <1>5
<1>6. \A i \in 1..Len(c) : c[i] # "LF"
  <2>1. c \in Seq(Token)
    BY <1>4 DEF Text
  <2>2. Places("LF", c) = {i \in 1..Len(c) : c[i] = "LF"}
    BY <2>1, PlacesIn
  <2> QED
    BY <1>3, <2>2 DEF OneLine
<1>7. NoLineFeed(r.key)
  <2> SUFFICES ASSUME NEW i \in 1..Len(r.key)
               PROVE  r.key[i] # "LF"
    BY DEF NoLineFeed
  <2>1. i \in 1..Len(c) /\ i \in 1..(Len(r.key) + Len(r.value)) /\ i <= Len(r.key)
    <3>1. i \in 1..a => i \in 1..(a + d) /\ i <= a
      OBVIOUS
    <3> QED
      BY <1>0, <3>1
  <2> QED
    BY <1>4, <1>6, <2>1
<1>8. NoLineFeed(r.value)
  <2> SUFFICES ASSUME NEW i \in 1..Len(r.value)
               PROVE  r.value[i] # "LF"
    BY DEF NoLineFeed
  <2>1. PICK k : k = Len(r.key) + i
    OBVIOUS
  <2>2. /\ k \in 1..Len(c) /\ k \in 1..(Len(r.key) + Len(r.value))
        /\ ~ (k <= Len(r.key)) /\ k - Len(r.key) = i
    <3>1. i \in 1..d => a + i \in 1..(a + d) /\ ~ (a + i <= a) /\ (a + i) - a = i
      OBVIOUS
    <3> QED
      BY <1>0, <2>1, <3>1
  <2> QED
    BY <1>4, <1>6, <2>2
<1>9. NoLineFeed(<<r.method>>)
  BY <1>2 DEF NoLineFeed
<1>10. NoLineFeed(Content(r, name))
  BY <1>7, <1>8, <1>9 DEF Content, FieldNames
<1>11. PICK l : l = FieldLine(r, name)
  OBVIOUS
<1>12. /\ Len(l) = 2 + Len(Content(r, name)) /\ l[1] = name /\ l[2] = ":"
       /\ \A i \in 1..Len(Content(r, name)) : l[2 + i] = Content(r, name)[i]
       /\ Len(Content(r, name)) \in Nat
  BY <1>11, FieldLineIs DEF Text
<1>13. ASSUME NEW i \in 1..Len(l)
       PROVE  l[i] # "LF"
  <2>1. CASE i = 1
    BY <1>12, <2>1 DEF FieldNames
  <2>2. CASE i = 2
    BY <1>12, <2>2
  <2>3. CASE i # 1 /\ i # 2
    <3>1. i - 2 \in 1..Len(Content(r, name)) /\ 2 + (i - 2) = i
      BY <1>12, <2>3
    <3>2. l[i] = Content(r, name)[i - 2]
      BY <1>12, <3>1
    <3> QED
      BY <1>10, <3>1, <3>2 DEF NoLineFeed
  <2> QED
    BY <2>1, <2>2, <2>3
<1> QED
  BY <1>11, <1>13 DEF NoLineFeed

LEMMA WithinLine ==
    ASSUME NEW m, NEW b \in Nat, NEW e, NEW l \in Text, LineAt(m, b, e, l),
           NoLineFeed(l), NEW i \in Int, b < i, i < e
    PROVE  m[i] # "LF"
<1>1. Len(l) \in Nat /\ e = b + Len(l) + 2
  BY DEF LineAt, Text
<1>2. CASE i - b <= Len(l)
  <2>1. i - b \in 1..Len(l) /\ b + (i - b) = i
    BY <1>1, <1>2
  <2>2. m[i] = l[i - b]
    BY <2>1 DEF LineAt
  <2> QED
    BY <2>1, <2>2 DEF NoLineFeed
<1>3. CASE ~ (i - b <= Len(l))
  <2>1. i = b + Len(l) + 1
    BY <1>1, <1>3
  <2> QED
    BY <2>1 DEF LineAt
<1> QED
  BY <1>2, <1>3

\* getline and the removal of the carriage return give back the line.
LEMMA LineRead ==
    ASSUME NEW m \in Text, NEW b \in Nat, NEW e, NEW l \in Text, LineAt(m, b, e, l),
           NoLineFeed(l)
    PROVE  Line(m, b) = l
<1>1. /\ Len(l) \in Nat /\ Len(m) \in Nat /\ e = b + Len(l) + 2 /\ e <= Len(m)
      /\ \A i \in 1..Len(l) : m[b + i] = l[i]
      /\ m[b + Len(l) + 1] = "CR" /\ m[e] = "LF"
  BY DEF LineAt, Text
<1>2. PICK E : E = {i \in Places("LF", m) : i > b}
  OBVIOUS
<1>3. /\ E \in SUBSET (0..Len(m))
      /\ \A i \in E : i \in 1..Len(m) /\ i > b /\ m[i] = "LF"
      /\ \A i \in 1..Len(m) : i > b /\ m[i] = "LF" => i \in E
  BY <1>2, PlacesIn DEF Text
<1>4. e \in E
  <2>1. e \in 1..Len(m) /\ e > b
    BY <1>1
  <2> QED
    BY <1>1, <1>3, <2>1
<1>5. ASSUME NEW j \in E
      PROVE  e <= j
  <2>1. j \in Int /\ b < j /\ m[j] = "LF" /\ e \in Int
    BY <1>1, <1>3
  <2>2. ~ (j < e)
    BY <2>1, WithinLine
  <2> QED
    BY <2>1, <2>2
<1>6. FirstOf(E) = e
  BY <1>1, <1>3, <1>4, <1>5, FirstOfIs
<1>7. PICK s : s = LineAfter(m, b)
  OBVIOUS
<1>8. s = SubSeq(m, b + 1, e - 1)
  BY <1>2, <1>4, <1>6, <1>7 DEF LineAfter
<1>9. /\ s \in Seq(Token) /\ Len(s) = Len(l) + 1
      /\ \A i \in 1..(Len(l) + 1) : s[i] = m[b + i]
  <2>1. /\ b + 1 \in Int /\ e - 1 \in Int /\ 1 <= b + 1 /\ e - 1 <= Len(m) /\ b + 1 <= e - 1
        /\ (e - 1) - (b + 1) + 1 = Len(l) + 1
    BY <1>1
  <2>2. /\ s \in Seq(Token) /\ Len(s) = Len(l) + 1
        /\ \A i \in 1..(Len(l) + 1) : s[i] = m[(b + 1) + i - 1]
    BY <1>8, <2>1, PartOf DEF Text
  <2>3. \A i \in 1..(Len(l) + 1) : (b + 1) + i - 1 = b + i
    BY <1>1
  <2> QED
    BY <2>2, <2>3
<1>10. s # <<>> /\ s[Len(s)] = "CR" /\ Len(s) - 1 = Len(l)
  <2>1. Len(l) + 1 \in 1..(Len(l) + 1) /\ b + (Len(l) + 1) = b + Len(l) + 1
    BY <1>1
  <2>2. Len(s) # 0 /\ Len(s) - 1 = Len(l)
    BY <1>1, <1>9
  <2>3. s # <<>>
    BY <2>2, EmptySeq
  <2> QED
    BY <1>1, <1>9, <2>1, <2>2, <2>3
<1>11. Line(m, b) = SubSeq(s, 1, Len(l))
  BY <1>7, <1>10 DEF Line, WithoutCR
<1>12. PICK q : q = SubSeq(s, 1, Len(l))
  OBVIOUS
<1>13. /\ q \in Seq(Token) /\ Len(q) = Len(l)
       /\ \A i \in 1..Len(l) : q[i] = s[i]
  <2>1. 1 \in Int /\ Len(l) \in Int /\ 1 <= 1 /\ Len(l) <= Len(s) /\ Len(l) - 1 + 1 = Len(l)
    BY <1>1, <1>9
  <2>2. /\ q \in Seq(Token) /\ Len(q) = IF 1 <= Len(l) THEN Len(l) - 1 + 1 ELSE 0
        /\ \A i \in 1..(Len(l) - 1 + 1) : q[i] = s[1 + i - 1]
    BY <1>9, <1>12, <2>1, PartOf
  <2>3. \A i \in 1..Len(l) : 1 + i - 1 = i
    BY <1>1
  <2>4. Len(q) = Len(l)
    BY <1>1, <2>1, <2>2
  <2> QED
    BY <2>1, <2>2, <2>3, <2>4
<1>14. \A i \in 1..Len(l) : q[i] = l[i]
  <2>1. \A i \in 1..Len(l) : i \in 1..(Len(l) + 1)
    BY <1>1
  <2> QED
    BY <1>1, <1>9, <1>13, <2>1
<1>15. q = l
  <2>1. l \in Seq(Token)
    BY DEF Text
  <2> QED
    BY <1>13, <1>14, <2>1, SeqEqual
<1> QED
  BY <1>11, <1>12, <1>15

\* Behind the last line feed there is nothing.
LEMMA NothingBehind ==
    ASSUME NEW m \in Text
    PROVE  Line(m, Len(m)) = <<>>
<1>1. Len(m) \in Nat
  BY DEF Text
<1>2. {i \in Places("LF", m) : i > Len(m)} = {}
  <2>1. Places("LF", m) = {i \in 1..Len(m) : m[i] = "LF"}
    BY PlacesIn DEF Text
  <2> QED
    BY <1>1, <2>1
<1>3. LineAfter(m, Len(m)) = SubSeq(m, Len(m) + 1, Len(m))
  BY <1>2 DEF LineAfter
<1>4. SubSeq(m, Len(m) + 1, Len(m)) = <<>>
  BY <1>1, SubSeqEmpty
<1> QED
  BY <1>3, <1>4 DEF Line, WithoutCR

\* The lines of a message begin at its begin and behind its line feeds.
LEMMA LineStarts ==
    ASSUME NEW r \in Requests, OneLine(r), NEW m \in Text, NEW ends, Shape(m, r, ends)
    PROVE  /\ \A p \in Places("LF", m) :
                  p = Len(m) \/ \E j \in 1..Len(r.layout) : p = ends[j]
           /\ \A j \in 1..Len(r.layout) : ends[j] \in Places("LF", m)
<1>1. PICK n \in 1..3 : n = Len(r.layout)
  BY LayoutIs
<1>2. /\ ends \in [0..n -> Nat] /\ ends[0] = 0
      /\ \A j \in 1..n : LineAt(m, ends[j - 1], ends[j], FieldLine(r, r.layout[j]))
      /\ LineAt(m, ends[n], Len(m), <<>>)
  BY <1>1 DEF Shape
<1>3. \A j \in 1..n : /\ FieldLine(r, r.layout[j]) \in Text
                      /\ NoLineFeed(FieldLine(r, r.layout[j]))
  BY <1>1, LayoutIs, FieldLineIs, FieldLineNoLineFeed
<1>4. Places("LF", m) = {i \in 1..Len(m) : m[i] = "LF"} /\ Len(m) \in Nat
  BY PlacesIn DEF Text
<1>5. ASSUME NEW p \in 1..Len(m), m[p] = "LF", p # Len(m), \A j \in 1..n : p # ends[j]
      PROVE  FALSE
  <2>1. PICK J : J = {j \in 1..n : p <= ends[j]}
    OBVIOUS
  <2>2. CASE J = {}
    <3>1. n \in 1..n /\ ends[n] \in Nat
      BY <1>2
    <3>2. ends[n] < p
      BY <2>1, <2>2, <3>1
    <3>3. <<>> \in Text /\ NoLineFeed(<<>>)
      BY EmptySeq DEF Text, NoLineFeed
    <3>4. p \in Int /\ p < Len(m)
      BY <1>4, <1>5
    <3> QED
      BY <1>2, <1>5, <3>1, <3>2, <3>3, <3>4, WithinLine
  <2>3. CASE J # {}
    <3>1. J \in SUBSET (0..n) /\ J \in SUBSET (1..n) /\ n \in Nat
      BY <2>1
    <3>2. PICK j \in J : \A k \in J : j <= k
      <4>1. FirstOf(J) \in J /\ \A k \in J : FirstOf(J) <= k
        BY <2>3, <3>1, FirstOfIs
      <4> QED
        BY <4>1
    <3>3. j \in 1..n /\ p <= ends[j] /\ j - 1 \in 0..n /\ j \in 0..n
      BY <2>1, <3>1
    <3>4. ends[j - 1] \in Nat /\ ends[j] \in Nat
      BY <1>2, <3>3
    <3>5. p < ends[j]
      BY <1>5, <3>3, <3>4
    <3>6. ends[j - 1] < p
      <4>1. CASE j = 1
        <5>1. j - 1 = 0
          BY <4>1
        <5> QED
          BY <1>2, <5>1
      <4>2. CASE j # 1
        <5>1. j - 1 \in 1..n /\ ~ (j <= j - 1)
          BY <3>3, <4>2
        <5>2. j - 1 \notin J
          BY <3>2, <5>1
        <5>3. ~ (p <= ends[j - 1])
          BY <2>1, <5>1, <5>2
        <5> QED
          BY <3>4, <5>3
      <4> QED
        BY <4>1, <4>2
    <3> QED
      BY <1>2, <1>3, <1>5, <3>3, <3>4, <3>5, <3>6, WithinLine
  <2> QED
    BY <2>2, <2>3
<1>6. ASSUME NEW j \in 1..n
      PROVE  ends[j] \in 1..Len(m) /\ m[ends[j]] = "LF"
  <2>1. j - 1 \in 0..n
    OBVIOUS
  <2>2. PICK b \in Nat : b = ends[j - 1]
    BY <1>2, <2>1
  <2>3. PICK l \in Text : l = FieldLine(r, r.layout[j])
    BY <1>3
  <2>4. LineAt(m, b, ends[j], l) /\ Len(l) \in Nat
    BY <1>2, <2>2, <2>3 DEF Text
  <2>5. /\ ends[j] = b + Len(l) + 2 /\ ends[j] <= Len(m)
        /\ m[b + Len(l) + 2] = "LF"
    BY <2>4 DEF LineAt
  <2>6. b + Len(l) + 2 \in Nat /\ b + Len(l) + 2 >= 1
    BY <2>4
  <2> QED
    BY <1>4, <2>5, <2>6
<1> QED
  BY <1>1, <1>4, <1>5, <1>6

Blank == " "

\* Trimming a word leaves it.
LEMMA TrimWord ==
    ASSUME NEW w \in Token, w # Blank
    PROVE  Trim(<<w>>) = <<w>>
<1>1. PICK x : x = <<w>>
  OBVIOUS
<1>2. x \in Seq(Token) /\ Len(x) = 1 /\ x[1] = w /\ DOMAIN x = 1..1
  <2>1. <<w>> \in Seq(Token) /\ Len(<<w>>) = 1 /\ <<w>>[1] = w
    OBVIOUS
  <2>2. x \in Seq(Token) /\ Len(x) = 1 /\ x[1] = w
    BY <1>1, <2>1
  <2> QED
    BY <2>2, LenProperties
<1>3. DOMAIN x \ Places(Blank, x) = {1}
  <2>1. 1..1 = {1}
    OBVIOUS
  <2>2. Places(Blank, x) = {}
    BY <1>2, <2>1 DEF Places
  <2> QED
    BY <1>2, <2>1, <2>2
<1>4. PICK B : B = {1}
  OBVIOUS
<1>5. B \in SUBSET (0..1) /\ B # {} /\ 1 \in Nat
  <2>1. 1 \in 0..1 /\ 1 \in Nat
    OBVIOUS
  <2> QED
    BY <1>4, <2>1
<1>6. FirstOf(B) = 1 /\ LastOf(B) = 1
  BY <1>4, <1>5, FirstOfIs, LastOfIs
<1>7. Trim(x) = SubSeq(x, 1, 1)
  <2>1. DOMAIN x \ Places(" ", x) = B
    BY <1>3, <1>4 DEF Blank
  <2> QED
    BY <1>5, <1>6, <2>1 DEF Trim
<1>8. SubSeq(x, 1, 1) = x
  <2>1. PICK s : s = SubSeq(x, 1, 1)
    OBVIOUS
  <2>2. 1 \in Int /\ 1 <= 1 /\ 1 - 1 + 1 = 1 /\ 1 + 1 - 1 = 1 /\ 1 \in 1..1
    OBVIOUS
  <2>3. /\ s \in Seq(Token) /\ Len(s) = IF 1 <= 1 THEN 1 - 1 + 1 ELSE 0
        /\ \A i \in 1..(1 - 1 + 1) : s[i] = x[1 + i - 1]
    BY <1>2, <2>1, <2>2, PartOf
  <2>4. Len(s) = Len(x) /\ s[1] = x[1]
    BY <1>2, <2>2, <2>3
  <2>5. \A i \in 1..Len(s) : s[i] = x[i]
    <3>1. \A i \in 1..Len(s) : i = 1
      BY <1>2, <2>4
    <3> QED
      BY <2>4, <3>1
  <2>6. s = x
    BY <1>2, <2>3, <2>4, <2>5, SeqEqual
  <2> QED
    BY <2>1, <2>6
<1> QED
  BY <1>1, <1>7, <1>8

\* What the parser finds in a line of a client.
LEMMA FieldFound ==
    ASSUME NEW r \in Requests, NEW name \in FieldNames
    PROVE  /\ Places(":", FieldLine(r, name)) # {}
           /\ FieldName(FieldLine(r, name)) = <<name>>
           /\ FieldValue(FieldLine(r, name)) = Trim(Content(r, name))
<1>1. PICK l : l = FieldLine(r, name)
  OBVIOUS
<1>2. PICK c : c = Content(r, name)
  OBVIOUS
<1>3. /\ c \in Seq(Token) /\ l \in Seq(Token) /\ Len(l) = 2 + Len(c)
      /\ l[1] = name /\ l[2] = ":"
      /\ \A i \in 1..Len(c) : l[2 + i] = c[i]
  BY <1>1, <1>2, FieldLineIs DEF Text
<1>4. Len(c) \in Nat /\ Len(l) \in Nat /\ Len(l) = 2 + Len(c)
  BY <1>3
<1>5. /\ Places(":", l) = {i \in 1..Len(l) : l[i] = ":"}
      /\ Places(":", l) \in SUBSET (0..Len(l))
  BY <1>3, PlacesIn
<1>6. 2 \in Places(":", l)
  BY <1>3, <1>4, <1>5
<1>7. \A j \in Places(":", l) : 2 <= j
  <2>1. l[1] # ":"
    BY <1>3 DEF FieldNames
  <2> QED
    BY <1>4, <1>5, <2>1
<1>8. ColonOf(l) = 2
  BY <1>4, <1>5, <1>6, <1>7, FirstOfIs DEF ColonOf
<1>9. FieldName(l) = <<name>>
  <2>1. PICK s : s = SubSeq(l, 1, 2 - 1)
    OBVIOUS
  <2>2. s \in Seq(Token) /\ Len(s) = 1 /\ s[1] = name
    <3>1. 1 \in Int /\ 2 - 1 = 1 /\ 1 <= 1 /\ 1 <= Len(l) /\ 1 - 1 + 1 = 1 /\ 1 + 1 - 1 = 1 /\ 1 \in 1..1
      BY <1>4
    <3>2. s = SubSeq(l, 1, 1)
      BY <2>1, <3>1
    <3>3. /\ s \in Seq(Token) /\ Len(s) = IF 1 <= 1 THEN 1 - 1 + 1 ELSE 0
          /\ \A i \in 1..(1 - 1 + 1) : s[i] = l[1 + i - 1]
      BY <1>3, <3>1, <3>2, PartOf
    <3> QED
      BY <1>3, <3>1, <3>3
  <2>3. s = <<name>>
    <3>1. name \in Token
      BY DEF FieldNames, Token
    <3>2. <<name>> \in Seq(Token) /\ Len(<<name>>) = 1 /\ <<name>>[1] = name
      BY <3>1
    <3>3. \A i \in 1..Len(s) : i = 1
      BY <2>2
    <3> QED
      BY <2>2, <3>2, <3>3, SeqEqual
  <2>4. name \in Token /\ name # Blank
    BY DEF FieldNames, Token, Blank
  <2> QED
    BY <1>8, <2>1, <2>3, <2>4, TrimWord DEF FieldName
<1>10. FieldValue(l) = Trim(c)
  <2>1. PICK s : s = SubSeq(l, 2 + 1, Len(l))
    OBVIOUS
  <2>2. /\ s \in Seq(Token) /\ Len(s) = Len(c)
        /\ \A i \in 1..Len(c) : s[i] = l[2 + i]
    <3>1. 3 \in Int /\ 2 + 1 = 3 /\ 1 <= 3 /\ Len(l) \in Int /\ Len(l) <= Len(l)
      BY <1>4
    <3>2. s = SubSeq(l, 3, Len(l))
      BY <2>1, <3>1
    <3>3. /\ s \in Seq(Token) /\ Len(s) = IF 3 <= Len(l) THEN Len(l) - 3 + 1 ELSE 0
          /\ \A i \in 1..(Len(l) - 3 + 1) : s[i] = l[3 + i - 1]
      BY <1>3, <3>1, <3>2, PartOf
    <3>4. Len(s) = Len(c) /\ Len(l) - 3 + 1 = Len(c)
      BY <1>4, <3>3
    <3>5. \A i \in 1..Len(c) : 3 + i - 1 = 2 + i
      BY <1>4
    <3> QED
      BY <3>3, <3>4, <3>5
  <2>3. s = c
    BY <1>3, <2>2, SeqEqual
  <2> QED
    BY <1>8, <2>1, <2>3 DEF FieldValue
<1> QED
  BY <1>1, <1>2, <1>6, <1>9, <1>10

\* Each field is found where the request has it, and nowhere else.
LEMMA FieldParsed ==
    ASSUME NEW r \in Requests, OneLine(r), NEW m \in Text, NEW ends, Shape(m, r, ends),
           NEW name \in FieldNames
    PROVE  /\ Has(m, name) <=> name \in Lines(r)
           /\ Has(m, name) => parse_fields(m, name) = Trim(Content(r, name))
<1>1. PICK n \in 1..3 : n = Len(r.layout)
  BY LayoutIs
<1>2. /\ ends \in [0..n -> Nat] /\ ends[0] = 0
      /\ \A j \in 1..n : LineAt(m, ends[j - 1], ends[j], FieldLine(r, r.layout[j]))
      /\ LineAt(m, ends[n], Len(m), <<>>)
  BY <1>1 DEF Shape
<1>3. \A j \in 1..n : r.layout[j] \in FieldNames
  BY <1>1, LayoutIs
<1>4. ASSUME NEW j \in 1..n
      PROVE  Line(m, ends[j - 1]) = FieldLine(r, r.layout[j])
  <2>1. j - 1 \in 0..n
    OBVIOUS
  <2>2. ends[j - 1] \in Nat
    BY <1>2, <2>1
  <2>3. /\ FieldLine(r, r.layout[j]) \in Text /\ NoLineFeed(FieldLine(r, r.layout[j]))
    BY <1>3, FieldLineIs, FieldLineNoLineFeed
  <2> QED
    BY <1>2, <2>2, <2>3, LineRead
<1>5. /\ \A p \in Places("LF", m) : p = Len(m) \/ \E j \in 1..n : p = ends[j]
      /\ \A j \in 1..n : ends[j] \in Places("LF", m)
  BY <1>1, LineStarts
<1>6. \A j \in 1..n : ends[j - 1] \in {0} \cup Places("LF", m)
  <2> SUFFICES ASSUME NEW j \in 1..n
               PROVE  ends[j - 1] \in {0} \cup Places("LF", m)
    OBVIOUS
  <2>1. CASE j = 1
    <3>1. j - 1 = 0
      BY <2>1
    <3> QED
      BY <1>2, <3>1
  <2>2. CASE j # 1
    <3>1. j - 1 \in 1..n
      BY <2>2
    <3> QED
      BY <1>5, <3>1
  <2> QED
    BY <2>1, <2>2
<1>7. ASSUME NEW j \in 1..n, r.layout[j] = name
      PROVE  ends[j - 1] \in LinesOf(m, name)
  <2>1. Line(m, ends[j - 1]) = FieldLine(r, name)
    BY <1>4, <1>7
  <2> QED
    BY <1>6, <2>1, FieldFound DEF LinesOf
<1>8. ASSUME NEW p \in LinesOf(m, name)
      PROVE  \E j \in 1..n : p = ends[j - 1] /\ r.layout[j] = name
  <2>1. /\ p = 0 \/ p \in Places("LF", m)
        /\ Places(":", Line(m, p)) # {} /\ FieldName(Line(m, p)) = <<name>>
    BY DEF LinesOf
  <2>2. Line(m, p) # <<>>
    <3>1. DOMAIN <<>> = {}
      OBVIOUS
    <3>2. Places(":", <<>>) = {}
      BY <3>1 DEF Places
    <3> QED
      BY <2>1, <3>2
  <2>3. p # Len(m)
    BY <2>2, NothingBehind
  <2>4. Line(m, ends[n]) = <<>>
    <3>1. <<>> \in Text /\ NoLineFeed(<<>>)
      BY EmptySeq DEF Text, NoLineFeed
    <3>2. n \in 0..n
      OBVIOUS
    <3>3. ends[n] \in Nat
      BY <1>2, <3>2
    <3> QED
      BY <1>2, <3>1, <3>3, LineRead
  <2>5. PICK j \in 1..n : p = ends[j - 1]
    <3>1. CASE p = 0
      <4>1. 1 \in 1..n /\ 1 - 1 = 0
        OBVIOUS
      <4> QED
        BY <1>2, <3>1, <4>1
    <3>2. CASE p \in Places("LF", m)
      <4>1. PICK k \in 1..n : p = ends[k]
        BY <1>5, <2>3, <3>2
      <4>2. k # n
        BY <2>2, <2>4, <4>1
      <4>3. k + 1 \in 1..n /\ (k + 1) - 1 = k
        BY <4>2
      <4> QED
        BY <4>1, <4>3
    <3> QED
      BY <2>1, <3>1, <3>2
  <2>6. <<r.layout[j]>> = <<name>>
    BY <1>3, <1>4, <2>1, <2>5, FieldFound
  <2>7. r.layout[j] = name
    BY <2>6
  <2> QED
    BY <2>5, <2>7
<1>9. Has(m, name) <=> name \in Lines(r)
  <2>1. name \in Lines(r) <=> \E j \in 1..n : r.layout[j] = name
    BY <1>1, LayoutIs DEF Lines
  <2> QED
    BY <1>7, <1>8, <2>1 DEF Has
<1>10. ASSUME Has(m, name)
       PROVE  parse_fields(m, name) = Trim(Content(r, name))
  <2>1. PICK P : P = LinesOf(m, name)
    OBVIOUS
  <2>2. P \in SUBSET (0..Len(m)) /\ P # {} /\ Len(m) \in Nat
    <3>1. Places("LF", m) \in SUBSET (0..Len(m)) /\ Len(m) \in Nat
      BY PlacesIn DEF Text
    <3>2. 0 \in 0..Len(m)
      BY <3>1
    <3> QED
      BY <1>10, <2>1, <3>1, <3>2 DEF LinesOf, Has
  <2>3. PICK p \in P : p = LastOf(P)
    BY <2>2, LastOfIs
  <2>4. PICK j \in 1..n : p = ends[j - 1] /\ r.layout[j] = name
    BY <1>8, <2>1, <2>3
  <2>5. Line(m, p) = FieldLine(r, name)
    BY <1>4, <2>4
  <2>6. parse_fields(m, name) = FieldValue(Line(m, p))
    BY <2>1, <2>3 DEF parse_fields
  <2> QED
    BY <2>5, <2>6, FieldFound
<1> QED
  BY <1>9, <1>10

\* parse_message takes a request for what it says.
LEMMA MessageParsed ==
    ASSUME NEW r \in Requests, OneLine(r)
    PROVE  parse_message(Message(r)) = Meaning(r)
<1>1. PICK m \in Text : m = Message(r)
  BY MessageShape
<1>2. PICK ends : Shape(m, r, ends)
  BY <1>1, MessageShape
<1>3. \A name \in FieldNames :
        /\ Has(m, name) <=> name \in Lines(r)
        /\ Has(m, name) => parse_fields(m, name) = Trim(Content(r, name))
  BY <1>2, FieldParsed
<1>4. Trim(<<r.method>>) = <<r.method>>
  <2>1. r.method \in STRING /\ r.method # Blank
    BY TextAssumption DEF Requests, Blank
  <2>2. r.method \in Token
    BY <2>1 DEF Token
  <2> QED
    BY <2>1, <2>2, TrimWord
<1>5. /\ Has(m, "Method") <=> "Method" \in Lines(r)
      /\ Has(m, "Key") <=> "Key" \in Lines(r)
      /\ Has(m, "Value") <=> "Value" \in Lines(r)
      /\ Has(m, "Method") => parse_fields(m, "Method") = <<r.method>>
      /\ Has(m, "Key") => parse_fields(m, "Key") = Trim(r.key)
      /\ Has(m, "Value") => parse_fields(m, "Value") = Trim(r.value)
  <2>1. "Method" \in FieldNames /\ "Key" \in FieldNames /\ "Value" \in FieldNames
    BY DEF FieldNames
  <2>2. /\ Content(r, "Method") = <<r.method>> /\ Content(r, "Key") = r.key
        /\ Content(r, "Value") = r.value
    BY DEF Content
  <2> QED
    BY <1>3, <1>4, <2>1, <2>2
<1>6. PICK c : /\ c = string_to_command(<<r.method>>)
               /\ c = IF toupper[r.method] \in {"ADD", "UPDATE", "GET", "DELETE"}
                      THEN toupper[r.method] ELSE "INVALID"
  <2>1. r.method \in Methods
    BY <1>1 DEF Requests
  <2>2. \A n \in Methods : <<r.method>> = <<n>> <=> n = r.method
    OBVIOUS
  <2>3. <<r.method>>[1] = r.method
    OBVIOUS
  <2> QED
    BY <2>1, <2>2, <2>3 DEF string_to_command
<1>7. CASE "Method" \notin Lines(r)
  <2>1. parse_message(m) = Invalid
    BY <1>5, <1>7 DEF parse_message
  <2>2. Meaning(r) = Invalid
    BY <1>7 DEF Meaning
  <2> QED
    BY <1>1, <2>1, <2>2
<1>8. CASE "Method" \in Lines(r)
  <2>1. parse_message(m) =
          IF \/ c = "INVALID" \/ ~ Has(m, "Key")
             \/ ~ Has(m, "Value") /\ c \in {"ADD", "UPDATE"}
          THEN Invalid
          ELSE Command(c, parse_fields(m, "Key"),
                       IF Has(m, "Value") THEN parse_fields(m, "Value") ELSE <<>>)
    BY <1>5, <1>6, <1>8 DEF parse_message
  <2>2. Meaning(r) =
          IF \/ c = "INVALID" \/ "Key" \notin Lines(r)
             \/ "Value" \notin Lines(r) /\ c \in {"ADD", "UPDATE"}
          THEN Invalid
          ELSE Command(c, Trim(r.key), IF "Value" \in Lines(r) THEN Trim(r.value) ELSE <<>>)
    <3>1. {"Method", "Key"} \cup (IF c \in {"ADD", "UPDATE"} THEN {"Value"} ELSE {})
                \subseteq Lines(r)
            <=> "Key" \in Lines(r) /\ (c \in {"ADD", "UPDATE"} => "Value" \in Lines(r))
      BY <1>8
    <3> QED
      BY <1>6, <3>1 DEF Meaning
  <2> QED
    BY <1>1, <1>5, <2>1, <2>2
<1> QED
  BY <1>7, <1>8

----------------------------------------------------------------------------
(* Where the server cuts the stream.                                       *)

\* The end of a message, at position i of B.
EndAt(B, i) == B[i] = "CR" /\ B[i + 1] = "LF" /\ B[i + 2] = "CR" /\ B[i + 3] = "LF"

LEMMA EndFound ==
    ASSUME NEW B \in Text, NEW i \in 1..(Len(B) - 3)
    PROVE  SubSeq(B, i, i + 3) = EOL \o EOL <=> EndAt(B, i)
<1>1. PICK q : q = EOL \o EOL
  OBVIOUS
<1>2. /\ q \in Seq(Token) /\ Len(q) = 4
      /\ q[1] = "CR" /\ q[2] = "LF" /\ q[3] = "CR" /\ q[4] = "LF"
  <2>1. "CR" \in Token /\ "LF" \in Token
    BY DEF Token
  <2>2. <<"CR", "LF">> \in Seq(Token)
    BY <2>1
  <2>3. EOL \in Seq(Token) /\ Len(EOL) = 2 /\ EOL[1] = "CR" /\ EOL[2] = "LF"
    BY <2>2 DEF EOL
  <2>4. /\ EOL \o EOL \in Seq(Token) /\ Len(EOL \o EOL) = Len(EOL) + Len(EOL)
        /\ \A j \in 1..(Len(EOL) + Len(EOL)) :
               (EOL \o EOL)[j] = IF j <= Len(EOL) THEN EOL[j] ELSE EOL[j - Len(EOL)]
    BY <2>3, ConcatProperties
  <2>5. 2 + 2 = 4 /\ 3 - 2 = 1 /\ 4 - 2 = 2
    OBVIOUS
  <2>6. /\ q \in Seq(Token) /\ Len(q) = 4
        /\ \A j \in 1..4 : q[j] = IF j <= 2 THEN EOL[j] ELSE EOL[j - 2]
    BY <1>1, <2>3, <2>4, <2>5
  <2>7. /\ 1 \in 1..4 /\ 2 \in 1..4 /\ 3 \in 1..4 /\ 4 \in 1..4
        /\ 1 <= 2 /\ 2 <= 2 /\ ~ (3 <= 2) /\ ~ (4 <= 2)
    OBVIOUS
  <2> QED
    BY <2>3, <2>5, <2>6, <2>7
<1>3. PICK s : s = SubSeq(B, i, i + 3)
  OBVIOUS
<1>4. /\ s \in Seq(Token) /\ Len(s) = 4
      /\ s[1] = B[i] /\ s[2] = B[i + 1] /\ s[3] = B[i + 2] /\ s[4] = B[i + 3]
  <2>1. Len(B) \in Nat
    BY DEF Text
  <2>2. /\ i \in Int /\ i + 3 \in Int /\ 1 <= i /\ i + 3 <= Len(B) /\ i <= i + 3
        /\ i + 3 - i + 1 = 4
    BY <2>1
  <2>3. /\ s \in Seq(Token) /\ Len(s) = 4
        /\ \A j \in 1..4 : s[j] = B[i + j - 1]
    BY <1>3, <2>2, PartOf DEF Text
  <2>4. /\ 1 \in 1..4 /\ 2 \in 1..4 /\ 3 \in 1..4 /\ 4 \in 1..4
        /\ i + 1 - 1 = i /\ i + 2 - 1 = i + 1 /\ i + 3 - 1 = i + 2 /\ i + 4 - 1 = i + 3
    BY <2>2
  <2> QED
    BY <2>3, <2>4
<1>5. (\A j \in 1..4 : s[j] = q[j]) <=> EndAt(B, i)
  <2>1. \A j : j \in 1..4 <=> j = 1 \/ j = 2 \/ j = 3 \/ j = 4
    OBVIOUS
  <2> QED
    BY <1>2, <1>4, <2>1 DEF EndAt
<1>6. s = q <=> \A j \in 1..4 : s[j] = q[j]
  BY <1>2, <1>4, SeqEqual
<1> QED
  BY <1>1, <1>3, <1>5, <1>6

\* The first empty line in what the server has received is the end of the
\* first message, whatever follows.
LEMMA Framed ==
    ASSUME NEW r \in Requests, OneLine(r), NEW B \in Text,
           Len(Message(r)) <= Len(B),
           \A i \in 1..Len(Message(r)) : B[i] = Message(r)[i]
    PROVE  /\ MessageEnd(B) = Len(Message(r)) /\ Len(Message(r)) \in Nat \ {0}
           /\ SubSeq(B, 1, Len(Message(r))) = Message(r)
<1>1. PICK m \in Text : m = Message(r)
  BY MessageShape
<1>2. PICK ends : Shape(m, r, ends)
  BY <1>1, MessageShape
<1>3. PICK n \in 1..3 : n = Len(r.layout)
  BY LayoutIs
<1>4. /\ ends \in [0..n -> Nat] /\ ends[0] = 0
      /\ \A j \in 1..n : LineAt(m, ends[j - 1], ends[j], FieldLine(r, r.layout[j]))
      /\ LineAt(m, ends[n], Len(m), <<>>)
  BY <1>2, <1>3 DEF Shape
<1>5. /\ Len(B) \in Nat /\ Len(m) \in Nat /\ Len(m) <= Len(B)
      /\ \A i \in 1..Len(m) : B[i] = m[i]
  BY <1>1 DEF Text
<1>6. PICK e \in Nat : e = ends[n] /\ Len(m) = e + 2 /\ m[e + 1] = "CR" /\ m[e + 2] = "LF"
  <2>1. n \in 0..n
    OBVIOUS
  <2>2. PICK e \in Nat : e = ends[n]
    BY <1>4, <2>1
  <2>3. /\ Len(m) = e + Len(<<>>) + 2 /\ Len(<<>>) = 0
        /\ m[e + Len(<<>>) + 1] = "CR" /\ m[e + Len(<<>>) + 2] = "LF"
    BY <1>4, <2>2, EmptySeq DEF LineAt
  <2>4. e + 0 + 1 = e + 1 /\ e + 0 + 2 = e + 2
    OBVIOUS
  <2> QED
    BY <2>2, <2>3, <2>4
<1>7. m[e - 1] = "CR" /\ m[e] = "LF" /\ e >= 2
  <2>1. n \in 1..n /\ n - 1 \in 0..n
    OBVIOUS
  <2>2. PICK b \in Nat : b = ends[n - 1]
    BY <1>4, <2>1
  <2>3. PICK l \in Text : l = FieldLine(r, r.layout[n])
    BY <1>3, <2>1, LayoutIs, FieldLineIs
  <2>4. LineAt(m, b, e, l) /\ Len(l) \in Nat
    BY <1>4, <1>6, <2>1, <2>2, <2>3 DEF Text
  <2>5. e = b + Len(l) + 2 /\ m[b + Len(l) + 1] = "CR" /\ m[b + Len(l) + 2] = "LF"
    BY <2>4 DEF LineAt
  <2>6. e - 1 = b + Len(l) + 1 /\ e >= 2
    BY <2>4, <2>5
  <2> QED
    BY <2>5, <2>6
<1>8. PICK E : E = {i \in 1..(Len(B) - 3) : SubSeq(B, i, i + 3) = EOL \o EOL}
  OBVIOUS
<1>9. \A i \in 1..(Len(B) - 3) : i \in E <=> EndAt(B, i)
  BY <1>8, EndFound
<1>10. e - 1 \in E
  <2>1. /\ e - 1 \in 1..(Len(B) - 3)
        /\ (e - 1) + 1 = e /\ (e - 1) + 2 = e + 1 /\ (e - 1) + 3 = e + 2
        /\ e - 1 \in 1..Len(m) /\ e \in 1..Len(m) /\ e + 1 \in 1..Len(m) /\ e + 2 \in 1..Len(m)
    <3>1. Len(B) \in Nat /\ e + 2 <= Len(B) /\ Len(m) = e + 2 /\ e >= 2
      BY <1>5, <1>6, <1>7
    <3> QED
      BY <3>1
  <2>2. EndAt(B, e - 1)
    BY <1>5, <1>6, <1>7, <2>1 DEF EndAt
  <2> QED
    BY <1>9, <2>1, <2>2
<1>11. ASSUME NEW i \in E
       PROVE  e - 1 <= i
  <2>1. i \in 1..(Len(B) - 3) /\ EndAt(B, i)
    BY <1>8, <1>9
  <2>2. SUFFICES ASSUME i < e - 1
                 PROVE  FALSE
    BY <1>6, <2>1
  <2>3. i + 1 \in 1..Len(m) /\ i + 3 \in 1..Len(m) /\ i + 1 # Len(m) /\ i + 1 # e
    BY <1>5, <1>6, <2>1, <2>2
  <2>4. m[i + 1] = "LF" /\ m[i + 3] = "LF"
    BY <1>5, <2>1, <2>3 DEF EndAt
  <2>5. PICK j \in 1..n : i + 1 = ends[j]
    <3>1. i + 1 \in Places("LF", m)
      <4>1. Places("LF", m) = {k \in 1..Len(m) : m[k] = "LF"}
        BY PlacesIn DEF Text
      <4> QED
        BY <2>3, <2>4, <4>1
    <3> QED
      BY <1>2, <1>3, <2>3, <3>1, LineStarts
  <2>6. j # n
    BY <1>6, <2>3, <2>5
  <2>7. j + 1 \in 1..n /\ (j + 1) - 1 = j
    BY <2>6
  <2>8. PICK l \in Text : l = FieldLine(r, r.layout[j + 1])
    BY <1>3, <2>7, LayoutIs, FieldLineIs
  <2>9. LineAt(m, i + 1, ends[j + 1], l)
    BY <1>4, <2>5, <2>7, <2>8
  <2>10. l[2] = ":" /\ 2 \in 1..Len(l)
    <3>1. PICK name \in FieldNames : name = r.layout[j + 1]
      BY <1>3, <2>7, LayoutIs
    <3>2. Len(l) = 2 + Len(Content(r, name)) /\ l[2] = ":" /\ Len(Content(r, name)) \in Nat
      BY <2>8, <3>1, FieldLineIs DEF Text
    <3> QED
      BY <3>2
  <2>11. m[(i + 1) + 2] = ":"
    BY <2>9, <2>10 DEF LineAt
  <2>12. (i + 1) + 2 = i + 3
    BY <2>1
  <2> QED
    BY <2>4, <2>11, <2>12
<1>12. E \in SUBSET (0..Len(B))
  BY <1>5, <1>8
<1>13. FirstOf(E) = e - 1
  BY <1>5, <1>10, <1>11, <1>12, FirstOfIs
<1>14. MessageEnd(B) = Len(m)
  <2>1. MessageEnd(B) = FirstOf(E) + 3
    BY <1>8, <1>10 DEF MessageEnd
  <2> QED
    BY <1>6, <1>13, <2>1
<1>15. SubSeq(B, 1, Len(m)) = m
  <2>1. PICK s : s = SubSeq(B, 1, Len(m))
    OBVIOUS
  <2>2. 1 \in Int /\ Len(m) \in Int /\ 1 <= 1 /\ 1 <= Len(m) /\ Len(m) - 1 + 1 = Len(m)
    BY <1>5, <1>6
  <2>3. /\ s \in Seq(Token) /\ Len(s) = Len(m)
        /\ \A i \in 1..Len(m) : s[i] = B[1 + i - 1]
    BY <1>5, <2>1, <2>2, PartOf DEF Text
  <2>4. \A i \in 1..Len(m) : 1 + i - 1 = i
    BY <1>5
  <2>5. \A i \in 1..Len(s) : s[i] = m[i]
    BY <1>5, <2>3, <2>4
  <2>6. m \in Seq(Token)
    BY DEF Text
  <2>7. s = m
    BY <2>3, <2>5, <2>6, SeqEqual
  <2> QED
    BY <2>1, <2>7
<1>16. Len(m) \in Nat \ {0}
  BY <1>5, <1>6
<1> QED
  BY <1>1, <1>14, <1>15, <1>16

----------------------------------------------------------------------------
(* The invariant.                                                          *)

\* The stream B holds the messages of the requests s behind the first p: the
\* j-th ends at position at[j].
Stream(B, s, p) ==
    \E at \in [p..Len(s) -> Nat] :
        /\ at[p] = 0 /\ at[Len(s)] = Len(B)
        /\ \A j, k \in p..Len(s) : j <= k => at[j] <= at[k]
        /\ \A j \in (p + 1)..Len(s) :
               /\ at[j] = at[j - 1] + Len(Message(s[j]))
               /\ \A i \in 1..Len(Message(s[j])) : B[at[j - 1] + i] = Message(s[j])[i]

\* Another request behind them.
LEMMA StreamGrows ==
    ASSUME NEW s \in Seq(Requests), NEW r \in Requests, NEW B \in Text,
           NEW p \in 0..Len(s), Stream(B, s, p), NEW C, C = B \o Message(r)
    PROVE  C \in Text /\ Stream(C, Append(s, r), p)
<1>1. PICK m \in Text : m = Message(r)
  BY MessageShape
<1>2. PICK n \in Nat, b \in Nat, c \in Nat : n = Len(s) /\ b = Len(B) /\ c = Len(m)
  BY DEF Text
<1>3. /\ C \in Text /\ Len(C) = b + c
      /\ \A i \in 1..(b + c) : C[i] = IF i <= b THEN B[i] ELSE m[i - b]
  <2>1. B \in Seq(Token) /\ m \in Seq(Token)
    BY DEF Text
  <2>2. /\ B \o m \in Seq(Token) /\ Len(B \o m) = Len(B) + Len(m)
        /\ \A i \in 1..(Len(B) + Len(m)) : (B \o m)[i] = IF i <= Len(B) THEN B[i] ELSE m[i - Len(B)]
    BY <2>1, ConcatProperties
  <2> QED
    BY <1>1, <1>2, <2>2 DEF Text
<1>4. PICK t : t = Append(s, r)
  OBVIOUS
<1>5. /\ t \in Seq(Requests) /\ Len(t) = n + 1
      /\ \A j \in 1..n : t[j] = s[j]
      /\ t[n + 1] = r
  BY <1>2, <1>4, AppendProperties
<1>6. PICK at \in [p..n -> Nat] :
        /\ at[p] = 0 /\ at[n] = b
        /\ \A j, k \in p..n : j <= k => at[j] <= at[k]
        /\ \A j \in (p + 1)..n :
               /\ at[j] = at[j - 1] + Len(Message(s[j]))
               /\ \A i \in 1..Len(Message(s[j])) : B[at[j - 1] + i] = Message(s[j])[i]
  BY <1>2 DEF Stream
<1>7. PICK new : new = [j \in p..(n + 1) |-> IF j = n + 1 THEN b + c ELSE at[j]]
  OBVIOUS
<1>8. p \in Nat /\ p <= n
  BY <1>2
<1>9. /\ new \in [p..(n + 1) -> Nat] /\ new[n + 1] = b + c
      /\ \A j \in p..n : new[j] = at[j]
  <2>1. ASSUME NEW j \in p..(n + 1), j # n + 1
        PROVE  j \in p..n
    BY <1>8, <2>1
  <2>2. ASSUME NEW j \in p..n
        PROVE  j \in p..(n + 1) /\ j # n + 1
    BY <1>8
  <2>3. n + 1 \in p..(n + 1)
    BY <1>8
  <2>4. b + c \in Nat
    OBVIOUS
  <2> QED
    BY <1>7, <2>1, <2>2, <2>3, <2>4
<1>10. new[p] = 0
  <2>1. p \in p..n
    BY <1>8
  <2> QED
    BY <1>6, <1>9, <2>1
<1>11. \A j \in p..n : at[j] \in Nat /\ at[j] <= b
  <2>1. n \in p..n /\ \A j \in p..n : j <= n
    BY <1>8
  <2> QED
    BY <1>6, <2>1
<1>12. ASSUME NEW j \in p..(n + 1), NEW k \in p..(n + 1), j <= k
       PROVE  new[j] <= new[k]
  <2>1. CASE k = n + 1
    <3>1. CASE j = n + 1
      BY <1>9, <2>1, <3>1
    <3>2. CASE j # n + 1
      <4>1. j \in p..n
        BY <1>8, <3>2
      <4>2. new[j] \in Nat /\ new[j] <= b /\ new[k] = b + c
        BY <1>9, <1>11, <2>1, <4>1
      <4> QED
        BY <4>2
    <3> QED
      BY <3>1, <3>2
  <2>2. CASE k # n + 1
    <3>1. j \in p..n /\ k \in p..n
      BY <1>8, <1>12, <2>2
    <3> QED
      BY <1>6, <1>9, <1>12, <3>1
  <2> QED
    BY <2>1, <2>2
<1>13. ASSUME NEW j \in (p + 1)..(n + 1)
       PROVE  /\ new[j] = new[j - 1] + Len(Message(t[j]))
              /\ \A i \in 1..Len(Message(t[j])) : C[new[j - 1] + i] = Message(t[j])[i]
  <2>1. CASE j = n + 1
    <3>1. j - 1 = n /\ n \in p..n
      BY <1>8, <2>1
    <3>2. new[j - 1] = b /\ new[j] = b + c /\ t[j] = r
      BY <1>5, <1>6, <1>9, <2>1, <3>1
    <3>3. ASSUME NEW i \in 1..c
          PROVE  C[b + i] = m[i]
      <4>1. b + i \in 1..(b + c) /\ ~ (b + i <= b) /\ (b + i) - b = i
        OBVIOUS
      <4> QED
        BY <1>3, <4>1
    <3> QED
      BY <1>1, <1>2, <3>2, <3>3
  <2>2. CASE j # n + 1
    <3>1. j \in (p + 1)..n /\ j \in p..n /\ j - 1 \in p..n /\ j \in 1..n
      BY <1>8, <2>2
    <3>2. /\ at[j] = at[j - 1] + Len(Message(s[j]))
          /\ \A i \in 1..Len(Message(s[j])) : B[at[j - 1] + i] = Message(s[j])[i]
      BY <1>6, <3>1
    <3>3. new[j] = at[j] /\ new[j - 1] = at[j - 1] /\ t[j] = s[j]
      BY <1>5, <1>9, <3>1
    <3>4. s[j] \in Requests
      BY <1>2, <3>1, ElementOfSeq
    <3>5. PICK d \in Nat : d = Len(Message(s[j]))
      BY <3>4, MessageShape DEF Text
    <3>6. PICK a \in Nat : a = at[j - 1] /\ a + d <= b
      BY <1>11, <3>1, <3>2, <3>5
    <3>7. ASSUME NEW i \in 1..d
          PROVE  C[a + i] = B[a + i]
      <4>1. a + i \in 1..(b + c) /\ a + i <= b
        BY <3>6
      <4> QED
        BY <1>3, <4>1
    <3> QED
      BY <3>2, <3>3, <3>5, <3>6, <3>7
  <2> QED
    BY <2>1, <2>2
<1>14. Stream(C, t, p)
  <2>1. /\ new \in [p..Len(t) -> Nat] /\ new[p] = 0 /\ new[Len(t)] = Len(C)
        /\ \A j, k \in p..Len(t) : j <= k => new[j] <= new[k]
    BY <1>3, <1>5, <1>9, <1>10, <1>12
  <2>2. \A j \in (p + 1)..Len(t) :
            /\ new[j] = new[j - 1] + Len(Message(t[j]))
            /\ \A i \in 1..Len(Message(t[j])) : C[new[j - 1] + i] = Message(t[j])[i]
    BY <1>5, <1>13
  <2> QED
    BY <2>1, <2>2 DEF Stream
<1> QED
  BY <1>3, <1>4, <1>14

\* The first message of a stream, and the stream without it.
LEMMA StreamCut ==
    ASSUME NEW s \in Seq(Requests), NEW B \in Text, NEW p \in Nat, p < Len(s),
           Stream(B, s, p), OneLine(s[p + 1]), NEW C, C = SubSeq(B, MessageEnd(B) + 1, Len(B))
    PROVE  /\ s[p + 1] \in Requests /\ MessageEnd(B) # 0
           /\ SubSeq(B, 1, MessageEnd(B)) = Message(s[p + 1])
           /\ C \in Text /\ Stream(C, s, p + 1)
<1>1. PICK n \in Nat, b \in Nat : n = Len(s) /\ b = Len(B)
  BY DEF Text
<1>2. PICK at \in [p..n -> Nat] :
        /\ at[p] = 0 /\ at[n] = b
        /\ \A j, k \in p..n : j <= k => at[j] <= at[k]
        /\ \A j \in (p + 1)..n :
               /\ at[j] = at[j - 1] + Len(Message(s[j]))
               /\ \A i \in 1..Len(Message(s[j])) : B[at[j - 1] + i] = Message(s[j])[i]
  BY <1>1 DEF Stream
<1>3. PICK r \in Requests : r = s[p + 1]
  <2>1. p + 1 \in 1..Len(s)
    OBVIOUS
  <2> QED
    BY <2>1, ElementOfSeq
<1>4. PICK c \in Nat : c = Len(Message(r))
  BY MessageShape DEF Text
<1>5. /\ p + 1 \in (p + 1)..n /\ p + 1 \in p..n /\ n \in p..n /\ p \in p..n /\ p + 1 <= n
      /\ (p + 1) - 1 = p
  BY <1>1
<1>6. at[p + 1] = c /\ c <= b
  <2>1. at[p + 1] = 0 + c
    BY <1>2, <1>3, <1>4, <1>5
  <2>2. at[p + 1] <= b
    BY <1>2, <1>5
  <2> QED
    BY <2>1, <2>2
<1>7. ASSUME NEW i \in 1..c
      PROVE  B[i] = Message(r)[i]
  <2>1. \A x \in 1..Len(Message(s[p + 1])) : B[at[(p + 1) - 1] + x] = Message(s[p + 1])[x]
    BY <1>2, <1>5
  <2>2. \A x \in 1..c : B[at[p] + x] = Message(r)[x]
    BY <1>3, <1>4, <1>5, <2>1
  <2>3. at[p] = 0 /\ 0 + i = i
    BY <1>2
  <2> QED
    BY <2>2, <2>3
<1>8. MessageEnd(B) = c /\ c # 0 /\ SubSeq(B, 1, c) = Message(r)
  <2>1. Len(Message(r)) <= Len(B)
    BY <1>1, <1>4, <1>6
  <2> QED
    BY <1>3, <1>4, <1>7, <2>1, Framed
<1>9. /\ C \in Text /\ Len(C) = b - c
      /\ \A i \in 1..(b - c) : C[i] = B[c + i]
  <2>0. PICK a \in Int : a = c + 1
    OBVIOUS
  <2>1. C = SubSeq(B, a, b)
    BY <1>1, <1>8, <2>0
  <2>2. /\ b \in Int /\ 1 <= a /\ b <= Len(B) /\ b - a + 1 = b - c
    BY <1>1, <2>0
  <2>3. /\ C \in Seq(Token) /\ Len(C) = IF a <= b THEN b - a + 1 ELSE 0
        /\ \A i \in 1..(b - a + 1) : C[i] = B[a + i - 1]
    <3>1. B \in Seq(Token)
      BY DEF Text
    <3>2. b \in Int /\ 1 <= a /\ b <= Len(B)
      BY <2>2
    <3>3. /\ SubSeq(B, a, b) \in Seq(Token)
          /\ Len(SubSeq(B, a, b)) = IF a <= b THEN b - a + 1 ELSE 0
          /\ \A i \in 1..(b - a + 1) : SubSeq(B, a, b)[i] = B[a + i - 1]
      BY <3>1, <3>2, PartOf
    <3> QED
      BY <2>1, <3>3
  <2>4. Len(C) = b - c
    BY <1>6, <2>0, <2>3
  <2>5. \A i \in 1..(b - c) : a + i - 1 = c + i
    BY <2>0
  <2> QED
    BY <2>2, <2>3, <2>4, <2>5 DEF Text
<1>10. PICK new : new = [j \in (p + 1)..n |-> at[j] - c]
  OBVIOUS
<1>11. \A j \in (p + 1)..n : j \in p..n /\ at[j] \in Nat /\ c <= at[j] /\ at[j] <= b
  <2> SUFFICES ASSUME NEW j \in (p + 1)..n
               PROVE  j \in p..n /\ at[j] \in Nat /\ c <= at[j] /\ at[j] <= b
    OBVIOUS
  <2>1. j \in p..n /\ p + 1 <= j /\ j <= n
    BY <1>1
  <2> QED
    BY <1>2, <1>5, <1>6, <2>1
<1>12. new \in [(p + 1)..n -> Nat]
  <2>1. ASSUME NEW j \in (p + 1)..n
        PROVE  at[j] - c \in Nat
    BY <1>11
  <2> QED
    BY <1>10, <2>1
<1>13. new[p + 1] = 0 /\ new[n] = Len(C)
  <2>1. n \in (p + 1)..n
    BY <1>1
  <2>2. new[p + 1] = c - c /\ new[n] = b - c
    BY <1>2, <1>5, <1>6, <1>10, <2>1
  <2>3. c - c = 0
    OBVIOUS
  <2>4. Len(C) = b - c
    BY <1>9
  <2> QED
    BY <2>2, <2>3, <2>4
<1>14. ASSUME NEW j \in (p + 1)..n, NEW k \in (p + 1)..n, j <= k
       PROVE  new[j] <= new[k]
  <2>1. at[j] <= at[k] /\ at[j] \in Nat /\ at[k] \in Nat
    BY <1>2, <1>11, <1>14
  <2>2. at[j] - c <= at[k] - c
    BY <2>1
  <2> QED
    BY <1>10, <2>2
<1>15. ASSUME NEW j \in ((p + 1) + 1)..n
       PROVE  /\ new[j] = new[j - 1] + Len(Message(s[j]))
              /\ \A i \in 1..Len(Message(s[j])) : C[new[j - 1] + i] = Message(s[j])[i]
  <2>1. j \in (p + 1)..n /\ j - 1 \in (p + 1)..n /\ j \in 1..n
    BY <1>1
  <2>2. /\ at[j] = at[j - 1] + Len(Message(s[j]))
        /\ \A i \in 1..Len(Message(s[j])) : B[at[j - 1] + i] = Message(s[j])[i]
    BY <1>2, <2>1
  <2>3. s[j] \in Requests
    BY <1>1, <2>1, ElementOfSeq
  <2>4. PICK d \in Nat : d = Len(Message(s[j]))
    BY <2>3, MessageShape DEF Text
  <2>5. PICK a \in Nat, z \in Nat : a = at[j - 1] /\ z = at[j] /\ c <= a /\ z <= b
    BY <1>11, <2>1
  <2>6. z = a + d /\ new[j] = z - c /\ new[j - 1] = a - c
    BY <1>10, <2>1, <2>2, <2>4, <2>5
  <2>7. new[j] = new[j - 1] + d
    BY <2>6
  <2>8. ASSUME NEW i \in 1..d
        PROVE  C[(a - c) + i] = B[a + i]
    <3>1. (a - c) + i \in 1..(b - c) /\ c + ((a - c) + i) = a + i
      <4>1. c <= a /\ a + d <= b
        BY <2>5, <2>6
      <4> QED
        BY <4>1
    <3> QED
      BY <1>9, <3>1
  <2> QED
    BY <2>2, <2>4, <2>5, <2>6, <2>7, <2>8
<1>16. Stream(C, s, p + 1)
  BY <1>1, <1>12, <1>13, <1>14, <1>15 DEF Stream
<1> QED
  BY <1>3, <1>8, <1>9, <1>16

Commands == {parse_message(m) : m \in Text}

Types == /\ sent \in Seq(Requests)
         /\ buffer \in Text
         /\ parsed \in Seq(Commands)

\* As long as no key or value had a line feed, the buffer holds the messages
\* that are not parsed yet, and nothing else.
InStep ==
    (\A i \in 1..Len(sent) : OneLine(sent[i])) =>
        /\ Len(parsed) <= Len(sent)
        /\ \A i \in 1..Len(parsed) : parsed[i] = Meaning(sent[i])
        /\ Stream(buffer, sent, Len(parsed))

Inv == Types /\ InStep

\* An empty buffer is all that is left of a stream of no message.
LEMMA StreamEnds ==
    ASSUME NEW s \in Seq(Requests), NEW B \in Text, Stream(B, s, Len(s))
    PROVE  B = <<>>
<1>1. PICK n \in Nat : n = Len(s)
  OBVIOUS
<1>2. PICK at \in [n..n -> Nat] : at[n] = 0 /\ at[n] = Len(B)
  BY <1>1 DEF Stream
<1>3. Len(B) = 0 /\ B \in Seq(Token)
  BY <1>2 DEF Text
<1> QED
  BY <1>3, EmptySeq

LEMMA NoMessageInNothing == MessageEnd(<<>>) = 0
<1>1. Len(<<>>) = 0
  OBVIOUS
<1>2. 1..(0 - 3) = {}
  OBVIOUS
<1> QED
  BY <1>1, <1>2 DEF MessageEnd

LEMMA SendKeeps ==
    ASSUME Inv, NEW r \in Requests, Send(r)
    PROVE  Inv'
<1>1. /\ sent' = Append(sent, r) /\ buffer' = buffer \o Message(r) /\ parsed' = parsed
  BY DEF Send
<1>2. sent \in Seq(Requests) /\ buffer \in Text /\ parsed \in Seq(Commands)
  BY DEF Inv, Types
<1>3. /\ sent' \in Seq(Requests) /\ Len(sent') = Len(sent) + 1
      /\ \A i \in 1..Len(sent) : sent'[i] = sent[i]
  BY <1>1, <1>2, AppendProperties
<1>4. Len(sent) \in Nat /\ Len(parsed) \in Nat
  BY <1>2
<1>5. buffer' \in Text
  <2>1. Message(r) \in Text
    BY MessageShape
  <2> QED
    BY <1>1, <1>2, <2>1, ConcatProperties DEF Text
<1>6. Types'
  BY <1>1, <1>2, <1>3, <1>5 DEF Types
<1>7. InStep'
  <2>1. SUFFICES ASSUME \A i \in 1..Len(sent') : OneLine(sent'[i])
                 PROVE  /\ Len(parsed) <= Len(sent')
                        /\ \A i \in 1..Len(parsed) : parsed[i] = Meaning(sent'[i])
                        /\ Stream(buffer', sent', Len(parsed))
    BY <1>1 DEF InStep
  <2>2. \A i \in 1..Len(sent) : OneLine(sent[i])
    <3>1. \A i \in 1..Len(sent) : i \in 1..Len(sent')
      BY <1>3, <1>4
    <3> QED
      BY <1>3, <2>1, <3>1
  <2>3. /\ Len(parsed) <= Len(sent)
        /\ \A i \in 1..Len(parsed) : parsed[i] = Meaning(sent[i])
        /\ Stream(buffer, sent, Len(parsed))
    BY <2>2 DEF Inv, InStep
  <2>4. Len(parsed) \in 0..Len(sent) /\ Len(parsed) <= Len(sent')
    BY <1>3, <1>4, <2>3
  <2>5. Stream(buffer', sent', Len(parsed))
    BY <1>1, <1>2, <2>3, <2>4, StreamGrows
  <2>6. \A i \in 1..Len(parsed) : parsed[i] = Meaning(sent'[i])
    <3>1. \A i \in 1..Len(parsed) : i \in 1..Len(sent)
      BY <1>4, <2>4
    <3> QED
      BY <1>3, <2>3, <3>1
  <2> QED
    BY <2>4, <2>5, <2>6
<1> QED
  BY <1>6, <1>7 DEF Inv

LEMMA ParseKeeps ==
    ASSUME Inv, Parse
    PROVE  Inv'
<1>1. PICK n : n = MessageEnd(buffer)
  OBVIOUS
<1>2. /\ n # 0 /\ sent' = sent
      /\ parsed' = Append(parsed, parse_message(SubSeq(buffer, 1, n)))
      /\ buffer' = SubSeq(buffer, n + 1, Len(buffer))
  BY <1>1 DEF Parse
<1>3. sent \in Seq(Requests) /\ buffer \in Text /\ parsed \in Seq(Commands) /\ Len(buffer) \in Nat
  BY DEF Inv, Types, Text
<1>4. n \in 1..Len(buffer)
  <2>1. PICK E : E = {i \in 1..(Len(buffer) - 3) : SubSeq(buffer, i, i + 3) = EOL \o EOL}
    OBVIOUS
  <2>2. E # {} /\ n = FirstOf(E) + 3
    BY <1>1, <1>2, <2>1 DEF MessageEnd
  <2>3. E \in SUBSET (0..Len(buffer))
    BY <1>3, <2>1
  <2>4. FirstOf(E) \in E
    BY <1>3, <2>2, <2>3, FirstOfIs
  <2>5. FirstOf(E) \in 1..(Len(buffer) - 3)
    BY <2>1, <2>4
  <2> QED
    BY <1>3, <2>2, <2>5
<1>5. PICK m \in Text : m = SubSeq(buffer, 1, n)
  <2>1. 1 \in Int /\ n \in Int /\ 1 <= 1 /\ n <= Len(buffer)
    BY <1>3, <1>4
  <2> QED
    BY <1>3, <2>1, PartOf DEF Text
<1>6. buffer' \in Text
  <2>1. n + 1 \in Int /\ Len(buffer) \in Int /\ 1 <= n + 1 /\ Len(buffer) <= Len(buffer)
    BY <1>3, <1>4
  <2> QED
    BY <1>2, <1>3, <2>1, PartOf DEF Text
<1>7. PICK c \in Commands : c = parse_message(m)
  BY DEF Commands
<1>8. /\ parsed' \in Seq(Commands) /\ Len(parsed') = Len(parsed) + 1
      /\ \A i \in 1..Len(parsed) : parsed'[i] = parsed[i]
      /\ parsed'[Len(parsed) + 1] = c
  BY <1>2, <1>3, <1>5, <1>7, AppendProperties
<1>9. Types'
  BY <1>2, <1>3, <1>6, <1>8 DEF Types
<1>10. InStep'
  <2>1. SUFFICES ASSUME \A i \in 1..Len(sent) : OneLine(sent[i])
                 PROVE  /\ Len(parsed') <= Len(sent)
                        /\ \A i \in 1..Len(parsed') : parsed'[i] = Meaning(sent[i])
                        /\ Stream(buffer', sent, Len(parsed'))
    BY <1>2 DEF InStep
  <2>2. /\ Len(parsed) <= Len(sent)
        /\ \A i \in 1..Len(parsed) : parsed[i] = Meaning(sent[i])
        /\ Stream(buffer, sent, Len(parsed))
    BY <2>1 DEF Inv, InStep
  <2>3. PICK p \in Nat, k \in Nat : p = Len(parsed) /\ k = Len(sent)
    BY <1>3
  <2>4. p # k
    <3>1. SUFFICES ASSUME p = k
                   PROVE  FALSE
      OBVIOUS
    <3>2. buffer = <<>>
      BY <1>3, <2>2, <2>3, <3>1, StreamEnds
    <3> QED
      BY <1>1, <1>2, <3>2, NoMessageInNothing
  <2>5. p < k /\ p + 1 \in 1..k
    BY <2>2, <2>3, <2>4
  <2>6. OneLine(sent[p + 1])
    BY <2>1, <2>3, <2>5
  <2>7. /\ sent[p + 1] \in Requests
        /\ SubSeq(buffer, 1, n) = Message(sent[p + 1])
        /\ Stream(buffer', sent, p + 1)
    BY <1>1, <1>2, <1>3, <2>2, <2>3, <2>5, <2>6, StreamCut
  <2>8. c = Meaning(sent[p + 1])
    BY <1>5, <1>7, <2>6, <2>7, MessageParsed
  <2>9. \A i \in 1..(p + 1) : parsed'[i] = Meaning(sent[i])
    <3>1. \A i \in 1..(p + 1) : i \in 1..p \/ i = p + 1
      OBVIOUS
    <3> QED
      BY <1>8, <2>2, <2>3, <2>8, <3>1
  <2>10. Len(parsed') = p + 1 /\ p + 1 <= Len(sent)
    BY <1>8, <2>3, <2>5
  <2> QED
    BY <2>7, <2>9, <2>10
<1> QED
  BY <1>9, <1>10 DEF Inv

\* What was parsed and what is still in the buffer are what was sent.
LEMMA Invariance == Spec => []Inv
<1>1. Init => Inv
  <2> SUFFICES ASSUME Init
               PROVE  Inv
    OBVIOUS
  <2>1. sent = <<>> /\ buffer = <<>> /\ parsed = <<>> /\ Len(<<>>) = 0
    BY DEF Init
  <2>2. Types
    BY <2>1, EmptySeq DEF Types, Text
  <2>3. Stream(<<>>, <<>>, 0)
    <3>1. PICK f : f = [j \in 0..0 |-> 0]
      OBVIOUS
    <3>2. /\ f \in [0..0 -> Nat] /\ f[0] = 0
          /\ \A j, k \in 0..0 : f[j] <= f[k]
      BY <3>1
    <3>3. (0 + 1)..0 = {}
      OBVIOUS
    <3> QED
      BY <2>1, <3>2, <3>3 DEF Stream
  <2>4. InStep
    <3>1. 1..0 = {} /\ 0 <= 0
      OBVIOUS
    <3> QED
      BY <2>1, <2>3, <3>1 DEF InStep
  <2> QED
    BY <2>2, <2>4 DEF Inv
<1>2. Inv /\ [Next]_vars => Inv'
  <2> SUFFICES ASSUME Inv, [Next]_vars
               PROVE  Inv'
    OBVIOUS
  <2>1. CASE Parse
    BY <2>1, ParseKeeps
  <2>2. CASE \E r \in (IF sent = <<>> THEN Requests ELSE Probes) : Send(r)
    BY <2>2, SendKeeps, ProbesAssumption
  <2>3. CASE UNCHANGED vars
    <3>1. sent' = sent /\ buffer' = buffer /\ parsed' = parsed
      BY <2>3 DEF vars
    <3> QED
      BY <3>1 DEF Inv, Types, InStep
  <2> QED
    BY <2>1, <2>2, <2>3 DEF Next
<1> QED
  BY <1>1, <1>2, PTL DEF Spec

----------------------------------------------------------------------------
(* The theorems.                                                           *)

\* Requests are cut and parsed as they were sent, in order, and nothing of one
\* spills into the next, for all keys and values without a line feed and all
\* choices and orders of up to three lines (server.cpp:165-170,
\* protocol.cpp:18-89).
THEOREM RequestsParsedAsSent == Spec => []ParsedAsSent
<1>1. Inv => ParsedAsSent
  <2>1. SUFFICES ASSUME Inv, \A i \in 1..Len(sent) : OneLine(sent[i])
                 PROVE  /\ Len(parsed) <= Len(sent)
                        /\ \A i \in 1..Len(parsed) : parsed[i] = Meaning(sent[i])
                        /\ MessageEnd(buffer) = 0 => buffer = <<>> /\ Len(parsed) = Len(sent)
    <3>1. Inv => DOMAIN sent = 1..Len(sent) /\ DOMAIN parsed = 1..Len(parsed)
      BY DEF Inv, Types
    <3> QED
      BY <3>1 DEF ParsedAsSent
  <2>2. /\ Len(parsed) <= Len(sent)
        /\ \A i \in 1..Len(parsed) : parsed[i] = Meaning(sent[i])
        /\ Stream(buffer, sent, Len(parsed))
        /\ sent \in Seq(Requests) /\ buffer \in Text /\ parsed \in Seq(Commands)
    BY <2>1 DEF Inv, InStep, Types
  <2>3. PICK p \in Nat, k \in Nat : p = Len(parsed) /\ k = Len(sent)
    BY <2>2
  <2>4. CASE p = k
    BY <2>2, <2>3, <2>4, StreamEnds
  <2>5. CASE p # k
    <3>1. p < k /\ p + 1 \in 1..k
      BY <2>2, <2>3, <2>5
    <3>2. OneLine(sent[p + 1])
      BY <2>1, <2>3, <3>1
    <3>3. MessageEnd(buffer) # 0
      BY <2>2, <2>3, <3>1, <3>2, StreamCut
    <3> QED
      BY <2>2, <3>3
  <2> QED
    BY <2>4, <2>5
<1> QED
  BY <1>1, Invariance, PTL

\* Whatever was sent, line feeds included, a stored value never breaks the
\* answer that returns it into two lines (protocol.cpp:91-97).
THEOREM AnswersStayOnOneLine == Spec => []AnswersAreOneLine
<1>1. Inv => AnswersAreOneLine
  <2>1. SUFFICES ASSUME Inv, NEW i \in 1..Len(parsed)
                 PROVE  LET a == format_response(ok_value(parsed[i].value))
                        IN  Places("LF", a) = {Len(a)}
    <3>1. Inv => DOMAIN parsed = 1..Len(parsed)
      BY DEF Inv, Types
    <3> QED
      BY <3>1 DEF AnswersAreOneLine
  <2>2. parsed[i] \in Commands
    BY <2>1, ElementOfSeq DEF Inv, Types
  <2>3. PICK m \in Text : parsed[i] = parse_message(m)
    BY <2>2 DEF Commands
  <2>4. parsed[i].value \in Stored
    BY <2>3, ParsedValue
  <2> QED
    BY <2>4, OneLineAnswer
<1> QED
  BY <1>1, Invariance, PTL
=============================================================================
