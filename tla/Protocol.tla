------------------------------ MODULE Protocol ------------------------------
(***************************************************************************)
(* The text protocol: a client writes requests as lines "Name:value", each *)
(* ended by CR LF, and an empty line; the server cuts the stream at the    *)
(* first empty line, and parse_message makes a command of each piece.      *)
(* Text is a sequence of tokens: the words a parser compares, and every    *)
(* character that means something to it.                                   *)
(***************************************************************************)
EXTENDS Integers, Sequences, FiniteSets

CONSTANTS
    Methods,      \* words sent as the method
    toupper,      \* the upper case of each of them
    Keys, Values, \* texts sent as key and value
    Layouts,      \* which lines a request has, in which order
    Probes,       \* the requests sent behind a first one
    MaxMessages   \* bound: requests sent

ASSUME MaxMessagesAssumption == MaxMessages \in Nat

ASSUME TextAssumption ==
    /\ Methods \subseteq STRING \ {":", " ", "CR", "LF"}
    /\ toupper \in [Methods -> STRING]
    /\ Keys \subseteq Seq(STRING) /\ Values \subseteq Seq(STRING)
    /\ \A l \in Layouts : l \in Seq({"Method", "Key", "Value"}) /\ Len(l) \in 1..3

VARIABLES
    sent,    \* the requests sent
    buffer,  \* ClientConnection::buffer, what is not cut into messages yet
    parsed   \* the commands parsed

vars == <<sent, buffer, parsed>>

EOL == <<"CR", "LF">>

Requests == [method : Methods, key : Keys, value : Values, layout : Layouts]

ASSUME ProbesAssumption == Probes \subseteq Requests

----------------------------------------------------------------------------
(* The client.                                                             *)

\* A line of a request, without its end.
FieldLine(r, name) ==
    <<name, ":">> \o (CASE name = "Method" -> <<r.method>>
                        [] name = "Key"    -> r.key
                        [] name = "Value"  -> r.value)

\* The lines of a request, at most three, and the empty line.
Message(r) ==
    LET line(i) == IF i \in DOMAIN r.layout
                   THEN FieldLine(r, r.layout[i]) \o EOL ELSE <<>>
    IN  line(1) \o line(2) \o line(3) \o EOL

----------------------------------------------------------------------------
(* Framing and parsing.                                                    *)

Places(t, s) == {i \in DOMAIN s : s[i] = t}

FirstOf(S) == CHOOSE i \in S : \A j \in S : i <= j

LastOf(S) == CHOOSE i \in S : \A j \in S : j <= i

\* The length of the first message of the stream s, 0 if it is incomplete.
MessageEnd(s) ==
    LET ends == {i \in 1..(Len(s) - 3) : SubSeq(s, i, i + 3) = EOL \o EOL}
    IN  IF ends = {} THEN 0 ELSE FirstOf(ends) + 3

\* Mutant: a line ends at CR LF only.
LineAfter_crlf(s, p) ==
    LET ends == {i \in Places("LF", s) : i > p + 1 /\ s[i - 1] = "CR"}
    IN  SubSeq(s, p + 1, IF ends = {} THEN Len(s) ELSE FirstOf(ends) - 1)

\* The line that begins behind position p, as getline returns it.
LineAfter(s, p) ==
    LET ends == {i \in Places("LF", s) : i > p}
    IN  SubSeq(s, p + 1, IF ends = {} THEN Len(s) ELSE FirstOf(ends) - 1)

WithoutCR(l) ==
    IF l # <<>> /\ l[Len(l)] = "CR" THEN SubSeq(l, 1, Len(l) - 1) ELSE l

Trim(x) ==
    LET black == DOMAIN x \ Places(" ", x)
    IN  IF black = {} THEN <<>> ELSE SubSeq(x, FirstOf(black), LastOf(black))

\* Mutant: the value is what follows the last colon.
ColonOf_last(l) == LastOf(Places(":", l))

\* The separator of a line that has one.
ColonOf(l) == FirstOf(Places(":", l))

FieldName(l) == Trim(SubSeq(l, 1, ColonOf(l) - 1))

FieldValue(l) == Trim(SubSeq(l, ColonOf(l) + 1, Len(l)))

Line(m, p) == WithoutCR(LineAfter(m, p))

\* Where the lines of message m with field name begin; the last one counts.
LinesOf(m, name) ==
    {p \in {0} \cup Places("LF", m) :
        Places(":", Line(m, p)) # {} /\ FieldName(Line(m, p)) = <<name>>}

Has(m, name) == LinesOf(m, name) # {}

parse_fields(m, name) == FieldValue(Line(m, LastOf(LinesOf(m, name))))

\* A command in any mix of upper and lower case.
string_to_command(x) ==
    IF \E m \in Methods : x = <<m>> /\ toupper[m] \in {"ADD", "UPDATE", "GET", "DELETE"}
    THEN toupper[x[1]] ELSE "INVALID"

Command(type, key, value) == [type |-> type, key |-> key, value |-> value]

\* Nobody looks at the key and the value of an invalid command.
Invalid == Command("INVALID", <<>>, <<>>)

parse_message(m) ==
    LET type == IF Has(m, "Method") THEN string_to_command(parse_fields(m, "Method"))
                ELSE "INVALID"
    IN  IF \/ type = "INVALID"
           \/ ~ Has(m, "Key")
           \/ ~ Has(m, "Value") /\ type \in {"ADD", "UPDATE"}
        THEN Invalid
        ELSE Command(type, parse_fields(m, "Key"),
                     IF Has(m, "Value") THEN parse_fields(m, "Value") ELSE <<>>)

\* The answer to a GET that finds value v.
ok_value(v) == <<"OK: Value=">> \o v

format_response(text) == text \o EOL

----------------------------------------------------------------------------
Init == sent = <<>> /\ buffer = <<>> /\ parsed = <<>>

Send(r) ==
    /\ Len(sent) < MaxMessages
    /\ sent' = Append(sent, r)
    /\ buffer' = buffer \o Message(r)
    /\ UNCHANGED parsed

\* One turn of the loop over complete messages.
Parse ==
    LET n == MessageEnd(buffer)
    IN  /\ n # 0
        /\ parsed' = Append(parsed, parse_message(SubSeq(buffer, 1, n)))
        /\ buffer' = SubSeq(buffer, n + 1, Len(buffer))
        /\ UNCHANGED sent

Next == (\E r \in (IF sent = <<>> THEN Requests ELSE Probes) : Send(r)) \/ Parse

Spec == Init /\ [][Next]_vars

----------------------------------------------------------------------------
(* Properties.                                                             *)

Lines(r) == {r.layout[i] : i \in DOMAIN r.layout}

\* What a request asks for, told from its parts and not from its text: the
\* method in any case, keys and values without the blanks around them, in
\* whatever order its lines are.
Meaning(r) ==
    LET word     == toupper[r.method]
        type     == IF word \in {"ADD", "UPDATE", "GET", "DELETE"} THEN word ELSE "INVALID"
        required == {"Method", "Key"}
                        \cup (IF type \in {"ADD", "UPDATE"} THEN {"Value"} ELSE {})
    IN  IF type = "INVALID" \/ ~ required \subseteq Lines(r) THEN Invalid
        ELSE Command(type, Trim(r.key),
                     IF "Value" \in Lines(r) THEN Trim(r.value) ELSE <<>>)

OneLine(r) == Places("LF", r.key \o r.value) = {}

\* As long as keys and values have no line feed, the server parses what was
\* sent, request by request, and when it has parsed all nothing is left in the
\* buffer: colons, blanks, carriage returns, the order of the lines and missing
\* lines never move the boundary of a message or change another request
\* (server.cpp:165-170, protocol.cpp:18-89).
ParsedAsSent ==
    (\A i \in DOMAIN sent : OneLine(sent[i])) =>
        /\ Len(parsed) <= Len(sent)
        /\ \A i \in DOMAIN parsed : parsed[i] = Meaning(sent[i])
        /\ MessageEnd(buffer) = 0 => buffer = <<>> /\ Len(parsed) = Len(sent)

\* Whatever was sent, the answer that returns a stored value is one line: its
\* only line feed is the one format_response adds (protocol.cpp:91-97), so a
\* client that reads lines keeps step with the server.
AnswersAreOneLine ==
    \A i \in DOMAIN parsed :
        LET a == format_response(ok_value(parsed[i].value))
        IN  Places("LF", a) = {Len(a)}
=============================================================================
