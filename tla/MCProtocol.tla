----------------------------- MODULE MCProtocol -----------------------------
(***************************************************************************)
(* Protocol for TLC: all values of up to three tokens, and all choices and *)
(* orders of lines.                                                        *)
(***************************************************************************)
EXTENDS Protocol

MethodNames == {"ADD", "Get", "delete", "DROP"}

UpperCase ==
    [m \in MethodNames |->
        CASE m = "Get" -> "GET" [] m = "delete" -> "DELETE" [] OTHER -> m]

Tokens == {"a", ":", " ", "CR", "LF"}

Texts(n) == UNION {[1..m -> Tokens] : m \in 0..n}

LongTexts == Texts(3)
KeyTexts  == {<<"k">>, <<" ", "k", ":">>, <<"Value", ":">>, <<"k", "LF">>}

Fields == {"Method", "Key", "Value"}

AllLayouts == {l \in UNION {[1..m -> Fields] : m \in 1..3} :
                 \A i, j \in DOMAIN l : l[i] = l[j] => i = j}

ProbeRequests ==
    {[method |-> "ADD", key |-> <<"k">>, value |-> <<"a">>, layout |-> l] :
        l \in {<<"Method", "Key", "Value">>, <<"Key">>}}
=============================================================================
