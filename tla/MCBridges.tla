------------------------------ MODULE MCBridges -----------------------------
EXTENDS Bridges

CONSTANTS p1, p2, p3, p4

\* Texts at the boundaries of the parsers; Letter stands for a name.
MCServices ==
    {Null, <<>>, <<0>>, <<6, 5, 5, 3, 5>>, <<6, 5, 5, 3, 6>>, <<0, 0, 6, 5, 5, 3, 5>>,
     <<4, 2, 9, 4, 9, 6, 8>>, <<8, 0, Letter>>, <<Letter>>, <<5, Dot>>}
MCNodes ==
    {Null, <<>>, <<1, Dot, 2, 5, 5, Dot, 0, Dot, 9>>, <<1, Dot, 2, 5, 6, Dot, 0, Dot, 9>>,
     <<1, Dot, 2, Dot, 3>>, <<1, Dot, 2, Dot, 3, Dot, 4, Dot>>, <<1, Dot, Dot, 3, Dot, 4>>,
     <<0, 1, Dot, 2, Dot, 3, Dot, 4>>, <<Letter>>}

\* All texts of a few characters, for the parsers alone.
MCPorts == [1 .. 5 -> {3, 5, 6}] \cup [1 .. 6 -> {0, 6, 5}] \cup [1 .. 3 -> {0, 9, Letter}]
MCQuads == {a \o <<Dot, 1, Dot>> \o b : a \in [1 .. 3 -> {2, 5, 6}],
                                      b \in [1 .. 4 -> {5, 6, Dot}] \cup [1 .. 5 -> {2, Dot}]}

\* Value is the sum of the places.
ASSUME PlaceValues ==
    \A t \in {t \in MCServices \cup MCPorts : t # Null} :
        ToSet(t) \subseteq Digit =>
            Value(t) = MapThenSumSet(LAMBDA i : t[i] * 10 ^ (Len(t) - i), DOMAIN t)

\* Hints: each field in turn leaves its default.
Default == [node |-> Null, service |-> Null, out |-> TRUE, flags |-> {}, family |-> "unspec",
            socktype |-> "any", protocol |-> "any"]
MCHints ==
    {[Default EXCEPT !.flags = f] : f \in SUBSET {"passive", "canonname", "numerichost", "numericserv"}}
    \cup {[Default EXCEPT !.flags = {"ignored", "canonname"}], [Default EXCEPT !.flags = {"unknown"}],
          [Default EXCEPT !.out = FALSE]}
    \cup {[Default EXCEPT !.family = f] : f \in {"inet", "inet6"}}
    \cup {[Default EXCEPT !.socktype = s, !.protocol = p] :
             s \in {"any", "stream", "dgram", "raw", "rdm"}, p \in {"any", "tcp", "udp", "other"}}
Ask(hints, nodes, services) ==
    {[h EXCEPT !.node = n, !.service = s] : h \in hints, n \in nodes, s \in services}
MCCalls ==
    Ask(MCHints, {Null, <<1, Dot, 2, 5, 5, Dot, 0, Dot, 9>>, <<Letter>>}, {Null, <<0>>, <<Letter>>})
    \cup Ask({Default, [Default EXCEPT !.flags = {"canonname"}, !.socktype = "dgram"]}, MCNodes, MCServices)
    \cup Ask({[Default EXCEPT !.socktype = "stream"]}, {Null}, MCPorts)
    \cup Ask({[Default EXCEPT !.socktype = "raw"]}, MCQuads, {Null})

MCHosts == {Null, <<>>, <<<<10, 0, 0, 1>>>>, <<<<10, 0, 0, 1>>, <<10, 0, 0, 2>>>>}
MCBytes == {0, 9, 10, 99, 100, 105, 255}
MCAddresses == {<<a, b, c, d>> : a \in MCBytes, b \in MCBytes, c \in {0, 100}, d \in {10, 255}}
============================================================================
