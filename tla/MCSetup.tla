------------------------------ MODULE MCSetup -------------------------------
EXTENDS Setup

Text == {Dot, Backslash, Slash, Colon, "a"}

\* A package of the tool and two certificates, and cabinets of one file with
\* every name of at most four characters, or one that climbs out of a folder.
MCCertificate == {<<"c", Backslash, "1">>, <<"c", Backslash, "2">>}
MCTool == <<"w">>
MCCabinets ==
    {<< <<"w">>, <<"c", Backslash, "1">>, <<"c", Backslash, "2">> >>}
       \cup {<<n>> : n \in UNION {[1 .. k -> Text] : k \in 0 .. 4}}
       \cup {<< <<"a", s, Dot, Dot, s, Dot, Dot, s, "a">> >> : s \in {Backslash, Slash}}
============================================================================
