--------------------------- MODULE MCSettingsFile ---------------------------
EXTENDS SettingsFile

MCNames == <<"a", "b", "c">>
Kinds == {"x", Blank, "quote", "#", "\\", NewLine}

\* In the first setting the texts of one character, those that end with one
\* after an ordinary one, pairs that could be mistaken for each other, and a
\* blank between two others.
Firsts ==
    [{1} -> Kinds] \cup {<<"x", k>> : k \in Kinds \ {"x"}}
    \cup {<<Blank, "x">>, <<"\\", NewLine>>, <<NewLine, Blank>>}
    \cup {<<"x", Blank, k>> : k \in {"#", "x"}}
Quotations == {<<>>, <<"quote">>, <<"quote", "quote">>}
Three(t, u) == ("a" :> t) @@ ("b" :> u) @@ ("c" :> <<"x">>)
MCDefaults == ("a" :> <<>>) @@ ("b" :> <<"x">>) @@ ("c" :> <<>>)
MCStarts == {Three(<<"x">>, <<>>)}
            \cup {Three(t, <<"=">>) : t \in Firsts}
            \cup {Three(t, <<"quote", Blank>>) : t \in Quotations}
MCTexts == {<<"#", "x">>}
MCGarbage == {"x", NewLine}
MCSymmetry == Permutations(Bots)
=============================================================================
