----------------------------- MODULE MCSettings -----------------------------
EXTENDS Settings

CONSTANTS q1, q2, m1, m2, e1, e2
\* One catalog has a model without efforts and names no default, in the other
\* that model is gone, an effort with it, and the native default is named.
MCCatalogs == {[efforts |-> (m1 :> {}) @@ (m2 :> {e1}), default |-> (m1 :> None) @@ (m2 :> e1),
                native |-> NoOptions],
               [efforts |-> (m2 :> {e2}), default |-> (m2 :> e2), native |-> [model |-> m2, effort |-> None]]}
MCDefaults == [enabled |-> TRUE, model |-> m2, effort |-> e1]
MCOtherConfigs == {[enabled |-> FALSE, model |-> None, effort |-> None]}

\* Labels "Ab-c" and "Bac", the names "ab" and "bac", of the clients x and y
MCLowerOf == ("A" :> "a") @@ ("B" :> "b") @@ ("X" :> "x") @@ ("Y" :> "y")
MCCharacters == {"A", "B", "C", "X", "Y", "a", "b", "c", "x", "y", "-", " "}
MCNames == [row \in Providers \X Models |->
    [name |-> IF row[2] = m1 THEN <<"A", "b", "-", "c">> ELSE <<"B", "a", "c">>,
     shortName |-> IF row[2] = m1 THEN <<"a", "b">> ELSE <<"b", "a", "c">>,
     driverKind |-> IF row[1] = q1 THEN <<"x">> ELSE <<"y">>,
     providerDisplayName |-> IF row[1] = q1 THEN <<"X">> ELSE <<"Y">>]]
\* nothing, blanks, a word of both, one with gaps, one in no order, two words
MCQueries == {<<>>, <<" ">>, <<"A", "c", " ">>, <<"a", "b", "c">>, <<"c", "b", "a">>, <<"b", " ", "y">>, <<"b", "c">>}
=============================================================================
