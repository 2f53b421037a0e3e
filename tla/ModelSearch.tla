---------------------------- MODULE ModelSearch ----------------------------
(***************************************************************************)
(* The search of the model picker: how well a row matches what was typed   *)
(* (modelPickerSearch.ts over searchRanking.ts). A text is a sequence of   *)
(* characters; a score is a number, lower is better, and NoMatch is null.  *)
(***************************************************************************)
EXTENDS Integers, Sequences, FiniteSets, SequencesExt, FiniteSetsExt

CONSTANTS
    LowerOf,    \* the lower case of the characters that have one
    NoMatch

Blank == " "
Markers == {" ", "-", "_", "/"}     \* the default boundary markers

(* trim and toLowerCase *)
normalizeSearchQuery(input) ==
    LET solid == {i \in DOMAIN input : input[i] # Blank}
        lower(c) == IF c \in DOMAIN LowerOf THEN LowerOf[c] ELSE c
    IN IF solid = {} THEN <<>>
       ELSE [i \in 1 .. Max(solid) - Min(solid) + 1 |-> lower(input[Min(solid) + i - 1])]

(* indexOf: where a part starts first, from 0, or -1 *)
IndexOf(value, part) ==
    LET starts == {i \in 0 .. Len(value) - Len(part) : SubSeq(value, i + 1, i + Len(part)) = part}
    IN IF starts = {} THEN -1 ELSE Min(starts)

(* Mutant of scoreSubsequenceMatch: the order of letters is ignored. *)
ScoreSubsequenceAnywhere(value, query) ==
    IF ToSet(query) \subseteq ToSet(value) THEN Len(value) - Len(query) ELSE NoMatch

(* A character is taken if it is the next one of the query. *)
Taken(pass, n) ==
    [next |-> pass.next + 1, last |-> n,
     first |-> IF pass.first = 0 THEN n ELSE pass.first,
     gap |-> pass.gap + (IF pass.last = 0 THEN 0 ELSE n - pass.last - 1)]
Take(pass, value, query, n) ==
    IF pass.next > Len(query) \/ value[n] # query[pass.next] THEN pass ELSE Taken(pass, n)

(* One pass from the left, which takes each character of the query at its  *)
(* first place after the one before.                                       *)
scoreSubsequenceMatch(value, query) ==
    LET scan[n \in 0 .. Len(value)] ==
            IF n = 0 THEN [next |-> 1, first |-> 0, last |-> 0, gap |-> 0]
            ELSE Take(scan[n - 1], value, query, n)
        pass == scan[Len(value)]
    IN IF query = <<>> THEN 0 ELSE IF pass.next <= Len(query) THEN NoMatch
       ELSE (pass.first - 1) * 2 + pass.gap * 3 + (pass.last - pass.first + 1 - Len(query))
            + Min({64, Len(value) - Len(query)})

lengthPenalty(value, query) == Min({64, Max({0, Len(value) - Len(query)})})

(* The first place of the query right behind a marker, or -1 *)
findBoundaryMatchIndex(value, query) ==
    LET places == {IndexOf(value, <<m>> \o query) : m \in Markers} \ {-1}
    IN IF places = {} THEN -1 ELSE Min(places) + 1

(* Tiers: the whole value, its start, behind a marker, anywhere, and for   *)
(* tokens of three characters or more in order with gaps. The bases are    *)
(* those of scoreModelPickerSearchToken.                                   *)
scoreQueryMatch(value, query, base) ==
    LET boundary == findBoundaryMatchIndex(value, query)
        includes == IndexOf(value, query)
        fuzzy == scoreSubsequenceMatch(value, query)
    IN IF value = <<>> \/ query = <<>> THEN NoMatch
       ELSE IF value = query THEN base
       ELSE IF includes = 0 THEN base + 2 + lengthPenalty(value, query)
       ELSE IF boundary # -1 THEN base + 4 + boundary * 2 + lengthPenalty(value, query)
       ELSE IF includes # -1 THEN base + 6 + includes * 2 + lengthPenalty(value, query)
       ELSE IF Len(query) >= 3 /\ fuzzy # NoMatch THEN base + 100 + fuzzy
       ELSE NoMatch

(* A row is [name, shortName, driverKind, providerDisplayName], all texts. *)
Joined(text, part) ==
    IF text = <<>> THEN part ELSE IF part = <<>> THEN text ELSE text \o <<Blank>> \o part
buildModelPickerSearchText(row) ==
    normalizeSearchQuery(Joined(Joined(Joined(row.name, row.shortName), row.driverKind), row.providerDisplayName))

getModelPickerSearchFields(row) ==
    <<normalizeSearchQuery(row.name)>>
    \o (IF row.shortName = <<>> THEN <<>> ELSE <<normalizeSearchQuery(row.shortName)>>)
    \o <<normalizeSearchQuery(row.driverKind), normalizeSearchQuery(row.providerDisplayName), buildModelPickerSearchText(row)>>

(* The words between blanks, each at the place of its last character *)
Tokens(query) ==
    LET text == normalizeSearchQuery(query)
        ends == {n \in DOMAIN text : text[n] # Blank /\ (n = Len(text) \/ text[n + 1] = Blank)}
        start(n) == Min({i \in 1 .. n : \A j \in i .. n : text[j] # Blank})
    IN [n \in ends |-> SubSeq(text, start(n), n)]

(* What the fields score for a token, where they match *)
tokenScores(fields, token) ==
    {scoreQueryMatch(fields[i], token, (i - 1) * 10) : i \in DOMAIN fields} \ {NoMatch}

(* Every token must match some field; the best fields' scores add up. *)
scoreModelPickerSearch(row, query) ==
    LET fields == getModelPickerSearchFields(row)
        tokens == Tokens(query)
        score[n \in 0 .. Len(normalizeSearchQuery(query))] ==
            IF n = 0 THEN 0
            ELSE IF n \in DOMAIN tokens THEN score[n - 1] + Min(tokenScores(fields, tokens[n]))
            ELSE score[n - 1]
    IN IF \E k \in DOMAIN tokens : tokenScores(fields, tokens[k]) = {} THEN NoMatch
       ELSE score[Len(normalizeSearchQuery(query))]

(* The reference: a text holds a token in order, without gaps unless it is *)
(* long enough to be searched that way.                                    *)
Holds(text, token) ==
    \E at \in [DOMAIN token -> DOMAIN text] :
        /\ \A i \in DOMAIN token : text[at[i]] = token[i]
        /\ \A i, j \in DOMAIN token : i < j => at[i] < at[j]
        /\ Len(token) < 3 => at[Len(token)] - at[1] < Len(token)
Wanted(row, query) ==
    LET fields == getModelPickerSearchFields(row)
    IN \A k \in DOMAIN Tokens(query) : \E i \in DOMAIN fields : Holds(fields[i], Tokens(query)[k])

(* A search of rows with the given texts: whether anything was typed, the  *)
(* rows that have a score, and those that should.                          *)
Search(names, query) ==
    [typed |-> normalizeSearchQuery(query) # <<>>,
     scored |-> {row \in DOMAIN names : scoreModelPickerSearch(names[row], query) # NoMatch},
     wanted |-> {row \in DOMAIN names : Wanted(names[row], query)}]
=============================================================================
