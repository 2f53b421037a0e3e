------------------------------ MODULE Markdown ------------------------------
(***************************************************************************)
(* Markdown of a streaming message (ChatMarkdown.tsx over                  *)
(* markdown-incremental.ts). A render parses only what follows the last    *)
(* closed code fence it has seen and puts the nodes of the part before it, *)
(* kept from an earlier render, in front.                                  *)
(*                                                                         *)
(* A source is a sequence of tokens: three backticks, a newline, a         *)
(* definition [a]: u, or a reference [a], which is text as any other. A    *)
(* line that holds a definition alone defines, unless it continues a       *)
(* paragraph, and turns every reference of the document into a link. CR    *)
(* and BOM, for which the full parser is always used, are left out.        *)
(***************************************************************************)
EXTENDS Integers, Sequences, SequencesExt, FiniteSetsExt

CONSTANTS
    Limit,          \* bound: how often a token occurs
    MaxTokens,      \* bound: tokens of a source
    MaxEdits        \* bound: how often a stored text replaces the streamed one

Fence == "fence"
NL == "newline"
Definition == "definition"
Reference == "reference"

ASSUME MarkdownAssumption ==
    /\ Limit \in [{Fence, NL, Definition, Reference} -> Nat]
    /\ MaxTokens \in Nat /\ MaxEdits \in Nat

VARIABLES
    source,     \* the text of the message
    streaming,
    edits,      \* replacements so far
    incremental,\* the plugin of the last render was the incremental one
    cached      \* its parsed prefix, or NoPrefix

vars == <<source, streaming, edits, incremental, cached>>

NoPrefix == [source |-> <<>>, offset |-> 0, line |-> 1, children |-> <<>>]

---------------------------------------------------------------------------
(* The parser. Positions are the offsets before the first and behind the   *)
(* last token of a node, from 0, and their lines.                          *)

(* The lines of a text, each with the offset of its first token *)
Lines(text) ==
    LET step(acc, token) ==
            IF token = NL
            THEN Append(acc, [start |-> acc[Len(acc)].start + Len(acc[Len(acc)].tokens) + 1, tokens |-> <<>>])
            ELSE [acc EXCEPT ![Len(acc)].tokens = Append(@, token)]
    IN FoldLeft(step, <<[start |-> 0, tokens |-> <<>>]>>, text)

(* How many fences a line begins with, if nothing, or an info string       *)
(* without backticks, follows them                                         *)
Run(tokens) ==
    LET others == {i \in DOMAIN tokens : tokens[i] # Fence}
    IN IF others = {} THEN Len(tokens) ELSE Min(others) - 1
Opens(tokens) == Run(tokens) > 0 /\ \A i \in DOMAIN tokens : i > Run(tokens) => tokens[i] # Fence
Closes(tokens, opening) == Run(tokens) >= opening /\ Run(tokens) = Len(tokens)

Node(type, line, n) ==
    [type |-> type, start |-> line.start, end |-> line.start + Len(line.tokens), line |-> n, last |-> n,
     content |-> <<line.tokens>>, links |-> FALSE]

(* The last node goes on with a line. *)
Extend(nodes, line, n) ==
    [nodes EXCEPT ![Len(nodes)].end = line.start + Len(line.tokens), ![Len(nodes)].last = n,
                  ![Len(nodes)].content = Append(@, line.tokens)]

(* Blocks, line by line: opening is the length of the fence that is open,  *)
(* para says whether the last node is a paragraph that may go on.          *)
Block(acc, line, tokens, n) ==
    CASE acc.opening > 0 ->
            [acc EXCEPT !.nodes = Extend(@, line, n), !.opening = IF Closes(tokens, @) THEN 0 ELSE @]
      [] acc.opening = 0 /\ tokens = <<>> -> [acc EXCEPT !.para = FALSE]
      [] acc.opening = 0 /\ Opens(tokens) ->
            [nodes |-> Append(acc.nodes, Node("code", line, n)), opening |-> Run(tokens), para |-> FALSE]
      [] acc.opening = 0 /\ tokens # <<>> /\ ~Opens(tokens) /\ acc.para -> [acc EXCEPT !.nodes = Extend(@, line, n)]
      [] acc.opening = 0 /\ ~acc.para /\ tokens = <<Definition>> ->
            [acc EXCEPT !.nodes = Append(@, Node("definition", line, n))]
      [] OTHER -> [acc EXCEPT !.nodes = Append(@, Node("paragraph", line, n)), !.para = TRUE]

Blocks(lines) ==
    LET step(acc, n) == Block(acc, lines[n], lines[n].tokens, n)
    IN FoldLeft(step, [nodes |-> <<>>, opening |-> 0, para |-> FALSE], [n \in 1 .. Len(lines) |-> n]).nodes

hasDefinitions(nodes) == \E i \in DOMAIN nodes : nodes[i].type = "definition"

(* A reference links if the text that is parsed defines it. *)
Refers(node) == node.type = "paragraph" /\ \E k \in DOMAIN node.content : Reference \in ToSet(node.content[k])
Linked(nodes) == [i \in DOMAIN nodes |-> [nodes[i] EXCEPT !.links = hasDefinitions(nodes) /\ Refers(nodes[i])]]
Parse(text) == Linked(Blocks(Lines(text)))

---------------------------------------------------------------------------
(* The incremental parser *)

shiftPositions(nodes, offset, lines) ==
    [i \in DOMAIN nodes |->
        [nodes[i] EXCEPT !.start = @ + offset, !.end = @ + offset, !.line = @ + lines, !.last = @ + lines]]

HasPrefix(text, prefix) == prefix # NoPrefix /\ IsPrefix(prefix.source, text)

(* Mutant of Root: definitions in the rest are not looked for. *)
RootForgetsDefinitions(text, prefix) ==
    IF ~HasPrefix(text, prefix) THEN Parse(text)
    ELSE prefix.children
         \o shiftPositions(Parse(SubSeq(text, prefix.offset + 1, Len(text))), prefix.offset, prefix.line - 1)

(* The nodes of a text: whether they are complete for the document is what *)
(* the check for definitions decides.                                      *)
Root(text, prefix) ==
    LET rest == Parse(SubSeq(text, prefix.offset + 1, Len(text)))
    IN IF ~HasPrefix(text, prefix) \/ hasDefinitions(rest) THEN Parse(text)
       ELSE prefix.children \o shiftPositions(rest, prefix.offset, prefix.line - 1)

(* A code node is a boundary when its last line closes its first and a     *)
(* blank line that has ended follows.                                      *)
Boundary(text, node) ==
    LET lines == Lines(SubSeq(text, node.start + 1, node.end))
    IN /\ node.type = "code" /\ Len(lines) > 1
       /\ Closes(lines[Len(lines)].tokens, Run(lines[1].tokens))
       /\ Len(text) >= node.end + 2 /\ text[node.end + 1] = NL /\ text[node.end + 2] = NL

(* Mutant of Cache: the first boundary is kept, not the last. *)
CacheFirst(text, prefix) ==
    LET root == Root(text, prefix)
        ends == {i \in DOMAIN root : Boundary(text, root[i])}
        i == Min(ends)
        offset == root[i].end + 2
    IN IF hasDefinitions(root) \/ ends = {} THEN prefix
       ELSE [source |-> SubSeq(text, 1, offset), offset |-> offset, line |-> root[i].last + 2,
             children |-> SubSeq(root, 1, i)]

(* The cache after a render: it moves to the last boundary behind the one  *)
(* it has, and stays where a definition asked for a full parse.            *)
Cache(text, prefix) ==
    LET root == Root(text, prefix)
        kept == HasPrefix(text, prefix)
        ends == {i \in DOMAIN root : Boundary(text, root[i]) /\ (kept => root[i].end >= prefix.offset)}
        i == Max(ends)
        offset == root[i].end + 2
    IN IF hasDefinitions(root) \/ ends = {} THEN prefix
       ELSE [source |-> SubSeq(text, 1, offset), offset |-> offset, line |-> root[i].last + 2,
             children |-> SubSeq(root, 1, i)]

---------------------------------------------------------------------------
(* The incremental plugin is used while the message streams and a line of  *)
(* it begins with a fence; it has a cache of its own each time it is made. *)
Incremental == streaming /\ \E i \in DOMAIN source : source[i] = Fence /\ (i = 1 \/ source[i - 1] = NL)

Init ==
    /\ source = <<>> /\ streaming = TRUE /\ edits = 0
    /\ incremental = FALSE /\ cached = NoPrefix

Occurs(token) == Cardinality({i \in DOMAIN source : source[i] = token})

(* More of the text arrives; a render may or may not see it on its own. *)
Arrive(token) ==
    /\ streaming /\ Len(source) < MaxTokens /\ Occurs(token) < Limit[token]
    /\ source' = Append(source, token)
    /\ UNCHANGED <<streaming, edits, incremental, cached>>

(* The text of an item is replaced by another: a token fewer stands for    *)
(* any text that does not extend the one before.                           *)
Replace(i) ==
    /\ edits < MaxEdits /\ i \in DOMAIN source
    /\ source' = RemoveAt(source, i) /\ edits' = edits + 1
    /\ UNCHANGED <<streaming, incremental, cached>>

Render ==
    /\ incremental' = Incremental
    /\ cached' = IF ~Incremental THEN NoPrefix
                 ELSE Cache(source, IF incremental THEN cached ELSE NoPrefix)
    /\ UNCHANGED <<source, streaming, edits>>

Ends ==
    /\ streaming /\ streaming' = FALSE
    /\ UNCHANGED <<source, edits, incremental, cached>>

Next ==
    \/ \E token \in DOMAIN Limit : Arrive(token)
    \/ \E i \in 1 .. MaxTokens : Replace(i)
    \/ Render \/ Ends

Spec == Init /\ [][Next]_vars

---------------------------------------------------------------------------
(* What a render shows now *)
Shown == IF Incremental /\ incremental THEN Root(source, cached) ELSE Parse(source)

(* A message rendered token by token looks as if it was parsed whole:      *)
(* the same blocks at the same positions, the same links, whichever of its *)
(* prefixes were rendered before and whatever replaced them.               *)
IncrementalIsFull == Shown = Parse(source)

(* The code-heavy part of a message is not parsed on every token: a render *)
(* leaves no completed fence, unless something is defined, in what the     *)
(* next render has to parse.                                               *)
PrefixIsLongest ==
    [][Render /\ incremental' =>
        LET nodes == Parse(source)
        IN hasDefinitions(nodes)
           \/ \A i \in DOMAIN nodes : Boundary(source, nodes[i]) => nodes[i].end < cached'.offset]_vars
=============================================================================
