----------------------------- MODULE MCMarkdown -----------------------------
EXTENDS Markdown
MCLimit == (Fence :> 4) @@ (NL :> 6) @@ (Definition :> 1) @@ (Reference :> 1)
=============================================================================
