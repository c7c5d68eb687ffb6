--------------------------- MODULE MCHttpExchange ---------------------------
EXTENDS HttpExchange, TLC

MCPeer == ("server" :> "client") @@ ("client" :> "server")
MCByte == 0 .. 255 \cup 300 .. 600
MCErrorText == <<69>>

\* A number in decimal is one symbol.
MCDecimal(n) == 300 + n

\* "A", "B": files; "N": no file.
MCDisk == (65 :> <<13, 10, 7>>) @@ (66 :> <<1, 2, 3, 4, 5, 6>>)

\* As client.c writes them; another method; a header line so long that its
\* end is taken for the blank line.
MCRequests ==
    {<<71, f, 13, 10, 104, 13, 10, 13, 10>> : f \in {65, 66, 78}}
    \cup {<<80, 65, 13, 10, 13, 10>>,
          <<71, 65, 13, 10, 104, 104, 104, 104, 104, 13, 10, 13, 10>>}
=============================================================================
