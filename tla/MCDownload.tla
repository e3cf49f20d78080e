----------------------------- MODULE MCDownload -----------------------------
EXTENDS Download

\* Three files: the first is longer than the window and the EOF block of it
\* has the largest number a short holds; the second fills the window without
\* its EOF block.  The server may refuse the third, which is short, or the
\* client be unable to create it.
MCBlocks == <<6, 3, 1>>
MCRefusedSets == {{}, {3}}
MCUnwritableSets == {{}, {3}}
=============================================================================
