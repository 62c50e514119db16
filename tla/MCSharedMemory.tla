--------------------------- MODULE MCSharedMemory ---------------------------
(* The shared-memory channel with a few clients, workers and texts.        *)
EXTENDS SharedMemory, TLC

\* The one client program of the repository always writes the same text, so
\* texts have one length, unless they fill the memory, which ends the server.
MCTexts == {<<"a", "b">>, <<"c", "d">>, <<"e", "f", "g">>}

\* Any client may use writeData: a long text and a short one.
MCTextsOfAnyLength == {<<"a", "b">>, <<"c">>}

MCNul == "0"
=============================================================================
