----------------------------- MODULE MCSettings -----------------------------
(* Small instances of Settings.                                            *)
EXTENDS Settings

CONSTANTS a1, a2, name, blank

\* Shared by 1, 2, 3, 5 or 8 threads, these numbers leave nothing, or a rest, or less
\* than one for each thread.
MCCores == {0, 1, 2}
MCNumber == {0, 3, 5, 8}
MCAddress == {a1, a2}
MCOther == {name}

=============================================================================
