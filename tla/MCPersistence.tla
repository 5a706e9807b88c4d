--------------------------- MODULE MCPersistence ---------------------------
(***************************************************************************)
(* A small instance of PersistenceClients for TLC: pages of two or three,  *)
(* integers of five bits.                                                  *)
(***************************************************************************)
EXTENDS PersistenceClients

MCTexts == STRING

MCChangedFlags == { Name("flag-b") }
MCFlags == { Name("flag-a"), Name("flag-b"), Name("flag-c") }

\* The id of a handler's key sorts before every other name.
MCNames == << Name("") >> \o SuiteNames

\* The first page, the last and one that is too long; an end, an offset and a
\* page number that do not fit.
MCListPages == { <<0, 0>>, <<2, 2>>, <<1, 5>>, <<6, 3>>, <<9, 2>>, <<17, 2>> }
MCKeyPages == { <<0, 0>> }

=============================================================================
