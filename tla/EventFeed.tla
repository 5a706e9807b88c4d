----------------------------- MODULE EventFeed -----------------------------
(***************************************************************************)
(* What event publishing promises the consumers of any broker: an event is *)
(* about a change that was stored, and arrives no more often than one      *)
(* hand-over may send it.  It may never arrive, and nothing is promised of *)
(* the order, nor that all brokers have the same events.                   *)
(***************************************************************************)
EXTENDS Naturals

CONSTANTS Calls,        \* management calls, each with one change and one event
          Publishers,   \* publisher modules, each with a broker behind it
          Attempts      \* how often a module's client sends one event

VARIABLES
  stored,   \* the changes that were made
  copies    \* copies[p][c]: how often the broker of p took the event of c

feedVars == << stored, copies >>

FeedInit ==
  /\ stored = {}
  /\ copies = [p \in Publishers |-> [c \in Calls |-> 0]]

Store(c) ==
  /\ c \notin stored
  /\ stored' = stored \cup {c}
  /\ UNCHANGED copies

Deliver(p, c) ==
  /\ c \in stored /\ copies[p][c] < Attempts[p]
  /\ copies' = [copies EXCEPT ![p][c] = copies[p][c] + 1]
  /\ UNCHANGED stored

FeedNext == \E c \in Calls : Store(c) \/ \E p \in Publishers : Deliver(p, c)

FeedSpec == FeedInit /\ [][FeedNext]_feedVars

=============================================================================
