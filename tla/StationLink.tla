---------------------------- MODULE StationLink ----------------------------
(***************************************************************************)
(* What the translator promises of its link to the station                 *)
(* (src/src/dccex/translator.py, run, _session, _heard and _publish_link): *)
(* the word on the bus goes up with an answer and with nothing else, an    *)
(* open connection is none, and it goes down with the silence, or with the *)
(* session that gave it, ahead of the next one.                            *)
(*                                                                         *)
(* Translator and Supply each model the link beside what they are about,   *)
(* one with a connection and its bytes and one with the journal: both      *)
(* implement this.                                                         *)
(***************************************************************************)
VARIABLES
  session,  \* "none", "open", "closing" once its poll has ended, or "over"
  heard,    \* the station is answering: `_answered`
  up,       \* the row's word: `_reached`
  broken    \* the journal takes no line, which is written ahead of the word

linkVars == <<session, heard, up, broken>>

LinkInit == session = "none" /\ ~heard /\ ~up /\ ~broken

\* A connection is made, which says nothing.
Opens == session = "none" /\ session' = "open" /\ UNCHANGED <<heard, up, broken>>

\* A message is read.
Hears ==
  /\ session = "open" /\ heard' = TRUE /\ up' = TRUE
  /\ UNCHANGED <<session, broken>>

\* The polls go unanswered for too long; the session stays.
FallsSilent ==
  /\ session = "open" /\ heard /\ heard' = FALSE
  /\ up' = (up /\ broken)
  /\ UNCHANGED <<session, broken>>

\* The session is left, and all that was heard in it with it.
Leaves ==
  /\ session = "open" /\ session' = "closing" /\ heard' = FALSE
  /\ UNCHANGED <<up, broken>>

\* The connection is closed, and that is said.
Closes ==
  /\ session = "closing" /\ session' \in {"none", "over"} /\ up' = FALSE
  /\ UNCHANGED <<heard, broken>>

\* The task is cancelled between two sessions, or while one is closed.
Ends ==
  /\ session \in {"none", "closing"} /\ session' = "over"
  /\ UNCHANGED <<heard, up, broken>>

\* Or dies of a journal it cannot write, in the middle of a message perhaps.
Breaks == ~broken /\ broken' = TRUE /\ UNCHANGED <<session, heard, up>>
Dies ==
  /\ broken /\ session # "over" /\ session' = "over"
  /\ heard' \in {heard, TRUE} /\ UNCHANGED <<up, broken>>

LinkNext ==
  Opens \/ Hears \/ FallsSilent \/ Leaves \/ Closes \/ Ends \/ Breaks \/ Dies

LinkSpec == LinkInit /\ [][LinkNext]_linkVars

-----------------------------------------------------------------------------
\* What it comes to (translator.py:1085, `_lower_if_silent`): a word that is up
\* is of a station that answers, but in the turn a session that has ended takes
\* to close, or after the end; and where nobody listens it is down.
UpIsAnswering ==
  ~broken => /\ up => heard \/ session \in {"closing", "over"}
             /\ heard => up /\ session = "open"
=============================================================================
