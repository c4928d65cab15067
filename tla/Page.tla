-------------------------------- MODULE Page --------------------------------
(***************************************************************************)
(* The page beside the flash it asks for (Flasher): its stream and the     *)
(* socket that has gone (src/ui/src/stream.ts), what the box at the foot   *)
(* sends and when (paced.js), the stop, the cut and the write (flash.js),  *)
(* and how it follows one by asking the face (dccex-app.ts).               *)
(*                                                                         *)
(* One page, and one of the Gestures is its own; the others are of other   *)
(* pages.  A step is a task of the page's event loop.  What the box is     *)
(* given is a message that waits for a PROG reply or one that does not.    *)
(***************************************************************************)
EXTENDS Flasher, Sequences, SequencesExt

CONSTANTS
  Here,       \* this page's gesture
  MaxList,    \* bound: the messages typed at once
  MaxTyped    \* bound: how often somebody types while the box is sending

ASSUME PageAssumption ==
  Here \in Gestures /\ MaxList \in Nat /\ MaxTyped \in Nat

VARIABLES
  socket,     \* Stream's: "waiting" for REOPEN_MS, or where the one it has is
  queued,     \* Pacing.queued: what awaits a reply, on which stream
  awaiting,   \* Pacing.awaiting, and REPLY_MS runs for as long
  flying,     \* the page's `flashing`: the flash it was told of
  writing,    \* `#writing`, and the step on the releases row
  ask,        \* the one ask about a flash: on its way to the face, or back
  answer,     \* and what comes back of it
  post,       \* what became of the POST
  readied,    \* history: what went up the stream before the POST in flight
  heldOver,   \* history: a message went up a stream opened after it was typed
  typed       \* how often somebody has typed while the box sends

boxVars    == <<queued, awaiting, heldOver, typed>>
followVars == <<flying, ask, answer>>
gestVars   == <<writing, post, readied>>
pageVars   == <<socket, boxVars, followVars, gestVars>>
allVars    == <<vars, pageVars>>

\* `now` (history): no stream has opened since this was typed.
Messages == [prog : BOOLEAN, now : BOOLEAN]
Idle     == queued' = <<>> /\ awaiting' = FALSE

Counted(n) == typed' = IF queued' = <<>> /\ ~awaiting' THEN 0 ELSE n

PageInit ==
  /\ Init
  /\ socket = "dialling" /\ queued = <<>> /\ awaiting = FALSE
  /\ flying = None /\ ask = "out" /\ answer = None
  /\ writing = FALSE /\ post = "none" /\ readied = <<>>
  /\ heldOver = FALSE /\ typed = 0

\* `send` would send.
Ready == socket = "open"

-----------------------------------------------------------------------------
(* The box at the foot.                                                    *)

\* The first n of `q` go now: up to one that waits for its reply, or all.
Going(q, n) ==
  /\ \A i \in 1..(n - 1) : ~q[i].prog
  /\ q[n].prog \/ n = Len(q)

\* `#paces` over `q`, nothing awaited: a stream that has gone takes nothing,
\* and the list stops there.
Paces(q) ==
  IF q # <<>> /\ Ready
    THEN \E n \in 1..Len(q) :
           /\ Going(q, n)
           /\ queued' = SubSeq(q, n + 1, Len(q)) /\ awaiting' = q[n].prog
           /\ heldOver' = IF \E i \in 1..n : ~q[i].now THEN TRUE ELSE heldOver
    ELSE Idle /\ UNCHANGED heldOver

\* `#types`: a list waits behind what is there.
Types ==
  /\ Ready /\ typed < MaxTyped
  /\ \E list \in SeqOf([prog : BOOLEAN, now : {TRUE}], MaxList) \ {<<>>} :
       IF awaiting
         THEN queued' = queued \o list /\ UNCHANGED <<awaiting, heldOver>>
         ELSE Paces(queued \o list)
  /\ Counted(typed + 1)
  /\ UNCHANGED <<vars, socket, followVars, gestVars>>

\* A PROG reply is heard, to this page's message or another client's: one that
\* says the command failed stops the list.
HearsReply(failed) ==
  /\ Ready /\ awaiting
  /\ IF failed THEN Idle /\ UNCHANGED heldOver ELSE Paces(queued)
  /\ Counted(typed) /\ UNCHANGED <<vars, socket, followVars, gestVars>>

\* No reply came within REPLY_MS: the next message goes.
Waited ==
  /\ awaiting /\ Paces(queued)
  /\ Counted(typed) /\ UNCHANGED <<vars, socket, followVars, gestVars>>

-----------------------------------------------------------------------------
(* The stream.                                                             *)

\* What still waits, if anything does, was typed at another stream.
Opens ==
  /\ socket = "dialling" /\ socket' = "open"
  /\ queued' = [i \in DOMAIN queued |-> [queued[i] EXCEPT !.now = FALSE]]
  /\ UNCHANGED <<vars, awaiting, heldOver, typed, followVars, gestVars>>

\* The mirror's port, the face or the network ends it; its `close` is to come.
Ends ==
  /\ socket \in {"dialling", "open"} /\ socket' = "closing"
  /\ UNCHANGED <<vars, boxVars, followVars, gestVars>>

\* Mutant of Gone: what waits is sent when the stream is back.
GoneHolding ==
  /\ socket = "closing" /\ socket' = "waiting"
  /\ UNCHANGED <<vars, boxVars, followVars, gestVars>>

\* `#gone`: the list stops, and another is opened in REOPEN_MS.
Gone ==
  /\ socket = "closing" /\ socket' = "waiting" /\ Idle /\ Counted(0)
  /\ UNCHANGED <<vars, heldOver, followVars, gestVars>>

Dials ==
  /\ socket = "waiting" /\ socket' = "dialling"
  /\ UNCHANGED <<vars, boxVars, followVars, gestVars>>

-----------------------------------------------------------------------------
(* The flash.                                                              *)

\* `#follows`: one ask at a time.
Follows ==
  /\ ask' = IF ask = "no" THEN "out" ELSE ask
  /\ UNCHANGED answer

\* What `sequence` puts up the stream before it asks for the write.
Steps == IF Ready THEN <<"stop", "cut">> ELSE <<>>

\* Mutant of Confirmed: the write is asked for whatever went.
ConfirmedAnyway ==
  /\ ~writing /\ flying = None /\ writing' = TRUE
  /\ post' = "sent" /\ readied' = Steps /\ Follows
  /\ UNCHANGED <<vars, socket, boxVars, flying>>

\* `#flashes`: the operator has said yes, and a step that did not leave the
\* page would have ended it.
Confirmed ==
  /\ ~writing /\ flying = None /\ Len(Steps) = 2 /\ writing' = TRUE
  /\ post' = "sent" /\ readied' = Steps /\ Follows
  /\ UNCHANGED <<vars, socket, boxVars, flying>>

\* The POST is read by the face: a task is made, or it is refused.
PostArrives ==
  /\ post = "sent"
  /\ IF stage[Here] = "none"
       THEN /\ Wanted(Here, FALSE)
            /\ post' = IF stage'[Here] = "none" THEN "answered" ELSE "asked"
       ELSE app \in {"up", "closing"} /\ post' = "answered" /\ UNCHANGED vars
  /\ UNCHANGED <<socket, boxVars, followVars, writing, readied>>

\* The face is not to be reached.
PostFails ==
  /\ post = "sent" /\ post' = "answered"
  /\ UNCHANGED <<vars, socket, boxVars, followVars, writing, readied>>

\* Or its connection is lost while the flash goes on.
PostLost ==
  /\ post = "asked" /\ GoesAway(Here) /\ post' = "answered"
  /\ UNCHANGED <<socket, boxVars, followVars, writing, readied>>

\* `#writes` ends and asks once more how far it is.
PostOver ==
  /\ post = "answered" \/ (post = "asked" /\ caller[Here] = "idle")
  /\ post' = "none" /\ writing' = FALSE /\ Follows
  /\ readied' = IF stage[Here] = "none" THEN <<>> ELSE readied
  /\ UNCHANGED <<vars, socket, boxVars, flying>>

\* Mutant of Tick: a flash somebody else asked for is not followed.
TickOwn ==
  /\ writing /\ ask = "no" /\ Follows
  /\ UNCHANGED <<vars, socket, boxVars, flying, gestVars>>

\* FOLLOW_MS.
Tick ==
  /\ flying # None \/ writing
  /\ ask = "no" /\ Follows
  /\ UNCHANGED <<vars, socket, boxVars, flying, gestVars>>

\* The face says what flash is in flight, where it could be asked.
FaceSays ==
  /\ ask = "out" /\ ask' = "back"
  /\ \/ answer' = None
     \/ app \in {"up", "closing"} /\ doing # "none" /\ answer' = flashing
  /\ UNCHANGED <<vars, socket, boxVars, flying, gestVars>>

Told ==
  /\ ask = "back" /\ ask' = "no" /\ flying' = answer /\ answer' = None
  /\ UNCHANGED <<vars, socket, boxVars, gestVars>>

\* The page is loaded anew, and whatever it waited for is let go: a POST the
\* face has not read by then is taken as not sent.
Loads ==
  /\ socket' = "dialling" /\ Idle /\ Counted(0)
  /\ flying' = None /\ ask' = "out" /\ answer' = None
  /\ writing' = FALSE /\ post' = "none"
  /\ IF post = "asked" /\ caller[Here] = "waiting"
       THEN GoesAway(Here) ELSE UNCHANGED vars
  /\ UNCHANGED <<heldOver, readied>>

-----------------------------------------------------------------------------
Box    == Types \/ (\E failed \in BOOLEAN : HearsReply(failed)) \/ Waited
Wire   == Opens \/ Ends \/ Gone \/ Dials
Press  == Confirmed \/ PostArrives \/ PostFails \/ PostLost \/ PostOver
Follow == Tick \/ FaceSays \/ Told

\* Everybody else's gestures, and every flash whoever asked for it.
Elsewhere ==
  /\ \/ Mirroring \/ Ending
     \/ \E g \in Gestures : Flash(g)
     \/ \E g \in Gestures \ {Here} : Gesture(g)
  /\ UNCHANGED pageVars

PageNext == Box \/ Wire \/ Press \/ Follow \/ Loads \/ Elsewhere

PageSpec == PageInit /\ [][PageNext]_allVars

(* Flasher's, and the page's: FOLLOW_MS runs, and what it asks is answered  *)
(* or fails, which the page is told.                                        *)
PageFairness ==
  Fairness /\ WF_allVars(Tick) /\ WF_allVars(FaceSays) /\ WF_allVars(Told)

FairPageSpec == PageSpec /\ PageFairness

-----------------------------------------------------------------------------
(* Properties.                                                             *)

\* Every variable of the page stays in its type.
PageTypeOK ==
  /\ socket \in {"waiting", "dialling", "open", "closing"}
  /\ queued \in Seq(Messages) /\ awaiting \in BOOLEAN
  /\ flying \in Gestures \cup {None} /\ answer \in Gestures \cup {None}
  /\ ask \in {"no", "out", "back"} /\ writing \in BOOLEAN
  /\ post \in {"none", "sent", "asked", "answered"}
  /\ readied \in {<<>>, <<"stop", "cut">>}
  /\ heldOver \in BOOLEAN /\ typed \in 0..MaxTyped

\* "stops the locomotives, cuts track power, and only then asks the face to
\* write" (flash.js:14): no flash of this page's is in flight, whatever became
\* of the page since, but behind a stop and a cut that had left it.
StoppedFirst == stage[Here] # "none" => readied = <<"stop", "cut">>

\* "Nothing is held to be sent when one does" (stream.ts:106): no message goes
\* up a stream that was opened after it was typed, however the list, the reply
\* it waits for, the timer and the socket's end fall.
NothingHeldOver == ~heldOver

\* A page does not go on drawing a flash that is over, whoever asked for it and
\* however late its asks are answered (dccex-app.ts:798).
BarFalls ==
  \A g \in Gestures :
    flying = g /\ stage[g] = "none" ~> flying # g \/ stage[g] # "none"

-----------------------------------------------------------------------------
(* The page's part of the inductive invariant: what waits was typed at the *)
(* stream there is, nothing waits between two streams, and a POST that is  *)
(* out has a stop and a cut before it.                                     *)

TypedHere ==
  /\ queued \in Seq(Messages)
  /\ socket \in {"open", "closing"} => \A i \in DOMAIN queued : queued[i].now
  /\ socket \in {"waiting", "dialling"} => queued = <<>> /\ ~awaiting
  /\ NothingHeldOver
Prepared ==
  /\ post \in {"sent", "asked"} => readied = <<"stop", "cut">>
  /\ StoppedFirst
=============================================================================
