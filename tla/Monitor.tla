------------------------------ MODULE Monitor ------------------------------
(***************************************************************************)
(* The face's port (src/src/dccex_usb/face.py, Server) and the stream a    *)
(* monitor rides on it (Monitor): a browser at one end, and at the other a *)
(* client of the mirror's port like any other (FanOut, one of whose        *)
(* Clients is Page).                                                       *)
(*                                                                         *)
(* One caller at a time: what one does to another goes through the mirror. *)
(* A step is what a task does between two awaits.  Frames are counted, and *)
(* not bytes.                                                              *)
(***************************************************************************)
EXTENDS FanOut

CONSTANTS
  Page,        \* the client of the mirror's port that is a monitor's stream
  HighWater,   \* the frames past which asyncio has a drain wait
  LowWater     \* and those at which the wait is over

ASSUME MonitorAssumption ==
  Page \in Clients /\ LowWater \in Nat /\ HighWater \in Nat /\ LowWater <= HighWater

VARIABLES
  browser,    \* the caller's connection
  frames,     \* what has been written to it and it has not taken
  stage,      \* where `_asked` is
  at,         \* where `_to_browser` ("up") and `_to_station` ("down") are
  says,       \* the frame each has in hand
  saying,     \* who is in line at the lock `_saying`, its holder first
  face,       \* the server
  missed      \* history: `close` found a caller whose handler had not begun

pageVars    == <<browser, frames>>
streamVars  == <<at, says, saying>>
faceVars    == <<face, missed>>
monitorVars == <<mirrorVars, pageVars, stage, streamVars, faceVars>>

Directions == {"up", "down"}

Init ==
  /\ MirrorInit /\ browser = "none" /\ frames = <<>> /\ stage = "none"
  /\ at = [d \in Directions |-> "off"] /\ says = [d \in Directions |-> "none"]
  /\ saying = <<>> /\ face = "up" /\ missed = FALSE

\* The page's client of the mirror's port is served.
Ported == conn[Page] \in {"open", "eof"}

\* This end of the port is aborted, which is the mirror losing it.
LetGoOfPort == IF Ported THEN Lost(Page) ELSE UNCHANGED mirrorVars

\* The connection can still be written to.
Writable == browser \in {"open", "left"}

-----------------------------------------------------------------------------
(* The caller's connection.                                                *)

Connect ==
  /\ face = "up" /\ browser = "none" /\ stage = "none"
  /\ browser' = "open" /\ stage' = "accepted"
  /\ UNCHANGED <<mirrorVars, frames, streamVars, faceVars>>

PageTakes ==
  /\ frames # <<>> /\ frames' = Tail(frames)
  /\ UNCHANGED <<mirrorVars, browser, stage, streamVars, faceVars>>

\* It closes its end, or the connection is reset.
PageCloses ==
  /\ browser = "open" /\ browser' = "left"
  /\ UNCHANGED <<mirrorVars, frames, stage, streamVars, faceVars>>
PageLost ==
  /\ browser \in {"open", "left", "closing"} /\ browser' = "lost" /\ frames' = <<>>
  /\ UNCHANGED <<mirrorVars, stage, streamVars, faceVars>>

\* asyncio's `connection_lost`: what was closed has been flushed, or was lost.
Detached ==
  /\ (browser = "closing" /\ frames = <<>>) \/ browser = "lost"
  /\ stage = "none" /\ browser' = "none"
  /\ UNCHANGED <<mirrorVars, frames, stage, streamVars, faceVars>>

-----------------------------------------------------------------------------
(* The exchange: `_asked`, `_exchange`, `_answered`.                       *)

Begins ==
  /\ stage = "accepted" /\ stage' = "asked"
  /\ UNCHANGED <<mirrorVars, pageVars, streamVars, faceVars>>

\* A place on the mirror's port, where there is one to be had.
Joined == stage' = "handing" /\ Join(Page)

\* The request is read, and `face.answer` is awaited for as long as it takes.
Requested ==
  /\ stage = "asked" /\ stage' = "answering"
  /\ UNCHANGED <<mirrorVars, pageVars, streamVars, faceVars>>

\* It is answered with a sentence, which what is no request is at once, or with
\* a place on the mirror's port and the upgrade: written, where there is still
\* anybody to write to.
Answered ==
  /\ \/ stage \in {"asked", "answering"} /\ stage' = "taking" /\ UNCHANGED mirrorVars
     \/ stage = "answering" /\ Joined
  /\ frames' = IF Writable THEN <<"answer">> ELSE frames
  /\ UNCHANGED <<browser, streamVars, faceVars>>

\* `_taken`: all of the answer is on its way and the connection is closed.
Taken ==
  /\ stage = "taking" /\ frames = <<>> /\ Writable
  /\ stage' = "none" /\ browser' = "closing"
  /\ UNCHANGED <<mirrorVars, frames, streamVars, faceVars>>

\* `_handed`: the upgrade is written and the stream is ridden.
Handed ==
  /\ stage = "handing" /\ Len(frames) <= HighWater /\ Writable
  /\ stage' = "riding" /\ at' = [d \in Directions |-> "reading"]
  /\ UNCHANGED <<mirrorVars, pageVars, says, saying, faceVars>>

\* Mutant of GivenUp: only the browser's side is aborted.
GivenUpHalf ==
  /\ stage' = "none" /\ browser' = "lost" /\ frames' = <<>>
  /\ UNCHANGED <<mirrorVars, streamVars, faceVars>>

\* The exchange ends badly: both sides are aborted.
GivenUp ==
  /\ stage' = "none" /\ browser' = "lost" /\ frames' = <<>>
  /\ IF stage = "handing" THEN LetGoOfPort ELSE UNCHANGED mirrorVars
  /\ UNCHANGED <<streamVars, faceVars>>

\* Mutant of Impatient: an answer is waited on for as long as it takes.
ImpatientToAsk == stage = "asked" /\ GivenUp

\* `patience_s` has run out on the caller.
Impatient == stage \in {"asked", "taking", "handing"} /\ GivenUp

\* The connection ends under the exchange, which one that waits for its answer
\* does not notice.
Broken ==
  /\ stage \in {"asked", "taking", "handing"}
  /\ browser = "lost" \/ (browser = "left" /\ stage = "asked")
  /\ GivenUp

-----------------------------------------------------------------------------
(* The stream: `Monitor`.                                                  *)

\* Nobody is in line at `_saying`.
LockFree == saying = <<>>

\* What a direction goes on to when its frame is written and taken.
After(frame) == IF frame = "bye" THEN "done" ELSE "reading"

\* Mutant of Written: the drain is not waited for.
WrittenUnwaited(frame) == IF Writable THEN After(frame) ELSE "done"

\* Where the writing of `frame` leaves a direction: a drain above the high
\* water mark waits, and a connection that is lost raises.
Written(frame) ==
  CASE ~Writable                    -> "done"
    [] Len(frames) + 1 > HighWater  -> "draining"
    [] OTHER                        -> After(frame)

\* The line at the lock once `d`, which may be its holder, has gone on.
Behind(d) == IF ~LockFree /\ Head(saying) = d THEN Tail(saying) ELSE saying

\* `d` writes `frame`, and has the lock for as long as the drain waits.
Writes(d, frame) ==
  /\ frames' = IF Writable THEN Append(frames, frame) ELSE frames
  /\ at' = [at EXCEPT ![d] = Written(frame)]
  /\ saying' = CASE Written(frame) # "draining" -> Behind(d)
                 [] Written(frame) = "draining"  -> IF LockFree THEN <<d>> ELSE saying

\* `_say`.
Say(d, frame) ==
  /\ says' = [says EXCEPT ![d] = frame]
  /\ IF LockFree
       THEN Writes(d, frame)
       ELSE /\ at' = [at EXCEPT ![d] = "waiting"] /\ saying' = Append(saying, d)
            /\ UNCHANGED frames
  /\ UNCHANGED <<browser, stage, faceVars>>

\* The lock is `d`'s.
Turn(d) ==
  /\ at[d] = "waiting" /\ Head(saying) = d /\ Writes(d, says[d])
  /\ UNCHANGED <<mirrorVars, browser, stage, says, faceVars>>

\* A direction's wait is over.
Goes(d, on) ==
  /\ at' = [at EXCEPT ![d] = on]
  /\ saying' = Behind(d)
  /\ UNCHANGED <<mirrorVars, pageVars, stage, says, faceVars>>

\* The browser has taken enough, or is lost.
Drained(d) ==
  /\ at[d] = "draining" /\ (Len(frames) <= LowWater \/ browser = "lost")
  /\ Goes(d, IF browser = "lost" THEN "done" ELSE After(says[d]))

\* `_to_browser`: a read off the mirror's port, framed.
Hears ==
  /\ at["up"] = "reading" /\ \E n \in 1..ReadSize : Takes(Page, n)
  /\ Say("up", "data")

\* Mutant of HearsNoMore: a read of nothing is framed like any other.
HearsNothing ==
  /\ at["up"] = "reading" /\ ~Ported /\ Say("up", "data") /\ UNCHANGED mirrorVars

\* The mirror let this client go.
HearsNoMore ==
  /\ at["up"] = "reading" /\ ~Ported /\ Say("up", "bye") /\ UNCHANGED mirrorVars

\* `_to_station`: a frame of the browser's.  It is bytes for the port, which
\* may be slow to take them; a ping; or the end, its own or an unreadable one's.
Reads ==
  /\ at["down"] = "reading" /\ browser = "open"
  /\ \/ Goes("down", "writing")
     \/ UNCHANGED mirrorVars /\ \E frame \in {"pong", "bye"} : Say("down", frame)

\* The port has taken what was typed.
PortTakes == at["down"] = "writing" /\ Ported /\ Goes("down", "reading")

\* There is no port to take it.
PortGone == at["down"] = "writing" /\ ~Ported /\ Goes("down", "done")

\* Mutant of ReadsNoMore: a connection that is reset is not noticed.
ReadsItsEnd ==
  at["down"] = "reading" /\ browser = "left" /\ Goes("down", "done")

\* The browser is gone.
ReadsNoMore ==
  at["down"] = "reading" /\ browser \in {"left", "lost"} /\ Goes("down", "done")

\* Either direction ending ends the other and lets go of the port; then
\* `_asked` closes the browser's side.
RiddenEnds ==
  /\ stage = "riding" /\ \E d \in Directions : at[d] = "done"
  /\ at' = [d \in Directions |-> "off"] /\ says' = [d \in Directions |-> "none"]
  /\ saying' = <<>>
  /\ stage' = "none" /\ browser' = IF Writable THEN "closing" ELSE browser
  /\ LetGoOfPort /\ UNCHANGED <<frames, faceVars>>

-----------------------------------------------------------------------------
(* The end of the face.                                                    *)

\* Mutant of FaceCloses: who is being answered is waited on.
FaceClosesPolitely ==
  /\ face = "up" /\ face' = "closing" /\ missed' = (stage = "accepted")
  /\ UNCHANGED <<mirrorVars, pageVars, stage, streamVars>>

\* `close`: whoever is in `_asking` is aborted.
FaceCloses ==
  /\ face = "up" /\ face' = "closing" /\ missed' = (stage = "accepted")
  /\ IF stage \in {"none", "accepted"}
       THEN UNCHANGED pageVars
       ELSE browser' = "lost" /\ frames' = <<>>
  /\ UNCHANGED <<mirrorVars, stage, streamVars>>

\* `wait_closed`: every connection has ended.
FaceClosed ==
  /\ face = "closing" /\ browser \in {"none", "lost"} /\ face' = "closed"
  /\ UNCHANGED <<mirrorVars, pageVars, stage, streamVars, missed>>

-----------------------------------------------------------------------------
\* What the mirror does of itself, and what its other clients do.
Mirrored == /\ \/ \E n \in 1..ReadSize : FanOut(n)
               \/ Lost(Page)
               \/ Leave(Page)
               \/ \E c \in Clients \ {Page} : Client(c)
            /\ UNCHANGED <<pageVars, stage, streamVars, faceVars>>

Caller   == Connect \/ PageTakes \/ PageCloses \/ PageLost
Exchange == Begins \/ Requested \/ Answered \/ Taken \/ Handed \/ Impatient \/ Broken
Stream   == \/ Hears \/ HearsNoMore \/ Reads \/ ReadsNoMore \/ PortTakes \/ PortGone
            \/ \E d \in Directions : Turn(d) \/ Drained(d)
            \/ RiddenEnds
Ending   == FaceCloses \/ FaceClosed

Next == Mirrored \/ Caller \/ Detached \/ Exchange \/ Stream \/ Ending

Spec == Init /\ [][Next]_monitorVars

(* The loop runs what is ready, and the patience is a timer.  The page owes *)
(* nothing, nor does an answer, nor the mirror's port: what reads it may    *)
(* wait for the device (Mirror).  The end of the face is owed when no       *)
(* handler is left, which is what the source says of `wait_closed`.         *)
Fairness ==
  /\ WF_monitorVars(Detached) /\ WF_monitorVars(Begins)
  /\ WF_monitorVars(Handed) /\ WF_monitorVars(Impatient) /\ WF_monitorVars(Broken)
  /\ WF_monitorVars(Hears \/ HearsNoMore) /\ WF_monitorVars(ReadsNoMore)
  /\ WF_monitorVars(PortGone) /\ WF_monitorVars(RiddenEnds)
  /\ \A d \in Directions : WF_monitorVars(Turn(d)) /\ WF_monitorVars(Drained(d))
  /\ WF_monitorVars(FaceClosed /\ stage = "none")

FairSpec == Spec /\ Fairness

-----------------------------------------------------------------------------
(* Properties.                                                             *)

\* Every variable stays in its type.
TypeOK ==
  /\ MirrorTypeOK
  /\ browser \in {"none", "open", "left", "lost", "closing"}
  /\ frames \in Seq({"answer", "data", "pong", "bye"})
  /\ stage \in {"none", "accepted", "asked", "answering", "taking", "handing", "riding"}
  /\ at \in [Directions ->
              {"off", "reading", "writing", "waiting", "draining", "done"}]
  /\ says \in [Directions -> {"none", "data", "pong", "bye"}]
  /\ saying \in {<<>>, <<"up">>, <<"down">>, <<"up", "down">>, <<"down", "up">>}
  /\ face \in {"up", "closing", "closed"}
  /\ missed \in BOOLEAN

\* No way out of an exchange or a stream leaves its client on the mirror's port
\* (face.py:1430-1432, #51).
NoClientLeft == Ported => stage \in {"handing", "riding"}

\* Nothing is buffered here: whatever the station and the browser send, what
\* waits for the browser is the high water mark and the one frame that passed
\* it (face.py:1207-1212).
NothingBuffered == Len(frames) <= HighWater + 1

\* A stream that waits for the mirror's port to take what its browser typed.
HeldByPort == stage = "riding" /\ at["down"] = "writing" /\ Ported

\* A browser that is lost takes its stream with it (face.py:1239-1242), unless
\* the port takes what it typed never again: that wait has no end of its own
\* (face.py:1295), and the mirror's has none either (station.py:535-537).
LeavesWithThePage ==
  stage = "riding" /\ browser = "lost" ~> stage # "riding" \/ []HeldByPort

\* A caller that says nothing, or takes nothing, is waited on no longer than
\* the patience, which is "the caller and not the answer" (face.py:1402-1409).
PatienceEnds ==
  stage \in {"accepted", "asked", "taking", "handing"} ~>
    stage \in {"none", "answering", "riding"}

\* A page that keeps taking what it is sent.
PageReads == WF_monitorVars(PageTakes)

\* "The app ends through here, so this wait has to be one that ends"
\* (face.py:1378): of a page that reads, and whose handler had begun when `close`
\* looked for it.  An abort does not end a handler that waits for its answer for
\* ever (face.py:1387), nor one whose stream waits for the port.
FaceEnds ==
  PageReads =>
    (face = "closing" /\ ~missed ~>
       face = "closed" \/ [](stage = "answering") \/ []HeldByPort)

\* What the mirror does is what a browser that reads sees: the mirror letting
\* this client go ends the stream (face.py:1214-1217).
ReaderFollowsMirror == PageReads => (stage = "riding" /\ ~Ported ~> stage # "riding")

-----------------------------------------------------------------------------
(* The inductive invariant.                                                *)

\* Who waits for the lock, or has it and waits for the drain, is in line at it,
\* and only its holder drains.
InLine(d) == saying \in {<<d>>, <<"up", "down">>, <<"down", "up">>}
LineIsWhoSays ==
  \A d \in Directions :
    /\ InLine(d) <=> at[d] \in {"waiting", "draining"}
    /\ at[d] = "draining" => Head(saying) = d

\* Who waits for it has a frame to say.
WaitsToSay == \A d \in Directions : at[d] = "waiting" => says[d] # "none"

\* No direction is anywhere but in a stream.
OnlyRidden == stage # "riding" => saying = <<>> /\ \A d \in Directions : at[d] = "off"

\* Past the high water mark somebody has the lock and waits for the drain.
PastIsDraining ==
  stage = "riding" /\ Len(frames) > HighWater =>
    saying # <<>> /\ at[Head(saying)] = "draining"

\* A connection being flushed has been answered, and a lost one is owed nothing.
ClosedIsAnswered ==
  /\ browser = "closing" => stage = "none"
  /\ browser = "lost" => frames = <<>>

IInv ==
  /\ MirrorIInv /\ TypeOK /\ NoClientLeft /\ NothingBuffered
  /\ LineIsWhoSays /\ WaitsToSay /\ OnlyRidden /\ PastIsDraining /\ ClosedIsAnswered
=============================================================================
