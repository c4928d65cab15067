------------------------------ MODULE Flasher ------------------------------
(***************************************************************************)
(* A released build written onto the command station by the app that owns  *)
(* its device (src/src/dccex_usb/firmware.py, Flasher and run), and the    *)
(* end of that app's process (src/src/dccex_usb/__main__.py, mirroring).   *)
(*                                                                         *)
(* A gesture is a task of its own, shielded from whoever asked for it: the *)
(* release and its firmware are fetched and checked while the mirror still *)
(* has the device, which is then borrowed (DeviceOwner) for as long as     *)
(* esptool runs.  A step is what a task does between two awaits.           *)
(***************************************************************************)
EXTENDS DeviceOwner

CONSTANTS
  Gestures,   \* those who ask for a flash, and the flash each asks for
  None        \* no flash

ASSUME FlasherAssumption == None \notin Gestures /\ Borrowers = Gestures

VARIABLES
  flashing,   \* Flasher._flashing
  doing,      \* the stage of Flasher._doing
  stage,      \* where each gesture's task `_flash` is
  silent,     \* the source has said nothing for FETCH_S
  tool,       \* each task's esptool
  caller,     \* whether who asked still waits
  app,        \* how far `mirroring` is on its way out
  signalled   \* SIGTERM has come

flashVars  == <<flashing, doing, stage, silent, tool>>
appVars    == <<app, signalled>>
vars == <<ownerVars, flashVars, caller, appVars>>

StageAt == {"none", "created", "release", "asset", "asking", "writing"}
Doing   == {"none", "fetching", "checking", "writing", "verifying"}
ToolAt  == {"none", "running", "exited", "killed"}
AppAt   == {"up", "closing", "settling", "cancelling", "down"}

Init ==
  /\ OwnerInit
  /\ flashing = None /\ doing = "none" /\ stage = [g \in Gestures |-> "none"]
  /\ silent = FALSE /\ tool = [g \in Gestures |-> "none"]
  /\ caller = [g \in Gestures |-> "idle"]
  /\ app = "up" /\ signalled = FALSE

-----------------------------------------------------------------------------
(* The gesture.                                                            *)

\* Mutant of MayStart: a second gesture is started beside the first.
MayStartAnyway == has

\* No flash is in flight and the station is there.
MayStart == flashing = None /\ has

\* `wanted`: refused, or a task made and waited on.  A tag of `latest` is
\* refused whatever the rest says.
Wanted(g, latest) ==
  /\ app \in {"up", "closing"} /\ caller[g] = "idle" /\ stage[g] = "none"
  /\ IF MayStart /\ ~latest
       THEN /\ flashing' = g /\ stage' = [stage EXCEPT ![g] = "created"]
            /\ caller' = [caller EXCEPT ![g] = "waiting"]
       ELSE UNCHANGED <<flashing, stage, caller>>
  /\ UNCHANGED <<ownerVars, doing, silent, tool, appVars>>

\* Who asked goes away; the shield keeps the flash.
GoesAway(g) ==
  /\ caller[g] = "waiting" /\ caller' = [caller EXCEPT ![g] = "idle"]
  /\ UNCHANGED <<ownerVars, flashVars, appVars>>

\* `_flash`'s finally: the flag falls however it went.
FlagFalls == flashing' = None /\ doing' = "none"

\* The task is over, and who still waits is told how it went.
TaskOver(g) ==
  /\ FlagFalls
  /\ stage' = [stage EXCEPT ![g] = "none"]
  /\ caller' = [caller EXCEPT ![g] = "idle"]

-----------------------------------------------------------------------------
(* The flash.                                                              *)

\* The task first runs.
Started(g) ==
  /\ stage[g] = "created" /\ stage' = [stage EXCEPT ![g] = "release"]
  /\ doing' = "fetching" /\ silent' = FALSE
  /\ UNCHANGED <<ownerVars, flashing, tool, caller, appVars>>

Fetching(g) == stage[g] \in {"release", "asset"}

\* The release names a firmware and its digest, and that is fetched next.
ReleaseRead(g) ==
  /\ stage[g] = "release" /\ stage' = [stage EXCEPT ![g] = "asset"]
  /\ silent' = FALSE
  /\ UNCHANGED <<ownerVars, flashing, doing, tool, caller, appVars>>

\* NO_RELEASE, SOURCE_AWAY, NO_ASSET, NO_DIGEST and NOT_PUBLISHED, or RAISED by
\* a directory the firmware cannot be put in: nothing was borrowed.
Refused(g) ==
  /\ Fetching(g) /\ TaskOver(g)
  /\ UNCHANGED <<ownerVars, silent, tool, appVars>>

\* The source trickles: a byte before FETCH_S is up, which is urlopen's timeout
\* of each read and not of the fetch.
Trickle(g) ==
  /\ Fetching(g) /\ silent /\ silent' = FALSE
  /\ UNCHANGED <<ownerVars, flashing, doing, stage, tool, caller, appVars>>

FallsSilent(g) ==
  /\ Fetching(g) /\ ~silent /\ silent' = TRUE
  /\ UNCHANGED <<ownerVars, flashing, doing, stage, tool, caller, appVars>>

FetchTimesOut(g) == silent /\ Refused(g)

\* The firmware is what was published: the device is asked for.  `held` is not
\* asked again.
Checked(g) ==
  /\ stage[g] = "asset" /\ Ask(g)
  /\ IF g \in using'
       THEN stage' = [stage EXCEPT ![g] = "writing"] /\ doing' = "writing"
            /\ tool' = [tool EXCEPT ![g] = "running"]
       ELSE stage' = [stage EXCEPT ![g] = "asking"] /\ doing' = "checking"
            /\ UNCHANGED tool
  /\ UNCHANGED <<flashing, silent, caller, appVars>>

\* The mirror has let the device go: esptool is started.
Given(g) ==
  /\ stage[g] = "asking" /\ Give(g)
  /\ stage' = [stage EXCEPT ![g] = "writing"] /\ doing' = "writing"
  /\ tool' = [tool EXCEPT ![g] = "running"]
  /\ UNCHANGED <<flashing, silent, caller, appVars>>

\* `_saw` and `moved`: a line of esptool's output says how far it is.
Saw(g) ==
  /\ stage[g] = "writing" /\ tool[g] = "running"
  /\ doing' \in {"writing", "verifying"}
  /\ UNCHANGED <<ownerVars, flashing, stage, silent, tool, caller, appVars>>

ToolExits(g) ==
  /\ tool[g] = "running" /\ tool' = [tool EXCEPT ![g] = "exited"]
  /\ UNCHANGED <<ownerVars, flashing, doing, stage, silent, caller, appVars>>

\* Mutant of ToolTimesOut: the wait ends and the tool is left to run.
ToolForgotten(g) ==
  /\ stage[g] = "writing" /\ tool[g] = "running"
  /\ Back(g) /\ TaskOver(g)
  /\ UNCHANGED <<silent, tool, appVars>>

\* Mutant of ToolTimesOut: the bound is on the writing and not on the hash.
ToolTimesOutWriting(g) ==
  /\ stage[g] = "writing" /\ tool[g] = "running" /\ doing = "writing"
  /\ tool' = [tool EXCEPT ![g] = "killed"]
  /\ UNCHANGED <<ownerVars, flashing, doing, stage, silent, caller, appVars>>

\* `run` kills what outlives TIMEOUT_S.
ToolTimesOut(g) ==
  /\ stage[g] = "writing" /\ tool[g] = "running"
  /\ tool' = [tool EXCEPT ![g] = "killed"]
  /\ UNCHANGED <<ownerVars, flashing, doing, stage, silent, caller, appVars>>

\* The block ends with the tool, and the device is given back.
Finished(g) ==
  /\ stage[g] = "writing" /\ tool[g] \in {"exited", "killed"}
  /\ Back(g) /\ TaskOver(g)
  /\ tool' = [tool EXCEPT ![g] = "none"]
  /\ UNCHANGED <<silent, appVars>>

\* There was no esptool to run.
NotRun(g) ==
  /\ stage[g] = "writing" /\ tool[g] = "running"
  /\ Back(g) /\ TaskOver(g)
  /\ tool' = [tool EXCEPT ![g] = "none"]
  /\ UNCHANGED <<silent, appVars>>

-----------------------------------------------------------------------------
(* The process.                                                            *)

\* `stop` is set, the mirror's task ends, or a first Ctrl-C cancels `mirroring`.
Stop ==
  /\ app = "up" /\ app' = "closing"
  /\ UNCHANGED <<ownerVars, flashVars, caller, signalled>>

FaceClosed ==
  /\ app = "closing" /\ app' = "settling"
  /\ UNCHANGED <<ownerVars, flashVars, caller, signalled>>

\* Mutant of Settled: the flash in flight is not waited out.
SettledAtOnce ==
  /\ app = "settling" /\ app' = "cancelling"
  /\ UNCHANGED <<ownerVars, flashVars, caller, signalled>>

\* `flasher.settled()`: a task that was cancelled before it ran is over too.
Settled ==
  /\ app = "settling" /\ app' = "cancelling"
  /\ \A g \in Gestures : flashing = g => stage[g] = "none"
  /\ UNCHANGED <<ownerVars, flashVars, caller, signalled>>

\* The mirror's own steps (`End` and `EndWatching` are its `close`).
Mirroring ==
  /\ \/ Take \/ Lose
     \/ (app = "cancelling" \/ signalled) /\ (End \/ EndWatching)
  /\ UNCHANGED <<flashVars, caller, appVars>>

Exit ==
  /\ app = "cancelling" /\ over /\ ~kept /\ ~has
  /\ \A g \in Gestures : stage[g] = "none"
  /\ app' = "down"
  /\ UNCHANGED <<ownerVars, flashVars, caller, signalled>>

\* SIGTERM raises KeyboardInterrupt in the loop, and asyncio.run cancels every
\* task there is.  A flash that waits for the watcher swallows it
\* (`_stop_watching`); one that waits for esptool does not, and its block ends
\* with the tool still running; one not yet run never clears its flag.
Signal ==
  /\ ~signalled /\ app # "down" /\ signalled' = TRUE
  /\ app' = CASE app = "up" -> "closing"
              [] app = "closing" -> "settling"
              [] OTHER -> "cancelling"
  /\ LET swallows == {g \in Gestures : stage[g] = "asking"}
         unrun    == {g \in Gestures : stage[g] = "created"}
     IN  /\ stage' = [g \in Gestures |-> IF g \in swallows THEN "asking" ELSE "none"]
         /\ IF flashing \in swallows \cup unrun
              THEN UNCHANGED <<flashing, doing>>
              ELSE flashing' = None /\ doing' = "none"
  /\ kept' = (using # {} /\ ~over)
  /\ has' = (has /\ asking # {}) /\ using' = {} /\ UNCHANGED <<asking, over>>
  /\ caller' = [g \in Gestures |-> "idle"]
  /\ UNCHANGED <<silent, tool>>

-----------------------------------------------------------------------------
Flash(g) == \/ Started(g) \/ ReleaseRead(g) \/ Refused(g) \/ Trickle(g)
            \/ FallsSilent(g) \/ Checked(g) \/ Given(g) \/ Saw(g)
            \/ ToolExits(g) \/ ToolTimesOut(g) \/ NotRun(g)
            \/ Finished(g)
Gesture(g) == \/ \E latest \in BOOLEAN : Wanted(g, latest)
              \/ GoesAway(g)
Ending == Stop \/ FaceClosed \/ Settled \/ Exit

Next == \/ Mirroring \/ Ending
        \/ \E g \in Gestures : Gesture(g) \/ Flash(g)

Spec == Init /\ [][Next]_vars

(* The loop runs what is ready, timers fire, and a watcher that was         *)
(* cancelled ends (Mirror).  The source and esptool owe nothing.            *)
Fairness ==
  /\ WF_vars(asking # {} /\ Lose /\ UNCHANGED <<flashVars, caller, appVars>>)
  /\ \A g \in Gestures :
       /\ WF_vars(Started(g)) /\ WF_vars(Given(g)) /\ WF_vars(ToolTimesOut(g))
       /\ WF_vars(Finished(g))
       /\ WF_vars(FallsSilent(g)) /\ WF_vars(FetchTimesOut(g))

FairSpec == Spec /\ Fairness

\* And with the signal the container is stopped with.
SignalSpec == Init /\ [][Next \/ Signal]_vars

-----------------------------------------------------------------------------
(* Properties.                                                             *)

\* Every variable stays in its type.
TypeOK ==
  /\ has \in BOOLEAN /\ kept \in BOOLEAN /\ over \in BOOLEAN
  /\ asking \subseteq Gestures /\ using \subseteq Gestures
  /\ flashing \in Gestures \cup {None} /\ doing \in Doing
  /\ stage \in [Gestures -> StageAt] /\ silent \in BOOLEAN
  /\ tool \in [Gestures -> ToolAt]
  /\ caller \in [Gestures -> {"idle", "waiting"}]
  /\ app \in AppAt /\ signalled \in BOOLEAN

\* Two openers never fight over the line: while esptool runs the mirror has
\* the device closed, nothing is about to open it, and no other esptool runs
\* (station.py:454, firmware.py:735).
ToolIsAlone ==
  \A g \in Gestures : tool[g] = "running" =>
    ~has /\ ~kept /\ \A h \in Gestures \ {g} : tool[h] # "running"

\* The flag stands for exactly as long as a flash is in flight, and what a page
\* reads of one is never of one that is over (firmware.py:534-536).
FlagIsTheFlash ==
  /\ \A g \in Gestures : stage[g] # "none" <=> flashing = g
  /\ doing # "none" => flashing # None

\* The process does not go on past a flash that is in flight
\* (tests/dccex_usb/test_main.py:357).
SettledFirst ==
  app \in {"cancelling", "down"} =>
    \A g \in Gestures : stage[g] = "none" /\ tool[g] = "none"

\* Whatever a flash came to, the mirror is back to opening its device, unless
\* the station has closed (station.py:476).
DeviceIsGivenBack == flashing = None => kept \/ over

\* A device that was asked for is given back: by esptool's end, or by its
\* timeout (firmware.py:114, TIMEOUT_S).
BlockEnds ==
  \A g \in Gestures : g \in asking \cup using ~> g \notin asking \cup using

\* The inductive invariant: a borrower asks and uses only where its task is,
\* there is a watcher unless somebody borrows or the station has closed, and
\* nothing is in flight once `mirroring` is past waiting for it.
OneBorrows ==
  \A g \in Gestures : /\ g \in asking <=> stage[g] = "asking"
                      /\ g \in using <=> stage[g] = "writing"
                      /\ tool[g] # "none" => stage[g] = "writing"
Watched ==
  /\ kept => asking = {} /\ using = {}
  /\ ~kept => over \/ asking # {} \/ using # {}
  /\ using # {} => ~has
Outlived ==
  /\ over => app \in {"cancelling", "down"}
  /\ app \in {"cancelling", "down"} => flashing = None
  /\ ~signalled
IInv == TypeOK /\ FlagIsTheFlash /\ OneBorrows /\ Watched /\ Outlived

-----------------------------------------------------------------------------
(* What the source says and a run refutes.                                 *)

\* "a signal mid-flash cancels the mirror, and the flash it is inside is
\* shielded from that cancellation" (station.py:466): under SignalSpec a tool
\* that runs has a flash that waits for it.
ShieldedFromTheSignal ==
  \A g \in Gestures : tool[g] = "running" => stage[g] = "writing"
=============================================================================
