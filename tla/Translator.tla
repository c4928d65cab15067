----------------------------- MODULE Translator -----------------------------
(***************************************************************************)
(* The translator (src/src/dccex/translator.py) and the loop it runs in    *)
(* (src/src/dccex/__main__.py, _driving): the desired picture it holds,    *)
(* the connection it replays that picture over, the station's restarts     *)
(* read off a stash, the script it follows, and its end, which stands the  *)
(* railroad down.                                                          *)
(*                                                                         *)
(* Four tasks: the drain (`main`), the link, its poll, and `following`.  A *)
(* step is what one of them does between two awaits.  A command is what    *)
(* it is about and what it says: a value, and the script whose handler     *)
(* said it.  How the station's power is read is left out here.             *)
(***************************************************************************)
EXTENDS Naturals, SequencesExt

CONSTANTS
  Locos,        \* locomotives, whose desired value is a speed
  Others,       \* every other device a replay covers
  Values,       \* what any of them may be wanted to be
  Stop,         \* the speed that is none
  Minutes,      \* what the fast clock may say
  Railroads,    \* the railroads that may be named
  Texts,        \* scripts that load
  Broken,       \* and scripts that do not
  Retained,     \* the desired pictures the broker may hold at the start
  NoText,       \* the store's answer where a railroad has no script
  None,
  MissedPolls,  \* the polls that may go unanswered
  MaxInFlight,  \* bound: what is on its way when the bus is heard
  MaxAsks,      \* bound: polls on their way there and back
  MaxTroubles   \* bound: the steps of the world outside

ASSUME TranslatorAssumption ==
  /\ IsFiniteSet(Locos) /\ Stop \in Values
  /\ MissedPolls \in Nat \ {0} /\ MaxTroubles \in Nat
  /\ Locos \cap Others = {}
  /\ {"start", "clock", "track", "mark", "ask"} \cap (Locos \cup Others) = {}
  /\ None \notin Texts \cup Broken \cup Minutes \cup Railroads \cup {NoText}
  /\ Texts \cap Broken = {} /\ NoText \notin Texts \cup Broken

Devices == Locos \cup Others
Wanted == [dev : Devices, says : Values]
Kept == Devices \cup {"start", "clock", "track"}

\* What a thing may be told, and the commands.
Sayings == (Values \cup Minutes \cup {None, "on", "off"}) \X (Texts \cup {None})
Commands == [dev : Kept \cup {"mark", "ask"}, says : Sayings \cup {None}]

ASSUME NoneAssumption == None \notin Sayings

\* A picture holds one value of a device.
ASSUME RetainedAssumption ==
  \A w \in Retained : /\ w \in Seq(Wanted)
                       /\ \A i, j \in DOMAIN w : w[i].dev = w[j].dev => i = j

VARIABLES
  main,       \* `_driving`: at the drain, or at one of the awaits of its end
  signalled,  \* SIGTERM has cancelled every task of the loop
  link,       \* `run`, and the session in it
  raising,    \* the session ends on a cancellation, which goes on out of it
  watching,   \* `following`
  asked,      \* the railroad it is asking the store about
  railroad, script, changed,
  wanted,     \* `_wanted`, in the order each was first heard
  commanded,
  minute,     \* what the bus's clock row holds
  clocked,
  lossy,      \* history: something sent since the picture last was has been lost
  answered,
  silence,    \* the polls since the station was last heard
  row,        \* whether `device/link` reads up
  peer,       \* the mirror's end of the connection
  toStation,  \* commands on their way
  toApp,      \* what the station has answered and nobody has read
  marked,     \* the station: whether the stash is set
  told,       \* what it was last told of each thing since its boot
  mute,       \* it is wedged: it takes bytes and does nothing with them
  store,      \* the store: the script of each railroad
  troubles,   \* what the world outside may still do
  owed        \* history: the exit found a link, and nothing has excused it since

loopVars    == <<main, signalled>>
linkVars    == <<link, raising>>
scriptVars  == <<watching, asked, script, changed>>
pictureVars == <<wanted, commanded, clocked, lossy>>
heardVars   == <<answered, silence, row>>
busVars     == <<railroad, minute>>
stationVars == <<marked, told, mute>>
worldVars   == <<store, troubles>>
vars == <<loopVars, linkVars, scriptVars, pictureVars, heardVars, busVars,
          peer, toStation, toApp, stationVars, worldVars, owed>>

-----------------------------------------------------------------------------
(* What goes out.                                                          *)

\* `_writer` is not None.
Open == link \in {"listening", "closing"}

\* What writing reaches: bytes for a mirror that has gone go nowhere.
Reaches == Open /\ peer
Sends(cmds) == toStation' = IF Reaches THEN toStation \o cmds ELSE toStation
Room == Reaches => Len(toStation) < MaxInFlight

Cmd(d, said) == [dev |-> d, says |-> said]
Mark == Cmd("mark", None)
Ask == Cmd("ask", None)

\* The script whose handlers run, None where the app's own commands go out.
Handlers(s) == IF s \in Texts THEN s ELSE None

\* What one desired value becomes.
Command(want, s) == Cmd(want.dev, <<want.says, Handlers(s)>>)

\* Mutant of Picture: the mark goes out last.
PictureThenMark(s) ==
  (IF Handlers(s) = None THEN <<>> ELSE <<Cmd("start", <<None, s>>)>>)
  \o [i \in DOMAIN wanted |-> Command(wanted[i], s)]
  \o (IF minute = None THEN <<>> ELSE <<Cmd("clock", <<minute, None>>)>>)
  \o <<Mark>>

\* What `_started` sends: the mark, `start`, every desired value but the
\* power, and the clock.
Picture(s) ==
  <<Mark>>
  \o (IF Handlers(s) = None THEN <<>> ELSE <<Cmd("start", <<None, s>>)>>)
  \o [i \in DOMAIN wanted |-> Command(wanted[i], s)]
  \o (IF minute = None THEN <<>> ELSE <<Cmd("clock", <<minute, None>>)>>)

\* Mutant of Started: the trains of the picture are not counted.
StartedUncounted == UNCHANGED commanded /\ clocked' = minute /\ lossy' = FALSE

\* And what it leaves behind.
Started ==
  /\ commanded' = commanded \cup {l \in Locos : \E i \in DOMAIN wanted : wanted[i].dev = l}
  /\ clocked' = minute /\ lossy' = FALSE

\* What `shutdown` sends.
Farewell ==
  LET zeros == SetToSeq(commanded)
  IN  [i \in DOMAIN zeros |-> Cmd(zeros[i], <<Stop, None>>)]
      \o <<Cmd("track", <<"off", None>>)>>

-----------------------------------------------------------------------------
(* The bus, drained by `main`.                                             *)

Draining == main = "driving" /\ ~signalled /\ watching # "done"

Trouble == troubles > 0 /\ main # "ended" /\ troubles' = troubles - 1

\* `_on_wanted`.
Wants(d, v) ==
  LET want == [dev |-> d, says |-> v]
      held == {i \in DOMAIN wanted : wanted[i].dev = d}
  IN  /\ Draining /\ Trouble /\ Room
      /\ wanted' = IF held = {} THEN Append(wanted, want)
                   ELSE [i \in DOMAIN wanted |-> IF i \in held THEN want ELSE wanted[i]]
      /\ commanded' = IF Open /\ d \in Locos THEN commanded \cup {d} ELSE commanded
      /\ Sends(<<Command(want, script)>>)
      /\ UNCHANGED <<loopVars, linkVars, scriptVars, clocked, lossy, heardVars, busVars,
                     peer, toApp, stationVars, store, owed>>

\* The power, on no replay: ON with no script is refused.
WantsPower(p) ==
  /\ Draining /\ Trouble /\ Room
  /\ p = "on" => script # None
  /\ Sends(<<Cmd("track", <<p, None>>)>>)
  /\ UNCHANGED <<loopVars, linkVars, scriptVars, pictureVars, heardVars, busVars,
                 peer, toApp, stationVars, store, owed>>

\* `_on_clock`.
Ticks(m) ==
  /\ Draining /\ Trouble /\ Room /\ ~(m = minute /\ m = clocked)
  /\ minute' = m /\ clocked' = m
  /\ Sends(IF m = clocked THEN <<>> ELSE <<Cmd("clock", <<m, None>>)>>)
  /\ UNCHANGED <<loopVars, linkVars, scriptVars, wanted, commanded, lossy, heardVars, railroad,
                 peer, toApp, stationVars, store, owed>>

\* The clock's row is cleared, which says no clock.
Clears ==
  /\ Draining /\ Trouble /\ minute # None /\ minute' = None
  /\ UNCHANGED <<loopVars, linkVars, scriptVars, pictureVars, heardVars, railroad,
                 peer, toStation, toApp, stationVars, store, owed>>

\* `_on_railroad`.
Names(r) ==
  /\ Draining /\ Trouble /\ (r # railroad \/ clocked # None)
  /\ railroad' = r /\ clocked' = None
  /\ UNCHANGED <<loopVars, linkVars, scriptVars, wanted, commanded, lossy, heardVars, minute,
                 peer, toStation, toApp, stationVars, store, owed>>

-----------------------------------------------------------------------------
(* The link: `run`, `_session`, `_listen`, `_poll`, `_heard`.              *)

Connects ==
  /\ link = "connecting"
  /\ link' = "listening" /\ peer' = TRUE
  /\ toStation' = Picture(script) /\ toApp' = <<>>
  /\ Started
  /\ UNCHANGED <<loopVars, raising, scriptVars, wanted, heardVars, busVars,
                 stationVars, worldVars, owed>>

ConnectFails ==
  /\ Trouble /\ link = "connecting" /\ link' = "backoff" /\ row' = FALSE
  /\ UNCHANGED <<loopVars, raising, scriptVars, pictureVars, answered, silence, busVars,
                 peer, toStation, toApp, stationVars, store, owed>>

Retries ==
  /\ link = "backoff" /\ link' = "connecting"
  /\ UNCHANGED <<loopVars, raising, scriptVars, pictureVars, heardVars, busVars,
                 peer, toStation, toApp, stationVars, worldVars, owed>>

\* `_forget`.
Forget == answered' = FALSE /\ silence' = 0

\* A station that has been quiet too long.
Silent == Forget /\ row' = FALSE

FewAsks == Len(SelectSeq(toStation, LAMBDA c : c = Ask)) + Len(toApp) < MaxAsks

\* Mutant of Silence: asking passes for having been answered.
SilenceForgiven == silence' = 0 /\ UNCHANGED <<answered, row>>

\* `_lower_if_silent`.  The last of the polls that may go unanswered comes
\* just before the time for them is up or just after.
Silence ==
  \/ answered /\ silence + 1 >= MissedPolls /\ Silent
  \/ answered /\ silence < MissedPolls /\ silence' = silence + 1 /\ UNCHANGED <<answered, row>>
  \/ ~answered /\ UNCHANGED heardVars

\* One turn of `_poll`.
Poll ==
  /\ link = "listening" /\ FewAsks
  /\ Silence
  /\ Sends(<<Ask>>)
  /\ UNCHANGED <<loopVars, linkVars, scriptVars, pictureVars, busVars,
                 peer, toApp, stationVars, worldVars, owed>>

\* Mutant of Heard: the stash is read and says nothing.
HeardOnly ==
  /\ link = "listening" /\ toApp # <<>>
  /\ toApp' = Tail(toApp)
  /\ answered' = TRUE /\ silence' = 0 /\ row' = TRUE
  /\ UNCHANGED <<toStation, commanded, clocked, lossy, owed>>
  /\ UNCHANGED <<loopVars, linkVars, scriptVars, wanted, busVars, peer, stationVars, worldVars>>

\* `_heard`: any message raises the link, and the stash read back empty is a
\* station that has restarted.
Heard ==
  /\ link = "listening" /\ toApp # <<>>
  /\ toApp' = Tail(toApp)
  /\ answered' = TRUE /\ silence' = 0 /\ row' = TRUE
  /\ IF Head(toApp) = "empty"
     THEN /\ Sends(Picture(script)) /\ Started
          /\ owed' = (owed /\ main = "driving")
     ELSE UNCHANGED <<toStation, commanded, clocked, lossy, owed>>
  /\ UNCHANGED <<loopVars, linkVars, scriptVars, wanted, busVars, peer, stationVars, worldVars>>

\* `_listen` comes back: the session's end waits for the cancelled poll.
ListenEnds ==
  /\ link = "listening" /\ ~peer /\ toApp = <<>>
  /\ link' = "closing" /\ raising' = FALSE
  /\ UNCHANGED <<loopVars, scriptVars, pictureVars, heardVars, busVars,
                 peer, toStation, toApp, stationVars, worldVars, owed>>

\* The poll is gone: the writer is let go, and the connection closed.
PollGone ==
  /\ link = "closing" /\ link' = "closed" /\ Forget
  /\ UNCHANGED <<loopVars, raising, scriptVars, pictureVars, row, busVars,
                 peer, toStation, toApp, stationVars, worldVars, owed>>

\* `wait_closed` comes back.
Closed ==
  /\ link = "closed" /\ link' = (IF raising THEN "ended" ELSE "backoff") /\ row' = FALSE
  /\ UNCHANGED <<loopVars, raising, scriptVars, pictureVars, answered, silence, busVars,
                 peer, toStation, toApp, stationVars, worldVars, owed>>

\* The link's task is cancelled.  At the poll it is waiting for, the
\* cancellation is suppressed with the poll's own.
CancelLink ==
  CASE link = "listening" -> link' = "closing" /\ raising' = TRUE
    [] link = "closing" -> UNCHANGED linkVars
    [] OTHER -> link' = "ended" /\ UNCHANGED raising

-----------------------------------------------------------------------------
(* The script: `following`.                                                *)

\* Mutant of Asks: a script that runs is the end of the asking.
AsksForAFirst ==
  /\ watching = "asleep" /\ main # "ended" /\ script = None
  /\ watching' = "asking" /\ asked' = railroad
  /\ UNCHANGED <<loopVars, linkVars, script, changed, pictureVars, heardVars, busVars,
                 peer, toStation, toApp, stationVars, worldVars, owed>>

Asks ==
  /\ watching = "asleep" /\ main # "ended"
  /\ watching' = "asking" /\ asked' = railroad
  /\ UNCHANGED <<loopVars, linkVars, script, changed, pictureVars, heardVars, busVars,
                 peer, toStation, toApp, stationVars, worldVars, owed>>

\* No railroad is named, or the store does not answer.
Nothing ==
  /\ watching = "asking" /\ watching' = "asleep" /\ asked' = None
  /\ UNCHANGED <<loopVars, linkVars, script, changed, pictureVars, heardVars, busVars,
                 peer, toStation, toApp, stationVars, store, owed>>
Unnamed == asked = None /\ Nothing /\ UNCHANGED troubles
Unanswered == asked # None /\ Nothing /\ Trouble

\* A first script, loaded with the link up or without it.
Loads(text) ==
  /\ watching' = "asleep" /\ UNCHANGED changed
  /\ IF text \in Broken THEN UNCHANGED script ELSE script' = text
  /\ IF text \in Texts /\ Open
     THEN /\ Sends(Picture(text)) /\ Started
          /\ owed' = (owed /\ main = "driving")
     ELSE UNCHANGED <<toStation, commanded, clocked, lossy, owed>>

\* `_took`, `_read`.
Answered ==
  /\ watching = "asking" /\ asked # None /\ asked' = None
  /\ LET text == store[asked]
     IN  CASE script = None -> Loads(text)
           [] script = text ->
                /\ watching' = "asleep"
                /\ UNCHANGED <<script, changed, toStation, commanded, clocked, lossy, owed>>
           [] OTHER ->
                /\ watching' = "done" /\ changed' = TRUE
                /\ UNCHANGED <<script, toStation, commanded, clocked, lossy, owed>>
  /\ UNCHANGED <<loopVars, linkVars, wanted, heardVars, busVars,
                 peer, toApp, stationVars, worldVars>>

-----------------------------------------------------------------------------
(* The end: `_driving`'s finally, and `shutdown`.                          *)

\* What ends the loop of its own accord; Ctrl-C and the suite's stop may end
\* it at any time.
Over == watching = "done" \/ signalled

\* The loop is left and the railroad stood down; the wait for the buffer is
\* a wait only where the mirror has stopped reading.
StandDown ==
  /\ main = "driving"
  /\ Sends(Farewell)
  /\ owed' = IF signalled THEN owed ELSE Reaches /\ ~mute
  /\ \/ main' = "flushing" /\ Open /\ UNCHANGED linkVars
     \/ main' = "letting" /\ CancelLink
  /\ UNCHANGED <<signalled, scriptVars, pictureVars, heardVars, busVars,
                 peer, toApp, stationVars, worldVars>>

Flushed ==
  /\ main = "flushing" /\ main' = "letting" /\ CancelLink
  /\ UNCHANGED <<signalled, scriptVars, pictureVars, heardVars, busVars,
                 peer, toStation, toApp, stationVars, worldVars, owed>>

Ends ==
  /\ main = "letting" /\ link = "ended"
  /\ main' = "ended" /\ watching' = "ended"
  /\ UNCHANGED <<signalled, linkVars, asked, script, changed, pictureVars, heardVars, busVars,
                 peer, toStation, toApp, stationVars, worldVars, owed>>

\* SIGTERM raises out of the loop, and `asyncio.run` cancels every task.
Terminated ==
  /\ Draining
  /\ signalled' = TRUE /\ watching' = "ended" /\ owed' = (Reaches /\ ~mute)
  /\ CancelLink
  /\ UNCHANGED <<main, asked, script, changed, pictureVars, heardVars, busVars,
                 peer, toStation, toApp, stationVars, worldVars>>

-----------------------------------------------------------------------------
(* The mirror, the station and the store.                                  *)

StationTakes ==
  /\ toStation # <<>> /\ toStation' = Tail(toStation)
  /\ LET cmd == Head(toStation)
     IN  IF mute THEN lossy' = TRUE /\ UNCHANGED <<marked, told, toApp>>
         ELSE /\ UNCHANGED lossy
              /\ marked' = (marked \/ cmd = Mark)
              /\ told' = IF cmd.dev \in Kept THEN [told EXCEPT ![cmd.dev] = cmd.says] ELSE told
              /\ toApp' = IF cmd = Ask /\ peer
                          THEN Append(toApp, IF marked THEN "held" ELSE "empty")
                          ELSE toApp
  /\ UNCHANGED <<loopVars, linkVars, scriptVars, wanted, commanded, clocked, heardVars, busVars,
                 peer, mute, worldVars, owed>>

\* It restarts, which ends a wedge.
Reboots ==
  /\ Trouble /\ marked' = FALSE /\ told' = [d \in Kept |-> None] /\ mute' = FALSE
  /\ lossy' = FALSE
  /\ UNCHANGED <<loopVars, linkVars, scriptVars, wanted, commanded, clocked, heardVars, busVars,
                 peer, toStation, toApp, store, owed>>

Wedges ==
  /\ Trouble /\ ~mute /\ mute' = TRUE /\ owed' = FALSE
  /\ UNCHANGED <<loopVars, linkVars, scriptVars, pictureVars, heardVars, busVars,
                 peer, toStation, toApp, marked, told, store>>

\* The cable blips, within the mirror's grace: what is on its way is dropped,
\* and the clients are kept.
Blips ==
  /\ Trouble /\ peer /\ toStation # <<>> /\ lossy' = TRUE /\ owed' = FALSE
  /\ \E n \in 1..Len(toStation) : toStation' = SubSeq(toStation, n + 1, Len(toStation))
  /\ UNCHANGED <<loopVars, linkVars, scriptVars, wanted, commanded, clocked, heardVars, busVars,
                 peer, toApp, stationVars, store>>

\* The mirror lets the connection go, with what is on its way either way.
MirrorCloses ==
  /\ Trouble /\ peer /\ peer' = FALSE /\ toStation' = <<>> /\ owed' = FALSE
  /\ toApp' \in {toApp, <<>>}
  /\ UNCHANGED <<loopVars, linkVars, scriptVars, pictureVars, heardVars, busVars,
                 stationVars, store>>

\* A script is applied, or taken away.
Applied(r, text) ==
  /\ Trouble /\ store[r] # text /\ store' = [store EXCEPT ![r] = text]
  /\ UNCHANGED <<loopVars, linkVars, scriptVars, pictureVars, heardVars, busVars,
                 peer, toStation, toApp, stationVars, owed>>

-----------------------------------------------------------------------------
\* `asks`, once before the link is opened: the store may not be up yet.
FirstAsk(r) == {None} \cup (IF r = None THEN {} ELSE {store[r]} \ Broken)

\* What `serve` has done by the time the loop runs: the railroad may be named,
\* and its script asked for, or neither; the retained picture comes after.
Init ==
  /\ main = "driving" /\ signalled = FALSE
  /\ link = "connecting" /\ raising = FALSE
  /\ watching = "asleep" /\ asked = None /\ changed = FALSE
  /\ store \in [Railroads -> Texts \cup Broken \cup {NoText}]
  /\ railroad \in Railroads \cup {None}
  /\ script \in FirstAsk(railroad)
  /\ wanted \in Retained /\ commanded = {} /\ minute = None /\ clocked = None /\ lossy = FALSE
  /\ answered = FALSE /\ silence = 0 /\ row = FALSE
  /\ peer = FALSE /\ toStation = <<>> /\ toApp = <<>>
  /\ marked = FALSE /\ told = [d \in Kept |-> None] /\ mute = FALSE
  /\ troubles = MaxTroubles /\ owed = FALSE

World ==
  \/ Reboots \/ Wedges \/ Blips \/ MirrorCloses \/ ConnectFails \/ Unanswered
  \/ \E r \in Railroads \cup {None} : Names(r)
  \/ \E r \in Railroads, text \in Texts \cup Broken \cup {NoText} : Applied(r, text)
  \/ \E d \in Devices, v \in Values : Wants(d, v)
  \/ \E p \in {"on", "off"} : WantsPower(p)
  \/ Clears \/ \E m \in Minutes : Ticks(m)

Link == Connects \/ Retries \/ Heard \/ ListenEnds \/ PollGone \/ Closed
Following == Asks \/ Unnamed \/ Answered
Loop == (Over /\ StandDown) \/ Flushed \/ Ends

Next == World \/ Link \/ Poll \/ Loop \/ StandDown \/ Following \/ StationTakes

Spec == Init /\ [][Next]_vars

\* Every task gets its turn, and the station takes what it is sent.
Fairness ==
  /\ WF_vars(Link) /\ WF_vars(Poll) /\ WF_vars(Loop) /\ WF_vars(Following)
  /\ WF_vars(StationTakes)

FairSpec == Spec /\ Fairness

\* And with SIGTERM.
SignalSpec == Init /\ [][Next \/ Terminated]_vars

-----------------------------------------------------------------------------
(* Properties.                                                             *)

LoopType ==
  main \in {"driving", "flushing", "letting", "ended"} /\ signalled \in BOOLEAN
LinkType ==
  /\ link \in {"connecting", "listening", "closing", "closed", "backoff", "ended"}
  /\ raising \in BOOLEAN
ScriptType ==
  /\ watching \in {"asleep", "asking", "done", "ended"}
  /\ asked \in Railroads \cup {None} /\ changed \in BOOLEAN
  /\ script \in Texts \cup {NoText, None}
PictureType ==
  /\ wanted \in Seq(Wanted) /\ commanded \subseteq Locos
  /\ clocked \in Minutes \cup {None} /\ lossy \in BOOLEAN
HeardType ==
  answered \in BOOLEAN /\ silence \in 0..MissedPolls /\ row \in BOOLEAN
BusType ==
  railroad \in Railroads \cup {None} /\ minute \in Minutes \cup {None}
WireType ==
  /\ peer \in BOOLEAN /\ owed \in BOOLEAN
  /\ toStation \in Seq(Commands) /\ toApp \in Seq({"held", "empty"})
StationType ==
  marked \in BOOLEAN /\ told \in [Kept -> Sayings \cup {None}] /\ mute \in BOOLEAN
WorldType ==
  /\ store \in [Railroads -> Texts \cup Broken \cup {NoText}]
  /\ troubles \in 0..MaxTroubles

\* Every variable stays in its type.
TypeOK ==
  /\ LoopType /\ LinkType /\ ScriptType /\ PictureType /\ HeardType /\ BusType
  /\ WireType /\ StationType /\ WorldType

\* Past the i-th of them, the last of the commands cmds about d says so.
LastSays(cmds, i, d, said) ==
  \E j \in DOMAIN cmds :
    /\ j > i /\ cmds[j] = Cmd(d, said)
    /\ \A k \in DOMAIN cmds : k > j => cmds[k].dev # d
NotAbout(cmds, d) == \A i \in DOMAIN cmds : cmds[i].dev # d

\* What the station will have been told of d last, once it has taken what is
\* on its way; and whether it will be marked.
Becomes(d, said) ==
  LastSays(toStation, 0, d, said) \/ (told[d] = said /\ NotAbout(toStation, d))
WillBeMarked == marked \/ \E i \in DOMAIN toStation : toStation[i] = Mark

\* What the picture is made of, with the script s.
Due(s) ==
  {<<wanted[i].dev, <<wanted[i].says, Handlers(s)>>>> : i \in DOMAIN wanted}
  \cup (IF Handlers(s) = None THEN {} ELSE {<<"start", <<None, s>>>>})
  \cup (IF minute = None THEN {} ELSE {<<"clock", <<minute, None>>>>})

\* The app drives the railroad over a connection the mirror has its end of.
Driven == main = "driving" /\ ~signalled /\ link = "listening" /\ peer

\* A marked station misses nothing: while the link is open, a station whose
\* stash is set, or is about to be, is told every desired value as it stands,
\* by the script that runs, that script's start, and the clock, unless what
\* was sent was lost with no restart.  So the stash read back empty is all
\* there is to look for.
NothingMissed ==
  Driven /\ WillBeMarked /\ ~lossy => \A due \in Due(script) : Becomes(due[1], due[2])

\* The railroad is stood down: a process that ends with its link held, and
\* not set going again behind it, leaves no locomotive moving and the track
\* off, whichever session moved it.
StoodStill ==
  owed =>
    /\ \A l \in Locos, v \in Values, s \in Texts \cup {None} : Becomes(l, <<v, s>>) => v = Stop
    /\ ~Becomes("track", <<"on", None>>)
StoodDown == main = "ended" => StoodStill

\* The link is what StationLink promises, through every cancellation of it.
Session ==
  CASE link \in {"connecting", "backoff"} -> "none"
    [] Open -> "open"
    [] link = "closed" -> "closing"
    [] OTHER -> "over"
Said == INSTANCE StationLink WITH
  session <- Session, heard <- answered, up <- row, broken <- FALSE
SaysItsLink == Said!LinkSpec

\* A station that says nothing is said to be away, however open the socket.
SilenceIsSaid == []<>(mute /\ row => main = "ended")

\* The world outside done, a railroad that is driven is caught up with: the
\* station is told all that is wanted, whatever it, the mirror and the bus
\* have done.
CatchesUp ==
  <>[](main = "driving" /\ ~mute /\ ~lossy =>
         marked /\ \A due \in Due(script) : told[due[1]] = due[2])

\* And the script that runs is the one the store has for the railroad that is
\* named, or the process is ending.
FollowsTheStore ==
  <>[](main = "driving" /\ railroad # None /\ store[railroad] \notin Broken =>
         script = store[railroad] \/ changed)

\* A new text ends the process.
NewTextEnds == changed ~> main = "ended"

-----------------------------------------------------------------------------
(* The inductive invariant of Spec.                                        *)

\* The bus holds one value of a device, and a clock that was sent is the bus's.
OneOfEach == \A i, j \in DOMAIN wanted : wanted[i].dev = wanted[j].dev => i = j
ClockIsTheBuss == minute # None /\ clocked # None => minute = clocked

\* What a marked station is to have been told: the picture, and the clock that
\* is not sent again.
Promised ==
  Due(script) \cup (IF clocked = None THEN {} ELSE {<<"clock", <<clocked, None>>>>})

\* A mark on its way has the whole picture behind it, whatever is lost ahead.
MarkBrings ==
  Driven => \A i \in DOMAIN toStation : toStation[i] = Mark =>
              \A due \in Promised : LastSays(toStation, i, due[1], due[2])
MarkedHas ==
  Driven /\ marked /\ ~lossy => \A due \in Promised : Becomes(due[1], due[2])

\* Who moves was commanded.
MovedIsCommanded ==
  \A l \in Locos \ commanded : told[l] = None /\ NotAbout(toStation, l)

\* The mirror lets a connection go before its session ends, but at the end.
LetGoFirst == main = "driving" /\ peer => link = "listening"

\* Only a held link is owed for, and it is held to the end: with it StoodStill,
\* which is of the end's every await.
OwedIsHeld ==
  owed => /\ main # "driving" /\ peer /\ ~mute
          /\ \/ main = "flushing" /\ link = "listening"
             \/ main # "flushing" /\ link = "closing" /\ raising
             \/ main # "flushing" /\ link = "closed" /\ raising
             \/ main # "flushing" /\ link = "ended"
IInv ==
  /\ TypeOK /\ ~signalled /\ OneOfEach /\ ClockIsTheBuss /\ MarkBrings /\ MarkedHas
  /\ MovedIsCommanded /\ LetGoFirst /\ OwedIsHeld /\ StoodStill
=============================================================================
