# dccex, specified

TLA+ specifications of the programs in this repository, the TLC runs that check
them on small instances, and proofs of their theorems for every instance. Paths
below are of this repository: `src/dccex_usb/station.py` is the mirror.

## The system

Three programs and a page share one command station.

| part | where | keeps | does | talks to |
|---|---|---|---|---|
| **mirror** | `src/dccex_usb/station.py` | the open `Device` and its lock, the watcher, the clients, the grace | opens the serial device and reopens it, writes clients' whole messages to it one at a time, fans what it says out to all of them, lends it to a flash | the device; clients on a TCP port (the translator, JMRI, throttles, monitors) |
| **framing** | `src/dccex_usb/framing.py` | a client's partial message | folds bytes into `<…>` messages | called by the mirror; `src/dccex/replies.py` has the same rule |
| **flasher** | `src/dccex_usb/firmware.py` | the one flash in flight and its stage | fetches and checks a release, borrows the device, runs esptool, gives the device back | the face asks it; the mirror lends it the device; a release source; a subprocess |
| **face** | `src/dccex_usb/face.py`, `stream.py`, `store.py`, `journal.py`, `log.py` | who is being answered; each monitor's stream | answers the page's requests, and carries the station's conversation to it as a client of the mirror's own port | the page; the mirror's port; the flasher; control's store |
| **process** | `src/dccex_usb/__main__.py` | the order of the end | starts mirror and face; closes the face, waits out a flash, cancels the mirror | signals |
| **translator** | `src/dccex/translator.py`, `replies.py`, `commands.py`, `rows.py` | the desired picture, what the station last said, the link, the supply | turns the bus's desired rows into commands and the station's replies into rows; replays the picture on a connect and a restart; stands the railroad down on the way out | the bus (MQTT); the mirror's port; the script; the journal |
| **script** | `src/dccex/script.py`, `store.py` | the handlers of one railroad | run in place of the translator's commands; asked for again, and a change ends the process | the store |
| **journal and log** | `src/dccex/journal.py`, `log.py` | two files, trimmed | kept by the translator, served by the face | the volume they share |
| **page** | `ui/src` | a socket, the list its box is sending, the flash it follows, the script pane | stops, cuts and asks for a write; monitors; edits the script | the face; the bus |
| **deployment** | `scripts/deploy.sh` | a line for each deploy | builds the image and brings it up | git, docker |

What is hard in it is concurrency inside one event loop: a step of one task
between two of another's awaits. The mirror's tasks meet at a device that goes
away at any moment; its clients and the face's pages may stop reading at any
moment; a flash takes the device from under both; and everything has an end
that waits for the rest. `PROJECT.json` lists the hazards at the lines they are
at.

What makes each part correct:

- *mirror*: commands are whole and of their session; nothing waits for ever on
  a device that has gone or goes into a descriptor that is another's; an outage
  that lasts takes its clients; a borrower has the device to itself; the device
  is opened again; close ends, and nothing comes back after it.
- *fan-out*: a client that keeps up misses nothing; one that does not costs a
  bounded amount and is said to have been behind.
- *framing*: the messages of a stream do not depend on how it was cut.
- *flasher*: one flash; esptool alone at the device; the flag and the stage are
  those of a flash that is running; the device comes back however it went.
- *face*: no stream leaves a client on the mirror's port; nothing is buffered;
  callers are waited on no longer than the patience, however long their answer
  takes; close ends.
- *frames*: a page's frames are the ones it sent, however they are cut.
- *translator*: the link is the station answering; a restart or a connect
  replays the picture; on the way out every locomotive it drove is stopped.
- *supply*: what is published, handed to the script and journalled of the power
  are one story, and follow the station.
- *journal and log*: a trim takes the oldest and leaves the power readable, and
  a page that had read past what a trim left, and asks before the file is as
  long again, is told so and reads it whole.
- *page*: nothing is written before the railroad is stopped; nothing typed
  waits for another stream; no railroad gets another's script, and edits stay.

## The modules

| module | models | uses |
|---|---|---|
| `Framing` | `frame`, a byte at a time | |
| `Typed` | a page's frames (`stream.py`), `_to_station`, and a client's bytes | `Framing` |
| `Mirror` | `Device`, `Station` but for the bytes of the fan-out | |
| `MirrorInv` | the inductive invariant of `Mirror` | `Mirror` |
| `DeviceOwner` | abstract: what a borrower sees of the mirror | |
| `MirrorOwner` | the refinement of `DeviceOwner` by `Mirror` | `MirrorInv`, `DeviceOwner` |
| `FanOut` | `_fan_out`, `_cut_off`, `_client`'s end, counting bytes | |
| `Monitor` | `Server` and `Monitor` of the face, on the mirror's port | `FanOut` |
| `Flasher` | `Flasher`, `run`, `fetch`, and `mirroring`'s way out | `DeviceOwner` |
| `Page` | the page's stream, its box, its flash and what it follows | `Flasher` |
| `StationLink` | abstract: what the bus is told of the link to the station | |
| `Translator` | `DccEx`'s link, picture, script and end, and `_driving` | `StationLink` |
| `Supply` | `DccEx`'s fold of the power, its rows, reports and power lines | `StationLink` |
| `Journal` | the journal's and the log's files, and who reads them beside | |
| `Editing` | the script pane, the face's two routes for it and the store | |

`M_proofs` holds the theorems about `M`, and `MCM` is `M` for TLC: it adds
nothing but a symmetry set, the members of a small set, or a specification with
less in it. `Mirror_proofs` is of `Mirror` and of `MirrorOwner`, `Flasher_proofs`
of `Flasher` and of `Page`, `Monitor_proofs` of `FanOut` and of `Monitor`,
`Typed_proofs` of `Framing` and of `Typed`.

A step of a module is what one task does between two awaits, whole. A task is a
variable that says at which await it stands: `watcher`, `pc[c]` and `handover`
in `Mirror`, `stage[g]` in `Flasher`, `stage` and `at[d]` in `Monitor`, `main`,
`link` and `watching` in `Translator`. An
asyncio lock is the sequence of those in line for it with its holder first
(`line[d]` in `Mirror`, `saying` in `Monitor`). A connection is a value of a
small set: open, half closed, lost, or being flushed. `PROJECT.json` maps each
definition to the lines it stands for.

**Mirror.** `plugged` and `hung` are the cable; `open` is `Station._open`, and
because a `Device` never opens again the objects are told apart: `Devices` is a
set of them and one nobody refers to is used again. A message is `Pieces`
writes; `wire` is what the device has of a message that is not whole, and
`astray`, `stale` and `fresh` record what must not happen, a write through a
`Device` that was let go or in a session later than the one its message was
read in. `Write(c, to)` is the loop of `Device.write` until it is done or
parks. `LetGo` is `let_go`; that a write the selector woke has its turn still to
come is `pc[c] = "woken"` with `hold[c] # open`. `closing` is `run` cancelled
(`draining`: the wait inside asyncio's `serve_forever`), then `close`'s two
waits. Time is counted in ticks of the first backoff, and a tick passes only
when no handler is ready to run: the shortest timer is half a second and a ready
callback a turn of the loop away. `NothingStale` rests on this and would be
false of a loop starved for that long.

**DeviceOwner** is what `Flasher` relies on and `Mirror` implements: `has`,
`kept`, `asking`, `using`, `over`. `MirrorOwner` maps `has` to `open # None`,
`asking` and `using` to where the one handover is, `over` to `Closed`.

**FanOut** knows a byte by its place in what the device has said, so that a
client's history is the sequence of places and a gap is visible. `Owes` is
asyncio's write buffer.

**Flasher** extends `DeviceOwner`: `Checked`, `Given` and `Finished` are its
`Ask`, `Give` and `Back`. A fetch is two states, speaking and `silent`, because
urlopen's timeout is of silence. Every refusal after the task has started is one
action: which of them it was is wording. `app` is where `mirroring` is.
`Signal` is SIGTERM and belongs to `SignalSpec` only, as `Terminated` does in `Translator`.

**Page** extends `Flasher`: one of the gestures is this page's, the rest are
other pages'. `socket` is `Stream`'s, `queued` and `awaiting` are `Pacing` (the
reply's timer runs for as long as one is awaited, so the two are one variable),
`flying` is the page's `flashing`, `ask` and `answer` the one ask about it, and
`post` what became of the POST. A message is flagged when a stream opens above it:
what goes up a stream was typed at that one. The stop and the cut of `sequence` go in one turn
of the page, and so both go or neither does: the words for the cut alone failing
(`UNCUT`) are for a case that does not arise. `Loads` is the page left and opened
again, with its POST and its asks let go.

**Monitor** extends `FanOut` with one of its clients a page. `browser` is the
caller's connection, `frames` what it has not taken, `HighWater` and `LowWater`
asyncio's, `stage` where `_asked` is, `at` and `says` where the two directions
are and what frame each has. At `"answering"` the face's answer is awaited, with
nothing to end it but itself: neither the patience nor an abort. `face` is the
server. What its `wait_closed` waits for is not the same in every Python: the
handlers, says the source (`face.py:1374`); in asyncio since 3.12.1 the
connections, wherever their handlers are. Here it may be over as
soon as no connection is left that is not lost, and is owed only once no handler
runs, so that what is shown holds of both.

**Translator** has three tasks in variables of their own, `_driving` (`main`),
`run` with its session (`link`) and `following` (`watching`); the fourth, the
poll, lives as long as a session listens. A command is what it is about and what
it says: a value, and the script whose handler said it, `None` where there is
none. That is as much of a handler as the replay is about. `Picture` is what
`_started` sends, `Farewell` what `shutdown` does, and `CancelLink` what a
cancellation does at each await of the session, the one in
`suppress(CancelledError)` among them. The mirror, the station, the store and
the bus are the world outside: `StationTakes` is the station told one thing at a
time, `marked` its stash, `told` what it was last told of each thing since it
booted. `lossy` and `owed` are history: something was lost that no restart and
no closing shows, and a stand-down found its link and nothing has spoiled it
since. A poll asks one question here and not two, the stash; what the other is
answered with is the supply's. The silence is counted in polls, and the last of
them may fall on either side of the time.

**StationLink** is the one link `Translator` and `Supply` each model a side of:
the first with a connection and its bytes, a script and a cancellation at every
await, the second with the journal, whose line is written before the word is
said. `Session`, in both, maps their `link` to its `session`: `Supply`'s
`"unpolled"` is open, and `"dead"` and `"deaf"` are over.

**Framing** folds one byte a step; the chunk in hand is `arrived`. The reference
reads all the bytes at once and is `Messages`: for every end of a message in
them, the start no more than the limit before it with no delimiter between
(`Beginnings`), in the order of the ends. **Typed** puts the two ways to it before it: a client's bytes are read
off a connection, and a page's come as frames that are unmasked, checked and
taken off one by one. A byte of a frame is what it stands for, so that a size in
any of its forms, a mask and a payload cut anywhere are bytes of `wire`. `hand` is
what one read gave and is not acted on yet, `ended` why the stream is over. A size is
read by `Digits` and `Number`, and the loop of `unframed` is the function
`Unframed`.

**Supply.** `fold` is what the translator knows of the power: whether the link
is heard, each district's digit, the line of all, who tripped, who is in alert,
and the setting. `reported` is what a district's record says, `handed` what the
script's handlers were last handed of it, `row` the two rows, `kept` the line
last journalled, `written` what the journal has. A line on its way is in `toApp`;
the station answers with its lines at once and they are heard one at a time. A
disk that is full stops what is done in the middle, as it raises there: `"unpolled"`,
`"deaf"` and `"dead"` are where that leaves the link. Modes and limits are one
setting.

**Journal** is both files at once: `which` says which of the two this behaviour
is of, as they differ in what a trim keeps. A file is the set of its lines, each
named by the moment it was said, so that what a trim left out is what is missing.
`beside` is the file to come until it is renamed; a page's `page` is the bytes it
holds of the log, and `misled` that a trim, or a file that grew back, came past
without a range that would be refused.

**Editing.** A turn of the page is what it sets, then `WillUpdate`, then
`Updated`, in one step, as one draw runs both. `pane.asks` are the scripts asked
for, `pane.applying` the Apply, `puts` what the face has sent the store and not
been answered: a face that gave up leaves it there, and the store may take it
later. A text is known by the railroad it was written for.

## The runs

| run | shows | instance |
|---|---|---|
| `typed` | no message and no frame is lost, doubled or made up | three kinds of byte, limit 3; a client's every stream of 6 in chunks of 1 to 3; a page's every two frames, with payloads past each form of a size, in reads of 1 to 4 |
| `mirror` | commands whole, of their session and on their device; nothing parked on what has gone; `Mirror` implements `DeviceOwner` with its fairness; an outage takes its clients, a borrower gets the device, it is opened again, close returns | two clients, messages of two writes, two `Device`s |
| `page` | esptool is alone, the way out waits and the device is given back; nothing is written before a stop and a cut; nothing typed waits for another stream; the bar falls | this page's gesture and another's, lists of two, typed at twice |
| `monitor` | no gap, no client left on the port, nothing buffered; a lost page's stream ends, but where the port takes nothing for ever, callers are not waited on for ever; of a page that keeps reading, the mirror's letting go ends the stream, and close returns but where an answer or the port never does | one page and a client of the port that reads nothing; high water 1, limit 0, 3 bytes: both back up to the mirror and are cut off, together or apart |
| `translator` | a marked station misses nothing; the end stops every train; silence is said; the station is caught up with and the script is the store's, in the end | a train that is wanted moving, one other device, one minute, one railroad with a script, none, or one that does not load; any two disturbances from outside; one question on its way |
| `supply` | the row, the script's records and the journal tell one story, `Supply` implements `StationLink`, and in the end the row is the station's | two districts, two settings, two lines on their way when the station says more, any three of: a trip, an alert, a throttle's switch, a restart, an outage, a silence, a script, a full disk |
| `journal` | the power outlives every trim, only the oldest go, the tail of a page that can tell a trim is what one file held | two districts, lines of one size and two, trimmed above 4 to 2, six lines, two of: the end of the process, a full disk |
| `editing` | no railroad gets another's text, what is called applied was, edits are lost by the two steps that take them and no other | two railroads, two texts of each, one of which does not compile; two asks, an Apply, and two puts on their way |

The bounds that are not the program's: `MaxBatch` messages to a read, `MaxSaid`
bytes of the device, `MaxGiven` bytes of a client, `MaxSent` frames of a page,
`MaxList` and `MaxTyped` at its box; and of the translator
`MaxAsks` questions on their way, `MaxInFlight` commands on their way for the
bus to add one, and `MaxTroubles`, what the bus, the station, the mirror and the
store may do between them. The app's own replays have no bound. Two troubles are
a change and a failure, or two failures, in any order and with everything else
in between; that they end is what the last two properties need. Two
clients are enough for one to hold a lock and one to wait; more of the same kind
only lengthen the line, and the proofs are of any number. Two writes to a
message are enough for a write in its middle. Three specifications have less in
them. `Bounded` of `MCMirrorOwner` lets a second client in only while nobody hands
over or closes: both are waits on clients one at a time, and the safety of any
number with both is proved. `Apart` of `MCPage` keeps the box still while a flash
is in flight: the two share nothing but whether the socket is open. `MCSpec` of
`MCMonitor` has the page's neighbour read nothing, come and go only before the
device speaks (`Slow`), and the device speak only to a page (`Listened`): what a
neighbour that reads does to the page is nothing, and is proved. None of the three
holds back a step that fairness owes. A setting of the supply begins as some one
setting, as which it is decides nothing.

`CHECK_DEADLOCK FALSE` is where the system stops: a flasher whose process has
exited, a face that is closed, a device with nothing more to say, a stream or a
translator that has ended, a file with all its lines.

### Fairness

A callback that is ready runs: weak fairness of the watcher, of each handler
with work, of whoever waits for what has happened. Timers fire: `Tick`,
`GraceEnds`, `Impatient`, `FetchTimesOut`, `ToolTimesOut`. Two of the mirror's
are strong, because what they wait for comes and goes with other clients' work:
`Tick`, which in the model passes only between handlers, though a real timer is
due however busy the loop is; and `Leave`, as a lost connection has only so much
left to read. Nothing is assumed of the cable, the peers, the selector, the
release source, esptool, or who calls `released` and `close`, and nothing of a
page: that it takes what it is sent is a premise of the two properties of
`Monitor` that need it (`PageReads`). Nothing is assumed of how long an answer of
the face takes, nor that the mirror's port takes what its clients type: the
handler that reads them awaits `Device.write`, which on a device that takes
nothing waits for ever (`station.py:252`, `station.py:535-537`). The translator's four tasks each get their
turn, and the station takes what it is sent, if only to do nothing with it; the
supply's are the link and its poll. The page's asks are made and answered, if only
by failing, and of its socket, its replies and the person at it nothing is
assumed. `Typed`, `Journal` and `Editing` have safety alone. That anything from
outside happens, or that the loop is stopped when nothing asks it to, is not
assumed.

### What the code does not do

Four runs check a sentence of the source that a behaviour of the code refutes;
`PROJECT.json` has the finding of each.

- `run_waits_on_clients`: the mirror's close is meant not to be held up by a
  client, and a cancelled `run` waits for them inside `serve_forever`.
- `signal_reaches_the_flash`: SIGTERM cancels the flash itself and not only who
  waits for it. `mirroring` says the wait cannot be held; `released` says the
  flash is shielded.
- `not_stood_down`: SIGTERM raises out of the translator's loop, all its tasks
  are cancelled in no order, and where the link's goes first there is nothing
  left to stand the railroad down over. Ctrl-C cancels the one task and is the
  way out `translator` checks.
- `new_text_outlived`: a link that is cancelled at the one await that suppresses
  a cancellation goes on, connects again and replays the speeds, and the process
  waits for it.

Properties stated with less than the source says, for reasons of the same kind:

- `CloseEnds` leaves out a client accepted but not begun: its handler joins
  `_clients` only when it first runs (`station.py:526`), so `close` has not
  aborted it and waits for it to leave by itself.
- `ReaderFollowsMirror` leaves out a page that does not read: a stream is cut
  off because of such a page, and then waits for it in `_say` and not for the
  mirror, so it is not ended by the cut-off (`face.py:1214` says it is).
- `StoodDown` leaves out an end whose link was not open, was lost under it or
  was to a station that is wedged; and a replay that comes after the zeros,
  because the station's restart was heard, or a first script loaded, while the
  buffer was being waited for or the link let go.
- `NothingMissed` leaves out what the mirror dropped in its grace
  (`docs/dccex_usb/README.md:136`).
- `LeavesWithThePage` leaves out a stream whose typing waits for ever to be taken
  by the mirror's port (`HeldByPort`). `_to_station` is in its drain
  (`face.py:1295`) because the mirror's handler is parked in `Device.write` on a
  device that takes nothing (`station.py:535-537`), neither with a timeout: if the
  station also says nothing, a browser that is lost ends neither direction, and
  its client stays on the port until the device moves or goes.
- `PatienceEnds` is of the caller: a request that is being answered is waited on
  for as long as the answer takes (`face.py:1402`).
- `FaceEnds` leaves out a caller accepted but not begun (`missed`) and a page
  that has stopped reading once its handler is over (`PageReads`): neither is in
  `_asking` for `close` to abort. It also leaves out the handlers an abort does
  not end: one that waits for an answer for ever (`[](stage = "answering")`), as
  for a flash whose fetch trickles (`face.py:1387`), and one whose stream the port
  holds. The source names the first and not the second.
- `TailIsWhole` leaves out a page that had read no more than a trim leaves, as one
  whose log was hidden early, and one whose file grew back to what it had read
  before it asked (`misled`). Its range is not refused, and it is given bytes from
  inside other lines behind what it had: `ui/src/ui/dccex-log.ts:5` says a file
  that was trimmed is read whole again.
- `ReleasedMeansClosed` leaves out a handover entered while `close` waits for
  the watcher, as `_stop_watching` waits only in the first of two callers; for
  the same reason the device may be open until the watcher's next turn when
  `close` returns.
- No property bounds a fetch: `FETCH_S` is the time between bytes
  (`firmware.py:429`), so a source that trickles holds the flash for ever.
- `CatchesTheTruth` allows power that is read because of an alert: an alert is
  ended by `NORMAL`, a 1 or this app's own OFF, so one in a district another
  throttle switched off still reads on (`translator.py:1156`). It also leaves out
  a link's task that died of a full disk, as `StationLink` (its
  `broken`) and `JournalSaysThePower` do: the line is written before the row is said.
- `ScriptSeesTheRow` leaves out a first script that came late: the records that
  stand are not handed to it again (ADR-0024).
- `EditsStay` says that edits are lost by two steps and by no other; the docs have
  none (`docs/ui/README.md:459-464`). A load while an Apply is in flight opens the
  railroad that was loaded, whatever was typed since the Apply was sent
  (`ui/src/ui/dccex-script.ts:464-472`). And where a railroad is loaded, left and
  loaded again with both asks out, the answer that is late overwrites what was
  typed at the first (`ui/src/ui/dccex-script.ts:516-517`): `edited`, and not the
  editor's document, against the comment that they are one
  (`ui/src/ui/dccex-script.ts:163`).
- `BarFalls` says a bar does not stay, and not that one is there: `#follows()` at
  the end of `#writes` is skipped while an ask is out
  (`ui/src/ui/dccex-app.ts:813`), so a page whose POST was refused for another's
  flash, and whose last ask was answered before that one began, draws nothing of
  it; nor does a page told of one on load, once one ask of its fails.

Met while modelling and in no property: a reply to another client's PROG command
counts as the box's (`ui/src/paced.js:138`); the stop and the cut of a flash ride
another connection than its POST, and are dropped with everything else where the
mirror has the device away; a write the store takes after a face gave up on it is
kept, and the page was told it failed (`Editing` has it in `puts`); bytes typed
last at a page whose stream is ended may go with the port's connection, which is
aborted; frames ahead of one that cannot be read, in the same read, go with it; a
district that goes off by the app's own OFF after a trip is said to be on for as
long as it takes to hear its line; the doc of `Event.reported` and the order
`_forget` reports in (`translator.py:394`).

## The proofs

Of every value of the constants under the named assumptions (`MaxBackoff >=
FirstBackoff`, positive sizes, `None` not a member, one desired
value of a device on the bus, at least one byte to a message's limit; of the
frames, that the weights of a size's bytes are the powers of the base, that one
more than the largest frame and control frame can be written as a size, and that
`None` is no reason a stream ends for). TLC checks each of them on the runs.

- `Typed_proofs`: that the fold of a client's bytes is the messages of all of
  them read at once, and that what reaches the port is what a page's frames say,
  for any alphabet, limit, payload, mask and size, in every cut of their bytes.
  Both compare with a definition over the whole of a stream. Of the messages, the
  invariant says that what is held could be a message's start and is the end of
  what was given (`Held`), and that what came is the messages of the rest: one
  byte more adds to `Beginnings` what it ends and nothing else. Of the frames, it
  says that what is held and to be read is what is left of the frames' bytes when
  the first so many are taken off (`Flows`). That the loop of `unframed` comes to
  that is an induction, and as the library's rules for one take an operator it is
  done on a set: the numbers outside it would have a least one (`Induction`, from
  the well-founded order of the naturals). A frame cut anywhere is read as cut
  (`Received`) because its size, in whichever form, is the number its digits are.
- `Mirror_proofs`: all of the mirror's safety. None of it is inductive alone.
  `WholeMessages` needs to know who is writing, so the invariant says of every
  `Device` who is in line at its lock (`LockLine`) and that the wire is the start
  of the message of the first (`WireIsHeads`). `NothingStale` needs that a
  device is opened only with no message on its way (`SessionsAreFresh`), which a
  backoff gives because a tick waits for the handlers; and the handover needs
  to know when there is a watcher (`WatcherKept`, `WatcherOpens`). One lemma per
  action, grouped by what the action leaves alone.
  The same module proves that every step of the mirror is a step of
  `DeviceOwner` or none, from the same invariant.
- `Flasher_proofs`: all of the flasher's safety, for any number of gestures, and
  that it sees no more of the mirror than `DeviceOwner` allows
  (`KeepsToThePromise`), which is what the mirror implements. The
  invariant adds that a borrower asks and uses only where its task is
  (`OneBorrows`) and that there is a watcher unless somebody borrows (`Watched`).
  Every step with a page beside is a step of the flasher's or none
  (`PageIsACaller`), so that all of it holds with one. Of the page itself:
  nothing is held over to a later stream, for lists of any length, because what
  waits at a stream was typed at it and between two streams nothing waits
  (`TypedHere`), so that opening one finds nothing (`OpensOnNothing`); and no flash of its own
  is in flight but behind a stop and a cut, because a POST that is out has them
  before it (`Prepared`) and nobody else begins that flash.
- `Monitor_proofs`: of the fan-out, no gap, bounded cost and a true log, for any
  clients, limit and read size. Of the stream, no client is left on the port,
  nothing is buffered past the page's mark and one read, and beside a face the fan-out's own properties still
  hold. The invariant says who is in line at the stream's lock and why
  (`LineIsWhoSays`, `WaitsToSay`), and that somebody drains whenever the page is
  past its mark (`PastIsDraining`), which is what bounds it. The steps of any number
  of other clients of the port are among those it is kept by.
- `Translator_proofs`: a marked station misses nothing and the railroad is stood
  down, of `Spec`; `SignalSpec` is where `not_stood_down` refutes the second. What
  `NothingMissed` needs is that the mark goes out ahead of the picture: a mark on
  its way has all of it behind (`MarkBrings`), so that whatever is lost ahead of
  the mark, a station that gets it gets the rest, unless that is lost after it and
  shows (`lossy`). What
  a station marked already was told is not sent again when it is the clock, so
  that the invariant keeps the minute that was sent as well as the bus's
  (`Promised`, `ClockIsTheBuss`). `StoodDown` needs that whoever may move was
  counted (`MovedIsCommanded`), of which the zeros are made, and that a link which
  is owed for sends nothing more but polls until it has ended (`OwedIsHeld`).
  That every step is a step of `StationLink` or none is proved of `SignalSpec`: it
  needs only that the word is down between two sessions (`DownBetween`), so that a
  task cancelled there, or one that fails to connect, leaves nothing up. What it
  comes to is `UpIsAnswering`, proved of `Supply` too.
- `Supply_proofs`: all of the supply's safety, for any districts, settings and
  numbers of lines and troubles. `ScriptSeesTheRow` compares two things the app
  writes at different moments from a line of all districts, and holds because
  such a line repeats what each of them was last said to be (`Agrees`), in line
  before it or folded already. `JournalSaysThePower` leaves repeated lines out
  and needs that what was kept was written (`KeptIsWritten`).
- `Journal_proofs`: the power, the order and the page's tail, for any sizes and
  any limit, through every restart. That a trim keeps each district's last line
  is about the file beside as well as the one that stands. `TailIsWhole` needs
  that a page which has asked since the last trim holds the file's own beginning
  (`ReadSoFar`), that one which has not has read past its end, so that its range is
  refused (`ReadPast`, `TrimmedFits`), and that a trim of the log leaves an end of it.
- `Editing_proofs`: all of the pane's. Every text is kept beside the railroad it
  is for wherever it is on its way: in an ask, an answer, an Apply, a put. That an
  answer to an Apply takes no edits needs that a pane which waits for one is on the
  railroad that is loaded (`OnLoaded`).

Every invariant the runs check, every property of steps and the safety of both
refinements is proved. Only model-checked is what holds under fairness, as the
provers here have no `ENABLED`: the fourteen liveness properties, one of which is
`GivesItUp`, the second half of `ImplementsOwner`.

## Not modelled

- Log lines, and so `_dropped`, which decides how often one is logged.
- The bytes of commands and replies, requests, release documents and esptool's
  output beyond the stage it moves a flash to: each is one function of one
  value, and tests reach them.
- Two handovers at once in `Mirror`: `Flasher` shows there is never more than
  one block.
- Two pages at once in `Monitor`: they share nothing in the face. At the mirror
  the run has one client beside the page; what any number of them do to it rests on
  the proofs.
- `Detached` of a connection reset while its handler is over is one step; the
  order asyncio calls `connection_lost` in is not visible here.
- Of the translator: what a handler sends beyond the command it stands for
  (`Event`), the timeout of the whole host, turnouts and what the station is
  asked of itself at a connect.
- The encoding of commands and rows (`commands.py`, `rows.py`, `sample.py`) and
  the pattern of each reply: functions of one value. The framing in `replies.py`
  is the rule `Framing` has.
- The face's routing, ranges and origins, one function of a request each. The
  flash's route is `Wanted`, the journal's and the log's are `Journal`'s, the
  script's two are `Editing`'s.
- A line of the journal a full disk took half of, which a later trim cannot
  read (`dccex/journal.py:89`).
- Of the page: what it draws. Its power buttons send a wish to the bus and no
  more; the poll is asked anew and awaits nothing.
- The deployment: one run of shell that calls git and docker.

## Plan

1. `Script`: what a handler sends and reads back, and the default behind one
   that raises.
2. The composition of `Translator` with `DeviceOwner`'s outages in place of
   `Blips` and `MirrorCloses`.
3. Two pages in `Editing`, each with its pane on one store.
