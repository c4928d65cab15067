------------------------------- MODULE Mirror -------------------------------
(***************************************************************************)
(* The command station's serial device, mirrored on a TCP port             *)
(* (src/src/dccex_usb/station.py).                                         *)
(*                                                                         *)
(* One process, one event loop.  Its tasks are the watcher, which opens    *)
(* the device and outlives its outages, one handler per client, which      *)
(* writes the client's whole messages to the device, the grace, which      *)
(* disconnects the clients of an outage that lasts, and the two callers    *)
(* that end the watcher: a handover (`released`) and `close`.  A step of   *)
(* this module is what one task does between two awaits.                   *)
(*                                                                         *)
(* Time is counted in ticks of the first backoff.  A tick passes only when *)
(* no handler is ready to run: the shortest timer here is half a second,   *)
(* and a callback that is ready is a turn of the loop away.                *)
(***************************************************************************)
EXTENDS Integers, Sequences, FiniteSets

CONSTANTS
  Clients,       \* the TCP clients: the translator, JMRI, throttles
  Devices,       \* `Device` objects; one nobody refers to is used again
  None,          \* no device
  Pieces,        \* how many writes the longest message can take
  MaxBatch,      \* bound: whole messages one read can complete
  FirstBackoff,  \* FIRST_BACKOFF_S, in ticks
  MaxBackoff,    \* MAX_BACKOFF_S, in ticks
  GraceReopens   \* GRACE_REOPENS

ASSUME ConstantsAssumption ==
  /\ None \notin Devices
  /\ Pieces \in Nat \ {0}
  /\ MaxBatch \in Nat \ {0}
  /\ FirstBackoff \in Nat \ {0}
  /\ MaxBackoff \in Nat /\ MaxBackoff >= FirstBackoff
  /\ GraceReopens \in Nat \ {0}

VARIABLES
  plugged,    \* the device node is there and takes the line discipline
  hung,       \* the open descriptor's device has gone away under it
  open,       \* Station._open; the one Device whose _fd is not None
  spoke,      \* until_gone's local: the device has sent a byte
  watcher,    \* where the watcher task is
  kept,       \* Station._watcher is not None
  backoff,    \* _watch's local
  sleep,      \* ticks left of the watcher's sleep
  clients,    \* Station._clients
  behind,     \* Station._behind
  sock,       \* each client's connection
  pc,         \* where each client's handler is
  batch,      \* whole messages of the last read still to be written
  sent,       \* pieces of the handler's current message already written
  hold,       \* the Device the handler's write was called on
  line,       \* each Device's _writing lock: its holder, then who waits
  grace,      \* ticks left of Station._grace, or Off
  handover,   \* where the one `released()` block is
  closing,    \* where `run`'s end and `close()` are
  wire,       \* the pieces the open device has taken since a message ended
  fresh,      \* history: the last read was in the session still running
  astray,     \* history: a piece was written through a number let go
  stale       \* history: a piece was written in a later session

deviceVars  == <<plugged, hung, open, spoke>>
watcherVars == <<watcher, kept, backoff, sleep>>
portVars    == <<clients, behind, sock>>
handlerVars == <<pc, batch, sent, hold, line, fresh>>
endVars     == <<handover, closing>>
wireVars    == <<wire, astray, stale>>
vars == <<deviceVars, watcherVars, portVars, handlerVars, grace, endVars,
          wireVars>>

Off == -1
GraceTicks == GraceReopens * FirstBackoff

WatcherAt  == {"none", "starting", "sleeping", "mirroring", "cancelled"}
SockAt     == {"none", "open", "eof", "lost"}
HandlerAt  == {"out", "arriving", "reading", "handling", "queued", "parked",
               "woken"}
HandoverAt == {"no", "stopping", "block"}
ClosingAt  == {"no", "draining", "waiting", "stopping", "closed"}

\* After `start()`: the port bound, the watcher created and not yet run.
Init ==
  /\ plugged \in BOOLEAN
  /\ hung = FALSE /\ open = None /\ spoke = FALSE
  /\ watcher = "starting" /\ kept = TRUE
  /\ backoff = FirstBackoff /\ sleep = 0
  /\ clients = {} /\ behind = {} /\ sock = [c \in Clients |-> "none"]
  /\ pc = [c \in Clients |-> "out"]
  /\ batch = [c \in Clients |-> 0] /\ sent = [c \in Clients |-> 0]
  /\ hold = [c \in Clients |-> None] /\ line = [d \in Devices |-> <<>>]
  /\ grace = Off
  /\ handover = "no" /\ closing = "no"
  /\ wire = <<>> /\ fresh = [c \in Clients |-> FALSE]
  /\ astray = FALSE /\ stale = FALSE

-----------------------------------------------------------------------------
(* What several of them do.                                                *)

\* `_closed`.  `run` being cancelled drains the server before `close` sets it.
Closed == closing \in {"waiting", "stopping", "closed"}

\* Still counted by the server: what its `wait_closed()` waits for.
Attached(c) == sock[c] \in {"open", "eof"}

\* `_start_grace`, once `_open` is `now` and `_clients` is `on`.
StartGrace(now, on) ==
  grace' = IF grace # Off \/ now # None \/ on = {} THEN grace ELSE GraceTicks

\* `_stop_grace`.
StopGrace == grace' = Off

\* transport.abort() on each of them.
Abort(cs) == sock' = [c \in Clients |-> IF c \in cs THEN "lost" ELSE sock[c]]

\* A Device object nothing refers to any more.
Unused == Devices \ ({open} \cup {hold[c] : c \in Clients})

\* min(backoff * 2, self._max_backoff_s)
Doubled(b) == IF 2 * b > MaxBackoff THEN MaxBackoff ELSE 2 * b

\* Mutant of LetGo: what is parked is left to the selector to wake.
LetGoUnwoken == /\ open' = None /\ pc' = pc
                /\ wire' = <<>> /\ fresh' = [c \in Clients |-> FALSE]

\* `Device.let_go`: the number stops being this device's, and everything
\* parked on it is woken.  A write already woken has its turn still to come.
LetGo ==
  /\ open' = None
  /\ pc' = [c \in Clients |->
              IF pc[c] = "parked" /\ hold[c] = open THEN "woken" ELSE pc[c]]
  /\ wire' = <<>> /\ fresh' = [c \in Clients |-> FALSE]

\* `_watch`'s finally: what every end of a session does.
EndSession ==
  /\ LetGo
  /\ StartGrace(None, clients)

\* A handler that has work it could do at the next turn of the loop.
Ready(c) == \/ pc[c] \in {"handling", "woken"}
            \/ pc[c] = "queued" /\ Head(line[hold[c]]) = c
Quiet == \A c \in Clients : ~Ready(c)

-----------------------------------------------------------------------------
(* The cable.                                                              *)

Plug == /\ ~plugged /\ plugged' = TRUE
        /\ UNCHANGED <<hung, open, spoke, watcherVars, portVars, handlerVars,
                       grace, endVars, wireVars>>

\* Switched off or pulled: a descriptor open on it is dead for good.
Unplug == /\ plugged /\ plugged' = FALSE /\ hung' = (open # None)
          /\ UNCHANGED <<open, spoke, watcherVars, portVars, handlerVars,
                         grace, endVars, wireVars>>

-----------------------------------------------------------------------------
(* The watcher.                                                            *)

\* Where `_watch` is about to try `Device.open`.
Tries == watcher = "starting" \/ (watcher = "sleeping" /\ sleep = 0)

Open(d) ==
  /\ Tries /\ plugged /\ d \in Unused
  /\ open' = d /\ hung' = FALSE /\ spoke' = FALSE
  /\ watcher' = "mirroring" /\ StopGrace
  /\ UNCHANGED <<plugged, kept, backoff, sleep, portVars, handlerVars,
                 endVars, wireVars>>

\* Mutant of OpenFails: an open that fails ends the watcher.
OpenFailsForGood ==
  /\ Tries /\ ~plugged /\ watcher' = "none"
  /\ UNCHANGED <<deviceVars, kept, backoff, sleep, portVars, handlerVars,
                 grace, endVars, wireVars>>

\* DEVICE_AWAY: no such path, or one that will not be configured.
OpenFails ==
  /\ Tries /\ ~plugged
  /\ watcher' = "sleeping" /\ sleep' = backoff /\ backoff' = Doubled(backoff)
  /\ UNCHANGED <<deviceVars, kept, portVars, handlerVars, grace, endVars,
                 wireVars>>

\* The read side found the device gone; the watcher waits before reopening.
SessionEnds ==
  /\ watcher = "mirroring" /\ hung
  /\ EndSession
  /\ LET pause == IF spoke THEN FirstBackoff ELSE backoff
     IN  sleep' = pause /\ backoff' = Doubled(pause)
  /\ watcher' = "sleeping"
  /\ UNCHANGED <<plugged, hung, spoke, kept, portVars, batch, sent, hold, line,
                 endVars, astray, stale>>

\* The cancellation `_stop_watching` asked for reaches the watcher.
WatcherEnds ==
  /\ watcher = "cancelled" /\ watcher' = "none"
  /\ IF open # None
       THEN EndSession
       ELSE UNCHANGED <<open, pc, wire, fresh, grace>>
  /\ UNCHANGED <<plugged, hung, spoke, kept, backoff, sleep, portVars, batch,
                 sent, hold, line, endVars, astray, stale>>

\* `_fan_out`: the device speaks, and the clients in `cut`, the ones that owe
\* too much, are cut off (module FanOut counts what they owe).
FanOut(cut) ==
  /\ open # None /\ ~hung
  /\ spoke' = TRUE
  /\ clients' = clients \ cut /\ behind' = behind \cup cut /\ Abort(cut)
  /\ UNCHANGED <<plugged, hung, open, watcherVars, handlerVars, grace,
                 endVars, wireVars>>

-----------------------------------------------------------------------------
(* A client's connection and its handler, `_client`.                       *)

\* asyncio takes the connection; the handler is a task that has yet to run.
Accept(c) ==
  /\ closing = "no" /\ pc[c] = "out"
  /\ pc' = [pc EXCEPT ![c] = "arriving"] /\ sock' = [sock EXCEPT ![c] = "open"]
  /\ UNCHANGED <<deviceVars, watcherVars, clients, behind, batch, sent, hold,
                 line, fresh, grace, endVars, wireVars>>

\* Mutant of Begin: a client that arrives to an outage starts no grace.
BeginUntimed(c) ==
  /\ pc[c] = "arriving" /\ pc' = [pc EXCEPT ![c] = "reading"]
  /\ clients' = clients \cup {c}
  /\ UNCHANGED <<deviceVars, watcherVars, behind, sock, batch, sent, hold, line,
                 fresh, grace, endVars, wireVars>>

Begin(c) ==
  /\ pc[c] = "arriving" /\ pc' = [pc EXCEPT ![c] = "reading"]
  /\ clients' = clients \cup {c} /\ StartGrace(open, clients \cup {c})
  /\ UNCHANGED <<deviceVars, watcherVars, behind, sock, batch, sent, hold, line,
                 fresh, endVars, wireVars>>

\* The peer stops sending, or is gone.
HangUp(c, how) ==
  /\ pc[c] # "arriving" /\ Attached(c) /\ sock[c] # how
  /\ sock' = [sock EXCEPT ![c] = how]
  /\ UNCHANGED <<deviceVars, watcherVars, clients, behind, handlerVars,
                 grace, endVars, wireVars>>

\* Mutant of Read: what is read while the device is away is kept for it.
ReadKept(c, n) ==
  /\ pc[c] = "reading" /\ pc' = [pc EXCEPT ![c] = "handling"]
  /\ batch' = [batch EXCEPT ![c] = n]
  /\ fresh' = [fresh EXCEPT ![c] = open # None]
  /\ UNCHANGED <<deviceVars, watcherVars, portVars, sent, hold, line, grace,
                 endVars, wireVars>>

\* A read completes `n` messages.  What is read while the device is away is
\* dropped before the handler waits again, and leaves nothing behind.
Read(c, n) ==
  /\ pc[c] = "reading" /\ open # None
  /\ pc' = [pc EXCEPT ![c] = "handling"]
  /\ batch' = [batch EXCEPT ![c] = n] /\ fresh' = [fresh EXCEPT ![c] = TRUE]
  /\ UNCHANGED <<deviceVars, watcherVars, portVars, sent, hold, line, grace,
                 endVars, wireVars>>

\* `_to_device` for the next message: dropped, with the rest of the batch, if
\* there is no device, or given its place at that device's lock.
ToDevice(c) ==
  /\ pc[c] = "handling"
  /\ IF open = None
       THEN /\ pc' = [pc EXCEPT ![c] = "reading"]
            /\ batch' = [batch EXCEPT ![c] = 0]
            /\ UNCHANGED <<hold, line>>
       ELSE /\ hold' = [hold EXCEPT ![c] = open]
            /\ line' = [line EXCEPT ![open] = Append(@, c)]
            /\ pc' = [pc EXCEPT ![c] = "queued"]
            /\ UNCHANGED batch
  /\ UNCHANGED <<deviceVars, watcherVars, portVars, sent, fresh, grace, endVars,
                 wireVars>>

\* Mutant of StillOurs: a write that was woken takes the number for its own.
TakenOnTrust(d) == d \in Devices

\* `fd = self._fd; if fd is None: raise` in `Device.write`.
StillOurs(d) == d = open

\* Mutant of HasTurn: no lock, a message goes out when its handler runs.
HasTurnUnlocked(c) == pc[c] \in {"woken", "queued"}

\* The lock is the handler's: it has just been given it, or woken with it.
HasTurn(c) == \/ pc[c] = "woken"
              \/ pc[c] = "queued" /\ Head(line[hold[c]]) = c

\* The message is over, written or dropped: the lock goes to the next in line.
EndMessage(c) ==
  /\ line' = [line EXCEPT ![hold[c]] = Tail(@)]
  /\ hold' = [hold EXCEPT ![c] = None] /\ sent' = [sent EXCEPT ![c] = 0]
  /\ batch' = [batch EXCEPT ![c] = @ - 1]
  /\ pc' = [pc EXCEPT ![c] = IF batch[c] = 1 THEN "reading" ELSE "handling"]

\* What the device has of a message that is not whole once `c` has written the
\* pieces after its first `from` up to the one numbered `to`.
Heard(c, from, to) ==
  LET now == wire \o [i \in 1..(to - from) |-> <<c, from + i>>]
  IN  IF now = [i \in 1..Pieces |-> <<c, i>>] THEN <<>> ELSE now

\* The loop of `Device.write`: pieces go out until the message is done or the
\* device takes no more, and then the handler parks (`_writable`).
Write(c, to) ==
  /\ HasTurn(c) /\ StillOurs(hold[c]) /\ ~hung /\ to \in sent[c]..Pieces
  /\ wire' = Heard(c, sent[c], to)
  /\ astray' = (astray \/ (to > sent[c] /\ hold[c] # open))
  /\ stale' = (stale \/ (to > sent[c] /\ ~fresh[c]))
  /\ IF to = Pieces
       THEN EndMessage(c)
       ELSE /\ sent' = [sent EXCEPT ![c] = to]
            /\ pc' = [pc EXCEPT ![c] = "parked"]
            /\ UNCHANGED <<batch, hold, line>>
  /\ UNCHANGED <<deviceVars, watcherVars, portVars, fresh, grace, endVars>>

\* DeviceGone, or an OSError from a device that has just gone: dropped.
WriteFails(c) ==
  /\ HasTurn(c) /\ (~StillOurs(hold[c]) \/ hung)
  /\ EndMessage(c)
  /\ UNCHANGED <<deviceVars, watcherVars, portVars, fresh, grace, endVars,
                 wireVars>>

\* The selector finds room on the descriptor.
Room(c) ==
  /\ pc[c] = "parked" /\ pc' = [pc EXCEPT ![c] = "woken"]
  /\ UNCHANGED <<deviceVars, watcherVars, portVars, batch, sent, hold, line,
                 fresh, grace, endVars, wireVars>>

\* `_client`'s finally.
Leave(c) ==
  /\ pc[c] = "reading" /\ sock[c] \in {"eof", "lost"}
  /\ clients' = clients \ {c} /\ behind' = behind \ {c}
  /\ sock' = [sock EXCEPT ![c] = "none"] /\ pc' = [pc EXCEPT ![c] = "out"]
  /\ UNCHANGED <<deviceVars, watcherVars, batch, sent, hold, line, fresh,
                 grace, endVars, wireVars>>

-----------------------------------------------------------------------------
(* The timers.                                                             *)

Sleeping == watcher = "sleeping"

Tick ==
  /\ Quiet /\ (Sleeping => sleep > 0) /\ grace # 0
  /\ Sleeping \/ grace # Off
  /\ sleep' = IF Sleeping THEN sleep - 1 ELSE sleep
  /\ grace' = IF grace # Off THEN grace - 1 ELSE Off
  /\ UNCHANGED <<deviceVars, watcher, kept, backoff, portVars, handlerVars,
                 endVars, wireVars>>

\* `_disconnect_after_grace`, once its sleep is over.
GraceEnds ==
  /\ grace = 0 /\ grace' = Off
  /\ Abort(clients)
  /\ UNCHANGED <<deviceVars, watcherVars, clients, behind, handlerVars, endVars, wireVars>>

-----------------------------------------------------------------------------
(* The two ways the watcher is ended.                                      *)

\* Mutant of StopWatching: the watcher is waited for and not cancelled.
StopWatchingPolitely == kept' = FALSE /\ UNCHANGED watcher

\* `_stop_watching` up to its await: only the first caller has a watcher to
\* wait for.
StopWatching == kept' = FALSE /\ watcher' = "cancelled"

\* `released()` is entered; the block runs once the device is closed.
Release ==
  /\ handover = "no"
  /\ IF kept THEN StopWatching /\ handover' = "stopping"
             ELSE handover' = "block" /\ UNCHANGED <<kept, watcher>>
  /\ UNCHANGED <<deviceVars, backoff, sleep, portVars, handlerVars, grace,
                 closing, wireVars>>

\* Mutant of Released: the watcher is cancelled and not waited for.
ReleasedAtOnce ==
  /\ handover = "stopping" /\ handover' = "block"
  /\ UNCHANGED <<deviceVars, watcherVars, portVars, handlerVars, grace,
                 closing, wireVars>>

Released ==
  /\ handover = "stopping" /\ watcher = "none" /\ handover' = "block"
  /\ UNCHANGED <<deviceVars, watcherVars, portVars, handlerVars, grace,
                 closing, wireVars>>

\* The block is over, and it took more than a turn of the loop.
TakeBack ==
  /\ handover = "block" /\ handover' = "no" /\ Quiet
  /\ IF Closed
       THEN UNCHANGED watcherVars
       ELSE /\ watcher' = "starting" /\ kept' = TRUE
            /\ backoff' = FirstBackoff /\ sleep' = 0
  /\ UNCHANGED <<deviceVars, portVars, handlerVars, grace, closing, wireVars>>

\* `run` is cancelled: asyncio's `serve_forever` closes the server and waits
\* for every connection before it lets `run` reach its finally.
RunCancelled ==
  /\ closing = "no" /\ closing' = "draining"
  /\ UNCHANGED <<deviceVars, watcherVars, portVars, handlerVars, grace,
                 handover, wireVars>>

\* `close()` up to the wait on the server.
Close ==
  /\ \/ closing = "no"
     \/ closing = "draining" /\ \A c \in Clients : ~Attached(c)
  /\ closing' = "waiting" /\ Abort(clients)
  /\ UNCHANGED <<deviceVars, watcherVars, clients, behind, handlerVars,
                 grace, handover, wireVars>>

\* The server is closed; then the watcher is.
ServerClosed ==
  /\ closing = "waiting" /\ \A c \in Clients : ~Attached(c)
  /\ IF kept THEN StopWatching /\ closing' = "stopping" /\ UNCHANGED grace
             ELSE closing' = "closed" /\ StopGrace /\ UNCHANGED <<kept, watcher>>
  /\ UNCHANGED <<deviceVars, backoff, sleep, portVars, handlerVars, handover, wireVars>>

CloseReturns ==
  /\ closing = "stopping" /\ watcher = "none"
  /\ closing' = "closed" /\ StopGrace
  /\ UNCHANGED <<deviceVars, watcherVars, portVars, handlerVars, handover, wireVars>>

-----------------------------------------------------------------------------
Cable    == Plug \/ Unplug
Watching == \/ \E d \in Devices : Open(d)
            \/ OpenFails \/ SessionEnds \/ WatcherEnds
Speaking == \E cut \in SUBSET {c \in clients : sock[c] # "lost"} : FanOut(cut)
Peer(c)  == \/ Accept(c)
            \/ \E how \in {"eof", "lost"} : HangUp(c, how)
            \/ \E n \in 1..MaxBatch : Read(c, n)
            \/ Room(c)
Handler(c) == \/ Begin(c) \/ ToDevice(c) \/ WriteFails(c)
              \/ \E to \in 0..Pieces : Write(c, to)
Ending == Released \/ Close \/ ServerClosed \/ CloseReturns
Timers == Tick \/ GraceEnds

Next == \/ Cable \/ Watching \/ Speaking \/ Timers
        \/ \E c \in Clients : Peer(c) \/ Handler(c) \/ Leave(c)
        \/ Release \/ TakeBack \/ RunCancelled \/ Ending

Spec == Init /\ [][Next]_vars

(* The loop runs every callback that is ready; timers fire.  The cable, the *)
(* peers, the selector and the callers of `released` and `close` owe        *)
(* nothing.  A connection that is lost has only so much left to read, so    *)
(* its handler leaves though it may read on before it does; and a timer is  *)
(* due however busy the loop is, for every turn gives each callback one go. *)
Fairness ==
  /\ WF_vars(Watching) /\ SF_vars(Tick) /\ WF_vars(GraceEnds)
  /\ \A c \in Clients : WF_vars(Handler(c)) /\ SF_vars(Leave(c))
  /\ WF_vars(Released) /\ WF_vars(ServerClosed) /\ WF_vars(CloseReturns)
  /\ WF_vars(closing = "draining" /\ Close)

FairSpec == Spec /\ Fairness

-----------------------------------------------------------------------------
(* Properties.                                                             *)

\* Every variable stays in its type.
TypeOK ==
  /\ plugged \in BOOLEAN /\ hung \in BOOLEAN /\ spoke \in BOOLEAN
  /\ open \in Devices \cup {None}
  /\ watcher \in WatcherAt /\ kept \in BOOLEAN
  /\ backoff \in FirstBackoff..MaxBackoff /\ sleep \in 0..MaxBackoff
  /\ clients \subseteq Clients /\ behind \subseteq Clients
  /\ sock \in [Clients -> SockAt] /\ pc \in [Clients -> HandlerAt]
  /\ batch \in [Clients -> 0..MaxBatch] /\ sent \in [Clients -> 0..Pieces]
  /\ hold \in [Clients -> Devices \cup {None}]
  /\ line \in [Devices -> Seq(Clients)]
  /\ grace \in Off..GraceTicks
  /\ handover \in HandoverAt /\ closing \in ClosingAt
  /\ wire \in Seq(Clients \X (1..Pieces))
  /\ fresh \in [Clients -> BOOLEAN] /\ astray \in BOOLEAN /\ stale \in BOOLEAN

\* Two clients never interleave a command: what the open device has taken
\* since a message last ended is the start of one client's message
\* (station.py:237, Device.write under its lock).
WholeMessages ==
  wire = <<>> \/ \E c \in Clients :
    Len(wire) < Pieces /\ wire = [i \in 1..Len(wire) |-> <<c, i>>]

\* No piece of a message is ever written through a Device that has let its
\* number go, however the write came to be woken (station.py:304, let_go).
NothingAstray == ~astray

\* A message is honoured in the session it was read in or never: nothing a
\* client sent before or during an outage reaches the device that comes back
\* (station.py:33).
NothingStale == ~stale

\* No write is left parked on a descriptor that has been closed, where no
\* selector would ever wake it (station.py:299, let_go; station.py:330).
NothingParkedOnGone ==
  \A c \in Clients : pc[c] = "parked" => hold[c] = open

\* While the device is away and the app is up, every connected client is
\* either on its way out already or under a grace that is running; and a
\* grace never runs under an open device (station.py:48 and 599).
OutageHasADeadline ==
  /\ open = None /\ closing # "closed" /\ (\E c \in clients : Attached(c))
       => grace # Off
  /\ grace # Off => open = None

\* For the length of a handover's block the mirror has the device closed and
\* no watcher that could open it (station.py:451, released), but for the one
\* entered while `close` is itself waiting for the watcher, which takes
\* `_watcher` before it waits and so leaves a second caller nothing to wait for.
ReleasedMeansClosed ==
  handover = "block" /\ closing # "stopping" => open = None /\ watcher = "none"

\* Once `close` has been asked for nothing that ends later, a handover least
\* of all, starts the watching again (station.py:465 and 486).
ClosedStaysClosed == [][Closed /\ watcher = "none" => watcher' = "none"]_vars

\* A client that is cut off, aborted or gone is given no more, and what is in
\* `_clients` is what has a handler (station.py:420, `clients`).
CountsItsHandlers ==
  /\ clients \cap behind = {}
  /\ clients \cup behind = {c \in Clients : pc[c] \notin {"out", "arriving"}}

\* An outage that lasts disconnects every client there was
\* (control ADR-0066; station.py:48).
OutageTakesItsClients ==
  \A c \in Clients :
    (open = None /\ c \in clients) ~> (open # None \/ c \notin clients)

\* The watcher outlives every outage: a device that is back for good is open
\* again and again for as long as nothing takes the watcher away
\* (station.py:43).
ComesBack ==
  <>[](plugged /\ handover = "no" /\ closing = "no") => <>[](open # None)

\* `close` ends once its clients' connections have, though a handler is still
\* parked on the device (tests/dccex_usb/test_station.py:898).
CloseEnds ==
  (closing = "waiting" /\ \A c \in Clients : ~Attached(c)) ~> closing = "closed"

-----------------------------------------------------------------------------
(* What the source says and a run refutes.                                 *)

\* "Aborted, and before waiting on the server" (station.py:495): `run` waits
\* on it first, inside `serve_forever`.
RunEnds == closing = "draining" ~> closing = "closed"
=============================================================================
