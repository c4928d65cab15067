------------------------------- MODULE Supply -------------------------------
(***************************************************************************)
(* The supply as the translator says it (src/src/dccex/translator.py):     *)
(* what it reads of each district's power out of the station's lines       *)
(* (_heard, _diagnosed), the two rows it publishes, the record of each     *)
(* district it hands the script, and the power lines it journals.          *)
(*                                                                         *)
(* A step is what runs between two awaits.  A command reaches the station  *)
(* at once, and what the station says is on its way until it is heard.     *)
(* The lock, the build and a turnout's position, which decide nothing      *)
(* here, are left out, a district's mode and limit are one setting, and    *)
(* the script's handlers of the power send what the app would have sent.   *)
(***************************************************************************)
EXTENDS Naturals, SequencesExt

CONSTANTS
  Districts,
  Settings,      \* what the station may answer of modes and limits
  None,
  MaxInFlight,   \* bound: lines on their way when a broadcast begins
  MaxTroubles    \* bound: the steps of the world outside

ASSUME SupplyAssumption ==
  /\ Districts # {} /\ IsFiniteSet(Districts) /\ Settings # {}
  /\ {MaxInFlight, MaxTroubles} \subseteq Nat
  /\ None \notin Settings \cup Districts \cup BOOLEAN

VARIABLES
  link,       \* `run` and its session
  main,       \* `_driving`: at the drain, or standing the railroad down
  script,     \* none, the one the process came up with, or a later first one
  fold,       \* what the station is known to have said
  row,        \* `device/link`'s word, `device/track`'s, and its reason
  reported,   \* `_reported`, the districts of it
  handed,     \* what the script's handlers were last handed of each
  kept,       \* `_kept_power`
  full,       \* the journal cannot be written
  written,    \* history: the last power line of each district the journal
              \* has after its last line about the link or a restart
  toApp,      \* what the station has said and nobody has read
  power,      \* the station: each district's power
  setting,    \* and setting
  marked,     \* whether the stash is set
  troubles    \* what the world outside may still do

saidVars    == <<row, reported, handed>>
journalVars == <<kept, full, written>>
stationVars == <<power, setting, marked>>
vars == <<link, main, script, fold, saidVars, journalVars, toApp, stationVars, troubles>>

-----------------------------------------------------------------------------
(* What the station says.                                                  *)

\* A `<p...>` line, of one district or, where d is None, of all.
PowerLine(d, on) == [kind |-> "power", of |-> d, says |-> on]
Line(kind, d) == [kind |-> kind, of |-> d, says |-> None]
SettingLine(s) == [kind |-> "setting", of |-> None, says |-> s]
EmptyStash == Line("empty", None)

\* The diagnostics that decide: `restore` is a station trying again.
Kinds == {"alert", "trip", "normal"}

\* The digit is 1 for a district that is on and nothing else.
Digits(p) ==
  LET inOrder == SetToSeq(Districts)
  IN  [i \in DOMAIN inOrder |-> PowerLine(inOrder[i], p[inOrder[i]] = "on")]

\* `broadcastPower`: a line of each, and one of all where they are alike.
Broadcast(p) ==
  Digits(p) \o (IF \A d \in Districts : p[d] = "on" THEN <<PowerLine(None, TRUE)>>
                ELSE IF \A d \in Districts : p[d] # "on" THEN <<PowerLine(None, FALSE)>>
                ELSE <<>>)

-----------------------------------------------------------------------------
(* What the translator makes of it.                                        *)

\* `_forget` leaves nothing heard.
Nothing ==
  [heard |-> FALSE, tracks |-> [d \in Districts |-> None], every |-> None,
   tripped |-> {}, alerted |-> {}, setting |-> None]

\* Mutant of Powers: the digit of a district ends no trip.
PowersOnly(f, d, on) ==
  [f EXCEPT !.tracks = [e \in Districts |-> IF e = d THEN on ELSE f.tracks[e]]]

\* A `<p...>` line of one district: on ends its trip and its alert.
Powers(f, d, on) ==
  [f EXCEPT !.tracks = [e \in Districts |-> IF e = d THEN on ELSE f.tracks[e]],
            !.tripped = IF on THEN @ \ {d} ELSE @,
            !.alerted = IF on THEN @ \ {d} ELSE @]

\* And of all, which says the same of each that has been named.
PowersAll(f, on) ==
  [f EXCEPT !.every = on,
            !.tracks = [d \in Districts |-> IF f.tracks[d] = None THEN None ELSE on],
            !.tripped = IF on THEN {} ELSE @, !.alerted = IF on THEN {} ELSE @]

\* `_diagnosed`.
Diagnosed(f, kind, d) ==
  CASE kind = "trip"   -> [f EXCEPT !.tripped = @ \cup {d}, !.alerted = @ \ {d}]
    [] kind = "normal" -> [f EXCEPT !.tripped = @ \ {d}, !.alerted = @ \ {d}]
    [] kind = "alert"  -> [f EXCEPT !.alerted = IF d \in f.tripped THEN @ ELSE @ \cup {d}]
    [] OTHER           -> f

\* What `_heard` makes of one line: any of them is the station answering.
Folded(f, line) ==
  LET told == CASE line.kind = "power" /\ line.of # None -> Powers(f, line.of, line.says)
                [] line.kind = "power" /\ line.of = None -> PowersAll(f, line.says)
                [] line.kind = "setting" -> [f EXCEPT !.setting = line.says]
                [] OTHER -> Diagnosed(f, line.kind, line.of)
  IN  [told EXCEPT !.heard = TRUE]

Named(f) == {d \in Districts : f.tracks[d] # None} \cup f.tripped \cup f.alerted

\* `_observed`.
Powered(f) ==
  f.heard /\ IF Named(f) = {} THEN f.every = TRUE
             ELSE \E d \in Named(f) \ f.tripped : d \in f.alerted \/ f.tracks[d] = TRUE

\* The two rows.  A link that is down is the supply's reason too.
Rows(up, f) ==
  [up |-> up, on |-> Powered(f), why |-> IF up THEN f.tripped ELSE {}]

\* `_district`.
Record(f, d) ==
  [state   |-> CASE d \in f.tripped -> "tripped"
                 [] d \in f.alerted \ f.tripped -> "alert"
                 [] d \notin f.tripped \cup f.alerted /\ f.tracks[d] # None ->
                      IF f.tracks[d] THEN "on" ELSE "off"
                 [] OTHER -> None,
   setting |-> f.setting]
Unread == [state |-> "unknown", setting |-> None]

\* Mutant of Reports: a trip says nothing of a district no digit has named.
ReportsOfDigits(f, held) ==
  [d \in Districts |-> IF f.tracks[d] # None \/ f.setting # None THEN Record(f, d) ELSE held[d]]

\* `_reports`: every district the station has named is held against its record.
Reports(f, held) ==
  [d \in Districts |->
     IF d \in Named(f) \/ f.setting # None THEN Record(f, d) ELSE held[d]]

\* `_unread`, of every district a record was reported for.
Unreads(held) == [d \in Districts |-> IF held[d] = None THEN None ELSE Unread]

\* What the handlers have, once the records that moved have been handed them.
Hands(was, is, had) ==
  [d \in Districts |-> IF script # "none" /\ is[d] # was[d] THEN is[d] ELSE had[d]]

NoDistrict == [d \in Districts |-> None]

\* Mutant of Forget: the journal's lines are held against those of the link
\* before.
ForgetButKept ==
  /\ fold' = Nothing /\ UNCHANGED kept
  /\ reported' = Unreads(reported) /\ handed' = Hands(NoDistrict, reported', handed)

\* Mutant of Forget: nobody is told.
ForgetUnsaid ==
  fold' = Nothing /\ kept' = NoDistrict /\ reported' = NoDistrict /\ UNCHANGED handed

\* `_forget`.
Forget ==
  /\ fold' = Nothing /\ kept' = NoDistrict
  /\ reported' = Unreads(reported) /\ handed' = Hands(NoDistrict, reported', handed)

-----------------------------------------------------------------------------
(* The link.                                                               *)

Open == link \in {"open", "unpolled"}
\* A task that died of its poll closes no connection: what is sent arrives.
Wired == Open \/ link = "deaf"
Trouble == troubles > 0 /\ link # "ended" /\ troubles' = troubles - 1

\* `_started` marks the station and asks for its settings.
Started(rest) == marked' = TRUE /\ toApp' = Append(rest, SettingLine(setting))

Connects ==
  /\ link = "away" /\ main = "driving" /\ link' = "open"
  /\ Started(<<>>)
  /\ UNCHANGED <<main, script, fold, saidVars, journalVars, power, setting, troubles>>

\* One turn of `_poll`, once the last one is answered.
Polls ==
  /\ link = "open" /\ toApp = <<>>
  /\ toApp' = Digits(power) \o (IF marked THEN <<>> ELSE <<EmptyStash>>)
  /\ UNCHANGED <<link, main, script, fold, saidVars, journalVars, stationVars, troubles>>

\* The power line the journal keeps of `line`, None where it keeps none.
PowerKept(line, f) ==
  IF line.kind = "power" /\ line.of # None
  THEN [on |-> line.says, setting |-> f.setting] ELSE None

\* The journal has something to write: the link's word moves, a restart, a
\* diagnostic, or a power line unlike the last of its district.
WritesALine(line, f, held) ==
  \/ ~row.up \/ line.kind \in {"empty"} \cup Kinds
  \/ PowerKept(line, f) \notin {None} \cup (IF line.of = None THEN {} ELSE {held[line.of]})

Journalled(line, f, held) ==
  LET is == PowerKept(line, f)
      since == IF row.up /\ line.kind # "empty" THEN written ELSE NoDistrict
  IN  IF is = None \/ (line.of # None /\ held[line.of] = is)
      THEN kept' = held /\ written' = since
      ELSE /\ kept' = [held EXCEPT ![line.of] = is]
           /\ written' = [since EXCEPT ![line.of] = is]

\* `_heard`, of a station whose stash is read back empty or not.
Heard ==
  /\ Open /\ toApp # <<>>
  /\ LET line      == Head(toApp)
         restarted == line.kind = "empty"
         f         == Folded(IF restarted THEN Nothing ELSE fold, line)
         held      == IF restarted THEN NoDistrict ELSE kept
         was       == IF restarted THEN Unreads(reported) ELSE reported
         had       == IF restarted THEN Hands(NoDistrict, was, handed) ELSE handed
     IN  /\ full => ~WritesALine(line, f, held)
         /\ fold' = f /\ row' = Rows(TRUE, f)
         /\ reported' = Reports(f, was) /\ handed' = Hands(was, reported', had)
         /\ Journalled(line, f, held) /\ UNCHANGED full
         /\ IF restarted THEN Started(Tail(toApp))
            ELSE toApp' = Tail(toApp) /\ UNCHANGED marked
  /\ UNCHANGED <<link, main, script, power, setting, troubles>>

\* The same, and the journal cannot be written: `_listen` ends on it, and with
\* it the session.  A restart is journalled before anything is made of it, the
\* word before the rows are published and a power line after them.
HeardFails ==
  /\ Open /\ toApp # <<>> /\ full
  /\ LET line == Head(toApp)
         f    == IF line.kind = "empty" THEN fold ELSE Folded(fold, line)
     IN  /\ WritesALine(line, Folded(fold, line), kept)
         /\ row' = IF row.up /\ line.kind # "empty" THEN Rows(TRUE, f) ELSE row
         /\ IF link = "open" THEN link' = "closed" /\ Forget
            ELSE link' = "deaf" /\ fold' = f /\ UNCHANGED <<kept, reported, handed>>
  /\ toApp' = <<>>
  /\ UNCHANGED <<main, script, full, written, stationVars, troubles>>

\* The word goes down, and the journal's line with it.
Lowers(f) ==
  /\ row' = Rows(FALSE, f)
  /\ written' = IF row.up THEN NoDistrict ELSE written

\* `_lower_if_silent`: the polls go unanswered for too long.
Silent ==
  /\ Trouble /\ link = "open" /\ fold.heard /\ toApp = <<>> /\ Forget
  /\ IF full /\ row.up THEN link' = "unpolled" /\ UNCHANGED <<row, written>>
     ELSE Lowers(Nothing) /\ UNCHANGED link
  /\ UNCHANGED <<main, script, full, toApp, stationVars>>

\* The mirror lets the connection go, or the link's task is cancelled: the
\* poll is waited for, which raises where it has died of the journal.
SessionEnds ==
  /\ Open /\ (Trouble \/ (main = "standing" /\ UNCHANGED troubles))
  /\ toApp' = <<>>
  /\ IF link = "open" THEN link' = "closed" /\ Forget
     ELSE link' = "dead" /\ UNCHANGED <<fold, kept, reported, handed>>
  /\ UNCHANGED <<main, script, row, full, written, stationVars>>

\* Mutant of Closed: the rows are left as they are.
ClosedUnsaid ==
  /\ link = "closed" /\ link' = (IF main = "standing" THEN "ended" ELSE "away")
  /\ UNCHANGED <<main, script, fold, saidVars, journalVars, toApp, stationVars, troubles>>

\* `wait_closed` comes back.
Closed ==
  /\ link = "closed"
  /\ IF full /\ row.up THEN link' = "dead" /\ UNCHANGED <<row, written>>
     ELSE /\ link' = (IF main = "standing" THEN "ended" ELSE "away")
          /\ Lowers(Nothing)
  /\ UNCHANGED <<main, script, fold, reported, handed, kept, full, toApp, stationVars, troubles>>

-----------------------------------------------------------------------------
(* The bus, the store, and the end.                                        *)

\* The station switches districts `ds`, and says so.
Switches(ds, p) ==
  /\ power' = [d \in Districts |-> IF d \in ds THEN p ELSE power[d]]
  /\ toApp' = IF Open THEN toApp \o Broadcast(power') ELSE toApp
  /\ UNCHANGED <<setting, marked>>
Room == Len(toApp) <= MaxInFlight

\* Power ON, which takes a script.
CommandsOn ==
  /\ Trouble /\ main = "driving" /\ Wired /\ script # "none" /\ Room /\ Switches(Districts, "on")
  /\ UNCHANGED <<link, main, script, fold, saidVars, journalVars>>

\* And OFF, which ends every trip and alert as the translator has them.
CommandsOff ==
  /\ Trouble /\ main = "driving" /\ Wired /\ Room /\ Switches(Districts, "off")
  /\ fold' = [fold EXCEPT !.tripped = {}, !.alerted = {}]
  /\ UNCHANGED <<link, main, script, saidVars, journalVars>>

\* A first script is loaded, and both rows are said again.
Loads ==
  /\ Trouble /\ main = "driving" /\ script = "none" /\ script' = "late"
  /\ row' = Rows(row.up, fold)
  /\ marked' = (marked \/ Wired)
  /\ toApp' = IF Open THEN Append(toApp, SettingLine(setting)) ELSE toApp
  /\ UNCHANGED <<link, main, fold, reported, handed, journalVars, power, setting>>

\* `shutdown`: the track off, and every record unread.
StandsDown ==
  /\ main = "driving" /\ main' = "standing"
  /\ reported' = Unreads(reported) /\ handed' = Hands(reported, reported', handed)
  /\ IF Wired THEN Switches(Districts, "off") ELSE UNCHANGED <<power, setting, marked, toApp>>
  /\ link' = IF link \in {"away", "dead", "deaf"} THEN "ended" ELSE link
  /\ UNCHANGED <<script, fold, row, journalVars, troubles>>

-----------------------------------------------------------------------------
(* The world outside.                                                      *)

\* Another throttle switches the power, of one district or of all.
Throttle(ds, p) ==
  /\ Trouble /\ Room /\ Switches(ds, p)
  /\ UNCHANGED <<link, main, script, fold, saidVars, journalVars>>

\* The current rises, is too much, or is itself again, and the station says it.
Current(d, kind) ==
  /\ Trouble /\ Room
  /\ \/ kind = "alert" /\ power[d] = "on" /\ power' = [power EXCEPT ![d] = "alert"]
     \/ kind = "trip" /\ power[d] \in {"on", "alert"} /\ power' = [power EXCEPT ![d] = "tripped"]
     \/ kind = "normal" /\ power[d] \in {"alert", "tripped"} /\ power' = [power EXCEPT ![d] = "on"]
  /\ toApp' = IF Open THEN Append(toApp, Line(kind, d)) ELSE toApp
  /\ UNCHANGED <<link, main, script, fold, saidVars, journalVars, setting, marked>>

\* A district is set otherwise, which the station says.
Sets(s) ==
  /\ Trouble /\ Room /\ s # setting /\ setting' = s
  /\ toApp' = IF Open THEN Append(toApp, SettingLine(s)) ELSE toApp
  /\ UNCHANGED <<link, main, script, fold, saidVars, journalVars, power, marked>>

\* It restarts, with everything off and its stash empty.
Reboots ==
  /\ Trouble /\ marked' = FALSE /\ power' = [d \in Districts |-> "off"]
  /\ UNCHANGED <<link, main, script, fold, saidVars, journalVars, toApp, setting>>

DiskFills ==
  /\ Trouble /\ ~full /\ full' = TRUE
  /\ UNCHANGED <<link, main, script, fold, saidVars, kept, written, toApp, stationVars>>

-----------------------------------------------------------------------------
Init ==
  /\ link = "away" /\ main = "driving" /\ script \in {"none", "first"}
  /\ fold = Nothing /\ row = Rows(FALSE, Nothing)
  /\ reported = NoDistrict /\ handed = NoDistrict
  /\ kept = NoDistrict /\ full = FALSE /\ written = NoDistrict
  /\ toApp = <<>> /\ power \in [Districts -> {"off", "on"}]
  /\ setting = CHOOSE s \in Settings : TRUE  \* which, nothing tells apart
  /\ marked \in BOOLEAN /\ troubles = MaxTroubles

World ==
  \/ Silent \/ CommandsOn \/ CommandsOff \/ Loads \/ Reboots \/ DiskFills
  \/ \E p \in {"on", "off"}, ds \in {Districts} \cup {{d} : d \in Districts} : Throttle(ds, p)
  \/ \E d \in Districts, kind \in Kinds : Current(d, kind)
  \/ \E s \in Settings : Sets(s)

Link == Connects \/ Heard \/ HeardFails \/ Closed \/ (main = "standing" /\ SessionEnds)

Next == World \/ Link \/ Polls \/ SessionEnds \/ StandsDown

Spec == Init /\ [][Next]_vars

Fairness == WF_vars(Link) /\ WF_vars(Polls)

FairSpec == Spec /\ Fairness

-----------------------------------------------------------------------------
(* Properties.                                                             *)

Records == [state : {"on", "off", "tripped", "alert", "unknown", None},
            setting : Settings \cup {None}]
Written == [on : BOOLEAN, setting : Settings \cup {None}]

\* What stands for no record and no line is neither.
ASSUME NoneAssumption == None \notin Records \cup Written

Lines ==
  [kind : {"power"}, of : Districts \cup {None}, says : BOOLEAN]
    \cup [kind : {"setting"}, of : {None}, says : Settings]
    \cup [kind : Kinds, of : Districts, says : {None}]
    \cup {EmptyStash}

StationPowers == {"off", "on", "alert", "tripped"}

FoldType ==
  [heard : BOOLEAN, tracks : [Districts -> BOOLEAN \cup {None}], every : BOOLEAN \cup {None},
   tripped : SUBSET Districts, alerted : SUBSET Districts, setting : Settings \cup {None}]

TypeOK ==
  /\ link \in {"away", "open", "unpolled", "closed", "dead", "deaf", "ended"}
  /\ main \in {"driving", "standing"} /\ script \in {"none", "first", "late"}
  /\ full \in BOOLEAN /\ marked \in BOOLEAN
  /\ fold \in FoldType
  /\ row \in [up : BOOLEAN, on : BOOLEAN, why : SUBSET Districts]
  /\ reported \in [Districts -> Records \cup {None}]
  /\ handed \in [Districts -> Records \cup {None}]
  /\ kept \in [Districts -> Written \cup {None}]
  /\ written \in [Districts -> Written \cup {None}]
  /\ toApp \in Seq(Lines)
  /\ power \in [Districts -> StationPowers] /\ setting \in Settings
  /\ troubles \in 0..MaxTroubles

\* The script is handed what the row says (`_reports` holds every district
\* the station named against its record, after whichever message): where the
\* row says there is power the handlers were last handed a district that has
\* it, and they have been handed the trip of every district the row blames.
\* Only where there was a script before the first report (ADR-0024), and not
\* once the task that hears the station has died.
ScriptSeesTheRow ==
  script = "first" /\ main = "driving" /\ link = "open" /\ row.up =>
    /\ row.on /\ Named(fold) # {} =>
         \E d \in Districts : handed[d] # None /\ handed[d].state \in {"on", "alert"}
    /\ \A d \in row.why : handed[d] # None /\ handed[d].state = "tripped"

\* Nothing stands that is no longer read (`_forget`, ADR-0029 d.2): once the
\* station is not answering, or the app has ended, the last record every
\* handler was handed of a district says it is unknown.
UnknownWhenUnread ==
  ~fold.heard \/ link = "ended" => \A d \in Districts : handed[d] \in {None, Unread}

\* The link is what StationLink promises, whatever the power, the script and the
\* disk do beside it: its word goes up with a message that is read, and goes
\* down with a silence or with its session before there is another (`_session`,
\* `_publish_link`).  A disk that takes no more lines is the exception there is
\* to it: the line is written before the word is said, and the task that dies
\* of it leaves the word up.
Session ==
  CASE link = "away" -> "none"
    [] Open -> "open"
    [] link = "closed" -> "closing"
    [] OTHER -> "over"
Said == INSTANCE StationLink WITH
  session <- Session, heard <- fold.heard, up <- row.up, broken <- full
SaysItsLink == Said!LinkSpec

\* The journal's last power line of a district, since its last line about the
\* link, is what the station last said of it: leaving a repeated line out
\* (`_journalled_said`) never leaves out one that says something else, over
\* outages, silences and restarts.
JournalSaysThePower ==
  ~full /\ fold.heard => \A d \in Districts : fold.tracks[d] # None =>
     written[d] # None /\ written[d].on = fold.tracks[d]

Live == {d \in Districts : power[d] \in {"on", "alert"}}

\* Once the world outside is done, a railroad that is driven reads as it is:
\* the link up, no power where no district is live, and power where one is
\* and its digit says so.  An alert is ended by `NORMAL`, a 1 or this app's
\* own OFF and by nothing else, so one whose district another throttle
\* switched off still reads as power; `fold.alerted` is that exception.
CatchesTheTruth ==
  <>[](main = "driving" /\ link \notin {"unpolled", "dead", "deaf"} /\ ~full =>
         /\ row.up
         /\ row.on => Live \cup fold.alerted # {}
         /\ (\E d \in Districts : power[d] = "on") => row.on)

-----------------------------------------------------------------------------
(* The inductive invariant.                                                *)

\* What is said of all districts says again what each of them was last said to
\* be: in line before it, or folded already.
Before(s, i, d) == {j \in 1..(i - 1) : s[j].kind = "power" /\ s[j].of \in {d, None}}
AgreesAt(s, i, d, f) ==
  \/ /\ f.tracks[d] \in {None, s[i].says}
     /\ \A k \in Before(s, i, d) : s[k].says = s[i].says
  \/ \E j \in Before(s, i, d) :
       s[j].of = d /\ \A k \in Before(s, i, d) : k >= j => s[k].says = s[i].says
Agrees(s, f) ==
  \A i \in DOMAIN s : s[i].kind = "power" /\ s[i].of = None =>
    \A d \in Districts : AgreesAt(s, i, d, f)

\* The handlers were last handed what was last reported, or nothing yet.
HandsFollow ==
  /\ \A d \in Districts : handed[d] \in {None, reported[d]}
  /\ script = "none" => handed = NoDistrict
  /\ script = "first" => handed = reported

\* What is not heard is not known.
UnheardIsUnread ==
  /\ ~fold.heard => fold = Nothing /\ kept = NoDistrict
  /\ link \in {"away", "closed"} => ~fold.heard
  /\ ~fold.heard \/ link \in {"closed", "ended"} =>
       \A d \in Districts : reported[d] \in {None, Unread}

\* Where the row is down, or up on a journal that takes no more.
OutageIsSaid == link \in {"away", "dead", "deaf"} => ~row.up \/ full
RowFollowsLink ==
  /\ link = "away" => ~row.up
  /\ link = "unpolled" => full
  /\ fold.heard => row.up \/ full
  /\ OutageIsSaid

\* What the row says was reported.
RowIsReported ==
  link = "open" /\ row.up /\ script = "first" /\ main = "driving" =>
    /\ row.on /\ Named(fold) # {} =>
         \E d \in Districts : reported[d] # None /\ reported[d].state \in {"on", "alert"}
    /\ \A d \in row.why : reported[d] # None /\ reported[d].state = "tripped"

\* What a repeated line would say is what the journal says.
KeptIsWritten ==
  ~full => \A d \in Districts : kept[d] # None => written[d] = kept[d]

IInv ==
  /\ TypeOK /\ HandsFollow /\ UnheardIsUnread /\ RowFollowsLink /\ RowIsReported
  /\ Agrees(toApp, fold) /\ KeptIsWritten /\ JournalSaysThePower
=============================================================================
