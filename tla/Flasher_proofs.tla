--------------------------- MODULE Flasher_proofs ---------------------------
(***************************************************************************)
(* That a flash has the device to itself, for every number of gestures:    *)
(* IInv (Flasher) is inductive, and the safety properties follow from it.  *)
(* And that a page (Page) does nothing to a flash but ask for it and go    *)
(* away, so that all of it holds beside one.                               *)
(***************************************************************************)
EXTENDS Page, TLAPS

LEMMA InitInv == Init => IInv
<1>. SUFFICES ASSUME Init PROVE IInv
  OBVIOUS
<1>1. TypeOK
  BY DEF Init, OwnerInit, TypeOK, StageAt, Doing, ToolAt, AppAt
<1>2. FlagIsTheFlash /\ OneBorrows
  BY FlasherAssumption
  DEF FlasherAssumption, Init, OwnerInit, FlagIsTheFlash, OneBorrows
<1>3. Watched
  BY DEF Init, OwnerInit, Watched
<1>4. Outlived
  BY DEF Init, OwnerInit, Outlived
<1>. QED BY <1>1, <1>2, <1>3, <1>4 DEF IInv

\* Every step of the gesture and of the flash leaves the process alone.
LEMMA GestureInv ==
  ASSUME IInv, NEW g \in Gestures, Gesture(g) PROVE IInv'
<1>1. ASSUME NEW latest \in BOOLEAN, Wanted(g, latest) PROVE IInv'
  BY <1>1, FlasherAssumption
  DEF Wanted, MayStart, ownerVars, appVars, IInv, TypeOK, FlagIsTheFlash,
      OneBorrows, Watched, Outlived, StageAt
<1>2. CASE GoesAway(g)
  BY <1>2
  DEF GoesAway, ownerVars, flashVars, appVars, IInv, TypeOK, FlagIsTheFlash,
      OneBorrows, Watched, Outlived
<1>. QED BY <1>1, <1>2 DEF Gesture

\* Who has a task is the only one who has.
LEMMA OneFlash ==
  ASSUME FlagIsTheFlash, FlasherAssumption, NEW g \in Gestures, stage[g] # "none"
  PROVE  /\ flashing = g /\ flashing # None
         /\ \A h \in Gestures \ {g} : stage[h] = "none"
  BY DEF FlagIsTheFlash, FlasherAssumption

\* A flash that is in flight is in flight in a process that has not got past
\* waiting for it, and then there is a watcher unless this flash took it.
LEMMA StillOpen ==
  ASSUME IInv, NEW g \in Gestures, stage[g] # "none"
  PROVE  /\ ~over
         /\ stage[g] \notin {"asking", "writing"} => kept /\ asking = {} /\ using = {}
<1>1. flashing # None /\ \A h \in Gestures \ {g} : stage[h] = "none"
  BY OneFlash, FlasherAssumption DEF IInv
<1>2. ~over
  BY <1>1 DEF IInv, Outlived
<1>3. ASSUME stage[g] \notin {"asking", "writing"} PROVE asking = {} /\ using = {}
  BY <1>1, <1>3 DEF IInv, OneBorrows, TypeOK
<1>. QED BY <1>2, <1>3 DEF IInv, Watched

\* A flash that is over leaves the flag down, and nothing of it behind.
LEMMA OverInv ==
  ASSUME IInv, NEW g \in Gestures, stage[g] # "none", TaskOver(g)
  PROVE  /\ FlagIsTheFlash' /\ flashing' = None /\ doing' = "none"
         /\ stage' = [stage EXCEPT ![g] = "none"]
         /\ stage' \in [Gestures -> StageAt]
         /\ caller' \in [Gestures -> {"idle", "waiting"}]
<1>1. \A h \in Gestures \ {g} : stage[h] = "none"
  BY OneFlash, FlasherAssumption DEF IInv
<1>. QED
  BY <1>1, FlasherAssumption
  DEF TaskOver, FlagFalls, IInv, TypeOK, FlagIsTheFlash, StageAt

LEMMA FetchInv ==
  ASSUME IInv, NEW g \in Gestures,
         Started(g) \/ ReleaseRead(g) \/ Trickle(g) \/ FallsSilent(g)
  PROVE  IInv'
<1>. USE FlasherAssumption
     DEF Fetching, ownerVars, appVars, IInv, TypeOK, FlagIsTheFlash,
         OneBorrows, Watched, Outlived, StageAt, Doing
<1>1. CASE Started(g)      BY <1>1 DEF Started
<1>2. CASE ReleaseRead(g)  BY <1>2 DEF ReleaseRead
<1>3. CASE Trickle(g)      BY <1>3 DEF Trickle
<1>4. CASE FallsSilent(g)  BY <1>4 DEF FallsSilent
<1>. QED BY <1>1, <1>2, <1>3, <1>4

LEMMA RefusedInv ==
  ASSUME IInv, NEW g \in Gestures, Refused(g) PROVE IInv'
<1>1. stage[g] \in {"release", "asset"} /\ TaskOver(g)
  BY DEF Refused, Fetching
<1>2. /\ FlagIsTheFlash' /\ flashing' = None /\ doing' = "none"
      /\ stage' = [stage EXCEPT ![g] = "none"] /\ stage' \in [Gestures -> StageAt]
      /\ caller' \in [Gestures -> {"idle", "waiting"}]
  BY <1>1, OverInv
<1>3. TypeOK'
  BY <1>2 DEF Refused, ownerVars, appVars, IInv, TypeOK, Doing
<1>. QED
  BY <1>1, <1>2, <1>3
  DEF Refused, ownerVars, appVars, IInv, TypeOK, OneBorrows, Watched, Outlived

\* The device is asked for: there is a watcher to wait for, so nothing is
\* written before it has let the device go.
LEMMA CheckedInv ==
  ASSUME IInv, NEW g \in Gestures, Checked(g) PROVE IInv'
<1>1. stage[g] = "asset" /\ ~over /\ kept /\ asking = {} /\ using = {}
  BY StillOpen DEF Checked
<1>2. flashing = g /\ g # None /\ \A h \in Gestures \ {g} : stage[h] = "none"
  BY <1>1, OneFlash, FlasherAssumption DEF IInv
<1>3. /\ kept' = FALSE /\ asking' = {g} /\ using' = {} /\ has' = has /\ over' = over
      /\ stage' = [stage EXCEPT ![g] = "asking"] /\ doing' = "checking"
      /\ UNCHANGED <<tool, flashing, silent, caller, appVars>>
  BY <1>1, FlasherAssumption DEF Checked, Ask
<1>4. TypeOK'
  BY <1>1, <1>3 DEF IInv, TypeOK, StageAt, Doing, appVars
<1>5. FlagIsTheFlash' /\ OneBorrows'
  BY <1>1, <1>2, <1>3 DEF IInv, TypeOK, FlagIsTheFlash, OneBorrows
<1>6. Watched' /\ Outlived'
  BY <1>1, <1>3 DEF IInv, TypeOK, Watched, Outlived, appVars
<1>. QED BY <1>4, <1>5, <1>6 DEF IInv

LEMMA GivenInv ==
  ASSUME IInv, NEW g \in Gestures, Given(g) PROVE IInv'
<1>1. /\ stage[g] = "asking" /\ ~has /\ has' = has /\ kept' = kept /\ over' = over
      /\ g \in asking /\ asking' = asking \ {g} /\ using' = using \cup {g}
      /\ stage' = [stage EXCEPT ![g] = "writing"] /\ doing' = "writing"
      /\ tool' = [tool EXCEPT ![g] = "running"]
      /\ UNCHANGED <<flashing, silent, caller, appVars>>
  BY DEF Given, Give, IInv, TypeOK
<1>2. flashing = g /\ g # None /\ \A h \in Gestures \ {g} : stage[h] = "none"
  BY <1>1, OneFlash, FlasherAssumption DEF IInv
<1>3. TypeOK'
  <2>1. stage' \in [Gestures -> StageAt] /\ tool' \in [Gestures -> ToolAt]
    BY <1>1 DEF IInv, TypeOK, StageAt, ToolAt
  <2>2. /\ has' \in BOOLEAN /\ kept' \in BOOLEAN /\ over' \in BOOLEAN
        /\ asking' \subseteq Gestures /\ using' \subseteq Gestures
        /\ doing' \in Doing
    BY <1>1 DEF IInv, TypeOK, Doing
  <2>3. /\ flashing' \in Gestures \cup {None} /\ silent' \in BOOLEAN
        /\ caller' \in [Gestures -> {"idle", "waiting"}]
        /\ app' \in AppAt /\ signalled' \in BOOLEAN
    BY <1>1 DEF IInv, TypeOK, appVars
  <2>. QED BY <2>1, <2>2, <2>3 DEF TypeOK
<1>4. FlagIsTheFlash' /\ OneBorrows'
  BY <1>1, <1>2 DEF IInv, TypeOK, FlagIsTheFlash, OneBorrows
<1>5. Watched' /\ Outlived'
  BY <1>1, <1>2 DEF IInv, TypeOK, Watched, Outlived, appVars
<1>. QED BY <1>3, <1>4, <1>5 DEF IInv

LEMMA ToolInv ==
  ASSUME IInv, NEW g \in Gestures, Saw(g) \/ ToolExits(g) \/ ToolTimesOut(g)
  PROVE  IInv'
<1>. USE FlasherAssumption
     DEF ownerVars, appVars, IInv, TypeOK, FlagIsTheFlash,
         OneBorrows, Watched, Outlived, StageAt, Doing, ToolAt
<1>1. CASE Saw(g)           BY <1>1 DEF Saw
<1>2. CASE ToolExits(g)     BY <1>2 DEF ToolExits
<1>3. CASE ToolTimesOut(g)  BY <1>3 DEF ToolTimesOut
<1>. QED BY <1>1, <1>2, <1>3

\* However the block ends, the watching starts again.
LEMMA BackInv ==
  ASSUME IInv, NEW g \in Gestures, stage[g] = "writing", Back(g), TaskOver(g),
         tool' = [tool EXCEPT ![g] = "none"], UNCHANGED <<silent, appVars>>
  PROVE  IInv'
<1>1. /\ FlagIsTheFlash' /\ flashing' = None /\ doing' = "none"
      /\ stage' = [stage EXCEPT ![g] = "none"] /\ stage' \in [Gestures -> StageAt]
      /\ caller' \in [Gestures -> {"idle", "waiting"}]
  BY OverInv
<1>2. \A h \in Gestures \ {g} : stage[h] = "none"
  BY OneFlash, FlasherAssumption DEF IInv
<1>3. /\ using = {g} /\ asking = {} /\ using' = {} /\ asking' = {}
      /\ ~over /\ over' = over /\ kept' = TRUE /\ has' = has
  BY <1>2, StillOpen DEF Back, IInv, TypeOK, OneBorrows
<1>4. TypeOK'
  <2>1. tool' \in [Gestures -> ToolAt]
    BY DEF IInv, TypeOK, ToolAt
  <2>2. flashing' \in Gestures \cup {None} /\ doing' \in Doing
    BY <1>1 DEF Doing
  <2>3. /\ has' \in BOOLEAN /\ kept' \in BOOLEAN /\ over' \in BOOLEAN
        /\ asking' \subseteq Gestures /\ using' \subseteq Gestures
    BY <1>3 DEF IInv, TypeOK
  <2>4. silent' \in BOOLEAN /\ app' \in AppAt /\ signalled' \in BOOLEAN
    BY DEF IInv, TypeOK, appVars
  <2>. QED BY <1>1, <2>1, <2>2, <2>3, <2>4 DEF TypeOK
<1>5. OneBorrows'
  BY <1>1, <1>2, <1>3 DEF IInv, TypeOK, OneBorrows
<1>. QED BY <1>1, <1>3, <1>4, <1>5 DEF IInv, Watched, Outlived, appVars

LEMMA FlashInv ==
  ASSUME IInv, NEW g \in Gestures, Flash(g) PROVE IInv'
<1>1. CASE Finished(g)
  BY <1>1, BackInv DEF Finished
<1>2. CASE NotRun(g)
  BY <1>2, BackInv DEF NotRun
<1>. QED
  BY <1>1, <1>2, FetchInv, RefusedInv, CheckedInv, GivenInv, ToolInv DEF Flash

LEMMA MirroringInv ==
  ASSUME IInv, Mirroring PROVE IInv'
<1>. USE DEF flashVars, appVars, IInv, TypeOK, FlagIsTheFlash,
             OneBorrows, Watched, Outlived
<1>1. CASE Take        BY <1>1 DEF Take, Mirroring
<1>2. CASE Lose        BY <1>2 DEF Lose, Mirroring
<1>3. CASE End         BY <1>3 DEF End, Mirroring, Take, Lose, EndWatching
<1>4. CASE EndWatching BY <1>4 DEF End, Mirroring, Take, Lose, EndWatching
<1>. QED BY <1>1, <1>2, <1>3, <1>4 DEF Mirroring

\* `settled()` comes back only when the flag is down.
LEMMA EndingInv ==
  ASSUME IInv, Ending PROVE IInv'
<1>. USE DEF ownerVars, flashVars, IInv, TypeOK, FlagIsTheFlash,
             OneBorrows, Watched, Outlived, AppAt
<1>1. CASE Stop       BY <1>1 DEF Stop
<1>2. CASE FaceClosed BY <1>2 DEF FaceClosed
<1>3. CASE Settled
  <2>1. flashing = None
    BY <1>3 DEF Settled
  <2>. QED BY <1>3, <2>1 DEF Settled
<1>4. CASE Exit       BY <1>4 DEF Exit
<1>. QED BY <1>1, <1>2, <1>3, <1>4 DEF Ending

THEOREM Invariance == Spec => []IInv
<1>1. IInv /\ [Next]_vars => IInv'
  <2>. SUFFICES ASSUME IInv, [Next]_vars PROVE IInv'
    OBVIOUS
  <2>1. CASE UNCHANGED vars
    BY <2>1 DEF vars, ownerVars, flashVars, appVars, IInv, TypeOK,
      FlagIsTheFlash, OneBorrows, Watched, Outlived
  <2>. QED
    BY <2>1, MirroringInv, EndingInv, GestureInv, FlashInv DEF Next
<1>. QED BY InitInv, <1>1, PTL DEF Spec

\* Every variable stays in its type, for every number of gestures.
THEOREM TypeCorrect == Spec => []TypeOK
<1>1. IInv => TypeOK  BY DEF IInv
<1>. QED BY Invariance, <1>1, PTL

\* While esptool runs, the mirror is off the port and stays off it, and no
\* other esptool runs: however many ask, and whoever of them goes away.
THEOREM FlashesAlone == Spec => []ToolIsAlone
<1>1. IInv => ToolIsAlone
  <2>. SUFFICES ASSUME IInv, NEW g \in Gestures, tool[g] = "running"
       PROVE  ~has /\ ~kept /\ \A h \in Gestures \ {g} : tool[h] # "running"
    BY DEF ToolIsAlone
  <2>1. stage[g] = "writing" /\ g \in using
    BY DEF IInv, OneBorrows
  <2>2. \A h \in Gestures \ {g} : stage[h] = "none"
    BY <2>1, OneFlash, FlasherAssumption DEF IInv
  <2>. QED BY <2>1, <2>2 DEF IInv, OneBorrows, Watched
<1>. QED BY Invariance, <1>1, PTL

\* The flag that refuses a second gesture is up exactly while a flash is in
\* flight, and no reading of one outlives it.
THEOREM FlagIsTrue == Spec => []FlagIsTheFlash
<1>1. IInv => FlagIsTheFlash  BY DEF IInv
<1>. QED BY Invariance, <1>1, PTL

\* The process that is ending has waited out the flash and its tool.
THEOREM WaitedOut == Spec => []SettledFirst
<1>1. IInv => SettledFirst
  BY FlasherAssumption DEF IInv, SettledFirst, Outlived, FlagIsTheFlash, OneBorrows
<1>. QED BY Invariance, <1>1, PTL

\* However a flash ends, the mirror is opening its device again after it.
THEOREM GivenBack == Spec => []DeviceIsGivenBack
<1>1. IInv => DeviceIsGivenBack
  <2>. SUFFICES ASSUME IInv, flashing = None PROVE kept \/ over
    BY DEF DeviceIsGivenBack
  <2>1. \A g \in Gestures : stage[g] = "none"
    BY FlasherAssumption DEF FlasherAssumption, IInv, FlagIsTheFlash
  <2>2. asking = {} /\ using = {}
    BY <2>1 DEF IInv, TypeOK, OneBorrows
  <2>. QED BY <2>2 DEF IInv, Watched
<1>. QED BY Invariance, <1>1, PTL

-----------------------------------------------------------------------------
(* Beside a page.                                                          *)

\* What a page does is its own, or what somebody who asks for a flash does.
LEMMA PageStep ==
  ASSUME PageNext, PageAssumption PROVE [Next]_vars
<1>1. CASE Box
  BY <1>1 DEF Box, Types, HearsReply, Waited
<1>2. CASE Wire
  BY <1>2 DEF Wire, Opens, Ends, Gone, Dials
<1>3. CASE Press
  <2>1. CASE Confirmed    BY <2>1 DEF Confirmed
  <2>2. CASE PostArrives
    BY <2>2, PageAssumption DEF PostArrives, PageAssumption, Next, Gesture
  <2>3. CASE PostFails    BY <2>3 DEF PostFails
  <2>4. CASE PostLost
    BY <2>4, PageAssumption DEF PostLost, PageAssumption, Next, Gesture
  <2>5. CASE PostOver     BY <2>5 DEF PostOver
  <2>. QED BY <1>3, <2>1, <2>2, <2>3, <2>4, <2>5 DEF Press
<1>4. CASE Follow
  BY <1>4 DEF Follow, Tick, FaceSays, Told
<1>5. CASE Loads
  BY <1>5, PageAssumption DEF Loads, PageAssumption, Next, Gesture
<1>6. CASE Elsewhere
  BY <1>6 DEF Elsewhere, Next
<1>. QED BY <1>1, <1>2, <1>3, <1>4, <1>5, <1>6 DEF PageNext

\* A page beside the flasher is one more who asks for a flash and goes away:
\* every behaviour with one is a behaviour of the flasher's.
THEOREM PageIsACaller == PageSpec => Spec
<1>1. PageInit => Init
  BY DEF PageInit
<1>2. [PageNext]_allVars => [Next]_vars
  BY PageStep, PageAssumption DEF allVars
<1>. QED BY <1>1, <1>2, PTL DEF PageSpec, Spec

-----------------------------------------------------------------------------
(* The flasher and the mirror's promise.                                   *)

\* Every step of a flash is one the mirror's promise has: it asks, is given the
\* device or gives it back, or does nothing to it.
LEMMA FlashIsABorrower ==
  ASSUME NEW g \in Gestures, Flash(g)
  PROVE  Ask(g) \/ Give(g) \/ Back(g) \/ UNCHANGED ownerVars
<1>1. CASE Checked(g)
  BY <1>1 DEF Checked
<1>2. CASE Given(g)
  BY <1>2 DEF Given
<1>3. CASE Finished(g) \/ NotRun(g)
  BY <1>3 DEF Finished, NotRun
<1>4. CASE \/ Started(g) \/ ReleaseRead(g) \/ Refused(g) \/ Trickle(g)
           \/ FallsSilent(g) \/ Saw(g) \/ ToolExits(g) \/ ToolTimesOut(g)
  BY <1>4 DEF Started, ReleaseRead, Refused, Trickle, FallsSilent, Saw, ToolExits,
              ToolTimesOut
<1>. QED BY <1>1, <1>2, <1>3, <1>4 DEF Flash

\* A flash holds the mirror to no more than it promises: whatever the gestures
\* and the process around them do, the device sees a behaviour DeviceOwner
\* allows, which is what the mirror implements (Mirror_proofs).
THEOREM KeepsToThePromise == Spec => OwnerSpec
<1>1. Init => OwnerInit
  BY DEF Init
<1>2. [Next]_vars => [OwnerNext]_ownerVars
  <2>. SUFFICES ASSUME [Next]_vars PROVE OwnerNext \/ UNCHANGED ownerVars
    OBVIOUS
  <2>1. CASE Mirroring
    BY <2>1 DEF Mirroring, OwnerNext
  <2>2. CASE Ending
    BY <2>2 DEF Ending, Stop, FaceClosed, Settled, Exit
  <2>3. ASSUME NEW g \in Gestures, Gesture(g) PROVE UNCHANGED ownerVars
    BY <2>3 DEF Gesture, Wanted, GoesAway
  <2>4. ASSUME NEW g \in Gestures, Flash(g) PROVE OwnerNext \/ UNCHANGED ownerVars
    BY <2>4, FlashIsABorrower, FlasherAssumption DEF FlasherAssumption, OwnerNext
  <2>5. CASE UNCHANGED vars
    BY <2>5 DEF vars
  <2>. QED BY <2>1, <2>2, <2>3, <2>4, <2>5 DEF Next
<1>. QED BY <1>1, <1>2, PTL DEF Spec, OwnerSpec

-----------------------------------------------------------------------------
(* What waits at the box.                                                  *)

\* A list that is let go leaves nothing that was typed elsewhere.
LEMMA IdleHere ==
  ASSUME Idle, ~heldOver' PROVE TypedHere'
<1>1. queued' = <<>>
  BY DEF Idle
<1>2. <<>> \in Seq(Messages) /\ DOMAIN <<>> = {}
  OBVIOUS
<1>3. queued' \in Seq(Messages)
  BY <1>1, <1>2
<1>4. \A i \in DOMAIN queued' : queued'[i].now
  BY <1>1, <1>2
<1>. QED BY <1>1, <1>3, <1>4 DEF Idle, TypedHere, NothingHeldOver

\* What is typed now waits behind what was typed at the same stream.
LEMMA Behind ==
  ASSUME NEW list, queued \in Seq(Messages), \A i \in DOMAIN queued : queued[i].now,
         NEW m \in Nat, list \in [1..m -> [prog : BOOLEAN, now : {TRUE}]]
  PROVE  /\ queued \o list \in Seq(Messages)
         /\ \A i \in DOMAIN (queued \o list) : (queued \o list)[i].now
<1>1. \A x \in [prog : BOOLEAN, now : {TRUE}] : x \in Messages /\ x.now
  BY DEF Messages
<1>2. list \in [1..m -> Messages]
  BY <1>1
<1>3. list \in Seq(Messages) /\ Len(list) = m
  BY <1>2
<1>4. \A i \in 1..m : list[i].now
  BY <1>1
<1>5. queued \o list \in Seq(Messages)
  BY <1>3
<1>6. ASSUME NEW i \in DOMAIN (queued \o list) PROVE (queued \o list)[i].now
  <2>1. i \in 1..(Len(queued) + m)
    BY <1>3
  <2>2. CASE i <= Len(queued)
    <3>1. (queued \o list)[i] = queued[i] /\ i \in DOMAIN queued
      BY <1>3, <2>1, <2>2
    <3>. QED BY <3>1
  <2>3. CASE ~(i <= Len(queued))
    <3>1. (queued \o list)[i] = list[i - Len(queued)] /\ i - Len(queued) \in 1..m
      BY <1>3, <2>1, <2>3
    <3>. QED BY <3>1, <1>4
  <2>. QED BY <2>2, <2>3
<1>. QED BY <1>5, <1>6

\* What goes up the stream was typed at it, and so was what waits behind it.
LEMMA PacesHere ==
  ASSUME NEW q, q \in Seq(Messages), \A i \in DOMAIN q : q[i].now, ~heldOver, Paces(q),
         socket' = socket
  PROVE  TypedHere'
<1>1. CASE q # <<>> /\ Ready
  <2>1. PICK n \in 1..Len(q) :
          queued' = SubSeq(q, n + 1, Len(q))
            /\ heldOver' = IF \E i \in 1..n : ~q[i].now THEN TRUE ELSE heldOver
    BY <1>1 DEF Paces
  <2>2. queued' \in Seq(Messages)
    BY <2>1
  <2>3. \A i \in DOMAIN queued' : queued'[i].now
    <3>. SUFFICES ASSUME NEW i \in DOMAIN queued' PROVE queued'[i].now
      OBVIOUS
    <3>1. i \in 1..(Len(q) - n) /\ queued'[i] = q[n + i]
      BY <2>1
    <3>. QED BY <3>1
  <2>4. ~heldOver'
    BY <2>1
  <2>. QED BY <1>1, <2>2, <2>3, <2>4 DEF Ready, TypedHere, NothingHeldOver
<1>2. CASE ~(q # <<>> /\ Ready)
  BY <1>2, IdleHere DEF Paces
<1>. QED BY <1>1, <1>2

\* A stream opens on a box in which nothing waits.
LEMMA OpensOnNothing ==
  ASSUME TypedHere, Opens PROVE TypedHere'
<1>1. queued = <<>>
  BY DEF TypedHere, Opens
<1>2. DOMAIN queued = {} /\ <<>> \in Seq(Messages)
  BY <1>1
<1>3. queued' = <<>>
  BY <1>1, <1>2 DEF Opens
<1>4. DOMAIN queued' = {}
  BY <1>3
<1>. QED BY <1>2, <1>3, <1>4 DEF Opens, TypedHere, NothingHeldOver

LEMMA TypedInv ==
  ASSUME TypedHere, [PageNext]_allVars PROVE TypedHere'
<1>1. CASE Types
  <2>1. PICK list \in SeqOf([prog : BOOLEAN, now : {TRUE}], MaxList) \ {<<>>} :
          IF awaiting
            THEN queued' = queued \o list /\ UNCHANGED <<awaiting, heldOver>>
            ELSE Paces(queued \o list)
    BY <1>1 DEF Types
  <2>2. PICK m \in 0..MaxList : list \in [1..m -> [prog : BOOLEAN, now : {TRUE}]]
    BY <2>1 DEF SeqOf
  <2>3. m \in Nat
    BY PageAssumption DEF PageAssumption
  <2>4. socket = "open" /\ socket' = socket
    BY <1>1 DEF Types, Ready
  <2>5. /\ queued \o list \in Seq(Messages)
        /\ \A i \in DOMAIN (queued \o list) : (queued \o list)[i].now
    BY <2>2, <2>3, <2>4, Behind DEF TypedHere
  <2>6. CASE awaiting
    BY <2>1, <2>4, <2>5, <2>6 DEF TypedHere, NothingHeldOver
  <2>7. CASE ~awaiting
    BY <2>1, <2>4, <2>5, <2>7, PacesHere DEF TypedHere, NothingHeldOver
  <2>. QED BY <2>6, <2>7
<1>2. ASSUME NEW failed \in BOOLEAN, HearsReply(failed) PROVE TypedHere'
  <2>1. socket = "open" /\ socket' = socket
    BY <1>2 DEF HearsReply, Ready
  <2>2. CASE failed   BY <1>2, <2>2, IdleHere DEF HearsReply, TypedHere, NothingHeldOver
  <2>3. CASE ~failed
    BY <1>2, <2>1, <2>3, PacesHere DEF HearsReply, TypedHere, NothingHeldOver
  <2>. QED BY <2>2, <2>3
<1>3. CASE Waited
  <2>1. Paces(queued) /\ socket' = socket /\ queued \in Seq(Messages) /\ ~heldOver
    BY <1>3 DEF Waited, TypedHere, NothingHeldOver
  <2>2. CASE Ready
    BY <2>1, <2>2, PacesHere DEF Ready, TypedHere
  <2>3. CASE ~Ready
    BY <2>1, <2>3, IdleHere DEF Paces
  <2>. QED BY <2>2, <2>3
<1>4. CASE Gone \/ Loads
  BY <1>4, IdleHere DEF Gone, Loads, TypedHere, NothingHeldOver
<1>5. CASE Opens
  BY <1>5, OpensOnNothing
<1>6. CASE Ends
  BY <1>6 DEF Ends, boxVars, TypedHere, NothingHeldOver
<1>7. CASE Dials
  BY <1>7 DEF Dials, boxVars, TypedHere, NothingHeldOver
<1>8. CASE UNCHANGED <<socket, boxVars>>
  BY <1>8 DEF boxVars, TypedHere, NothingHeldOver
<1>9. Press \/ Follow \/ Elsewhere \/ UNCHANGED allVars => UNCHANGED <<socket, boxVars>>
  BY DEF Press, Confirmed, PostArrives, PostFails, PostLost, PostOver, Follow, Tick,
         FaceSays, Told, Elsewhere, pageVars, allVars
<1>. QED
  BY <1>1, <1>2, <1>3, <1>4, <1>5, <1>6, <1>7, <1>8, <1>9 DEF PageNext, Box, Wire

\* Nothing goes up a stream that was opened after it was typed, for lists of any
\* length and any number of them.
THEOREM NothingLeftOver == PageSpec => []NothingHeldOver
<1>1. PageInit => TypedHere
  BY DEF PageInit, TypedHere, NothingHeldOver
<1>2. TypedHere => NothingHeldOver
  BY DEF TypedHere
<1>. QED BY <1>1, <1>2, TypedInv, PTL DEF PageSpec

\* A flash of this page's begins only where its POST arrives.
LEMMA BegunByPost ==
  ASSUME PageAssumption, stage[Here] = "none", stage'[Here] # "none",
         \/ Mirroring \/ Ending
         \/ \E g \in Gestures : Flash(g)
         \/ \E g \in Gestures \ {Here} : Gesture(g),
         IInv
  PROVE  FALSE
<1>1. CASE Mirroring \/ Ending
  BY <1>1 DEF Mirroring, Ending, Stop, FaceClosed, Settled, Exit, flashVars
<1>2. ASSUME NEW g \in Gestures, Flash(g) PROVE FALSE
  <2>1. stage' = [stage EXCEPT ![g] = stage'[g]] /\ stage[g] # "none"
    BY <1>2 DEF Flash, Started, ReleaseRead, Refused, Trickle, FallsSilent, Checked,
       Given, Saw, ToolExits, ToolTimesOut, NotRun, Finished, Fetching, TaskOver,
       IInv, TypeOK, OneBorrows
  <2>. QED BY <2>1, PageAssumption DEF PageAssumption, IInv, TypeOK
<1>3. ASSUME NEW g \in Gestures \ {Here}, Gesture(g) PROVE FALSE
  BY <1>3, PageAssumption
  DEF PageAssumption, Gesture, Wanted, GoesAway, flashVars, IInv, TypeOK
<1>. QED BY <1>1, <1>2, <1>3

LEMMA PreparedInv ==
  ASSUME Prepared, IInv, [PageNext]_allVars, PageAssumption PROVE Prepared'
<1>. USE DEF Prepared, StoppedFirst
<1>1. CASE UNCHANGED <<vars, post, readied>>
  BY <1>1 DEF vars, flashVars
<1>2. Box \/ Wire \/ Follow \/ UNCHANGED allVars => UNCHANGED <<vars, post, readied>>
  BY DEF Box, Types, HearsReply, Waited, Wire, Opens, Ends, Gone, Dials, Follow, Tick,
         FaceSays, Told, gestVars, pageVars, allVars
<1>3. CASE Confirmed
  <2>1. Len(Steps) = 2 /\ readied' = Steps
    BY <1>3 DEF Confirmed
  <2>2. Steps = <<"stop", "cut">>
    BY <2>1 DEF Steps
  <2>. QED BY <2>1, <2>2
<1>4. CASE PostArrives
  BY <1>4 DEF PostArrives
<1>5. CASE PostFails
  BY <1>5 DEF PostFails, vars, flashVars
<1>6. CASE PostLost
  BY <1>6 DEF PostLost, GoesAway, flashVars
<1>7. CASE PostOver
  BY <1>7 DEF PostOver, vars, flashVars
<1>8. CASE Loads
  BY <1>8 DEF Loads, GoesAway, vars, flashVars
<1>9. CASE Elsewhere
  BY <1>9, BegunByPost DEF Elsewhere, pageVars, gestVars
<1>. QED
  BY <1>1, <1>2, <1>3, <1>4, <1>5, <1>6, <1>7, <1>8, <1>9 DEF PageNext, Press

\* No flash this page asked for is in flight but behind a stop and a cut that
\* had left it, whatever became of the page, its stream and its POST since.
THEOREM StoppedBefore == PageSpec => []StoppedFirst
<1>1. PageInit => Prepared
  BY PageAssumption DEF PageInit, Init, Prepared, StoppedFirst, PageAssumption
<1>2. Prepared /\ IInv /\ [PageNext]_allVars => Prepared'
  BY PreparedInv, PageAssumption
<1>3. Prepared => StoppedFirst
  BY DEF Prepared
<1>. QED
  BY <1>1, <1>2, <1>3, PageIsACaller, Invariance, PTL DEF PageSpec
=============================================================================
