---------------------------- MODULE Mirror_proofs ----------------------------
(* What holds of Mirror for every number of clients, of writes a message    *)
(* takes and of messages a read completes, and for every backoff; and that  *)
(* Mirror implements DeviceOwner.                                           *)
EXTENDS MirrorOwner, TLAPS

-----------------------------------------------------------------------------
(* Lemmas about the operators.                                             *)

\* `_stop_grace`'s value is no number of ticks, and a whole grace is one.
LEMMA GraceIsANumber == GraceTicks \in Nat /\ GraceTicks # Off /\ Off = -1
  BY ConstantsAssumption DEF GraceTicks, Off

\* The backoff doubled stays between the first and the longest.
LEMMA DoubledStays ==
  ASSUME NEW b \in FirstBackoff..MaxBackoff
  PROVE  Doubled(b) \in FirstBackoff..MaxBackoff /\ Doubled(b) \in 0..MaxBackoff
  BY ConstantsAssumption DEF Doubled

\* Device.write continues the message it has begun, and one that is over leaves
\* nothing unfinished at the device.
LEMMA HeardIsTheStart ==
  ASSUME NEW c \in Clients, NEW from \in 0..Pieces, NEW to \in from..Pieces,
         wire = [i \in 1..from |-> <<c, i>>]
  PROVE  Heard(c, from, to) =
           IF to = Pieces THEN <<>> ELSE Start(c, to)
<1> DEFINE more == [i \in 1..(to - from) |-> <<c, from + i>>]
           now == [i \in 1..to |-> <<c, i>>]
           Piece == Clients \X (1..Pieces)
<1>1. from \in Nat /\ to \in Nat /\ to - from \in Nat /\ Pieces \in Nat
  BY ConstantsAssumption
<1>2. wire \in Seq(Piece) /\ Len(wire) = from /\ \A i \in 1..from : wire[i] = <<c, i>>
  <2>1. \A i \in 1..from : <<c, i>> \in Piece BY <1>1
  <2> QED BY <1>1, <2>1 DEF Start
<1>3. more \in Seq(Piece) /\ Len(more) = to - from
  <2>1. \A i \in 1..(to - from) : <<c, from + i>> \in Piece BY <1>1
  <2> QED BY <1>1, <2>1
<1>4. wire \o more = now
  <2>1. wire \o more \in Seq(Piece) /\ Len(wire \o more) = to
    BY <1>1, <1>2, <1>3
  <2>2. \A i \in 1..to : (wire \o more)[i] = <<c, i>>
    <3>1. TAKE i \in 1..to
    <3>2. CASE i <= from BY <3>2, <1>1, <1>2, <1>3
    <3>3. CASE i > from
      <4>1. i - from \in 1..(to - from) BY <3>3, <1>1
      <4>2. (wire \o more)[i] = more[i - from] BY <3>3, <1>1, <1>2, <1>3
      <4>3. more[i - from] = <<c, from + (i - from)>> BY <4>1
      <4> QED BY <4>2, <4>3, <1>1
    <3> QED BY <3>2, <3>3, <1>1
  <2>3. wire \o more = [i \in 1..to |-> (wire \o more)[i]]
    BY <2>1
  <2> QED BY <2>2, <2>3
<1>5. to # Pieces => now # [i \in 1..Pieces |-> <<c, i>>]
  <2>1. DOMAIN now = 1..to /\ DOMAIN [i \in 1..Pieces |-> <<c, i>>] = 1..Pieces OBVIOUS
  <2>2. to # Pieces => Pieces \notin 1..to /\ Pieces \in 1..Pieces BY <1>1, ConstantsAssumption
  <2> QED BY <2>1, <2>2
<1> QED BY <1>4, <1>5 DEF Heard, Start

\* A start of a message is a sequence of pieces, as long as it says.
LEMMA StartIsPieces ==
  ASSUME NEW c \in Clients, NEW n \in 0..Pieces
  PROVE  Start(c, n) \in Seq(Clients \X (1..Pieces)) /\ Len(Start(c, n)) = n
<1>1. n \in Nat /\ \A i \in 1..n : <<c, i>> \in Clients \X (1..Pieces)
  BY ConstantsAssumption
<1> QED BY <1>1 DEF Start

-----------------------------------------------------------------------------
(* The lock of a Device.                                                   *)

\* Who has the turn at a Device is the first in its line.
LEMMA TurnIsHead ==
  ASSUME TypeOK, LockLine, NEW c \in Clients, HasTurn(c)
  PROVE  /\ hold[c] \in Devices
         /\ line[hold[c]] \in Seq(Clients) /\ line[hold[c]] # <<>>
         /\ line[hold[c]][1] = c
<1>1. Working(c) BY DEF HasTurn, Working
<1>2. hold[c] \in Devices /\ line[hold[c]] \in Seq(Clients)
  BY <1>1 DEF LockLine, TypeOK
<1>3. PICK i \in 1..Len(line[hold[c]]) : line[hold[c]][i] = c
  BY <1>1 DEF LockLine
<1>4. line[hold[c]] # <<>> BY <1>2, <1>3
<1>5. CASE pc[c] = "woken"
  <2>1. i = 1 BY <1>2, <1>3, <1>5 DEF LockLine
  <2> QED BY <2>1, <1>2, <1>3, <1>4
<1>6. CASE pc[c] = "queued" /\ Head(line[hold[c]]) = c
  BY <1>2, <1>4, <1>6
<1> QED BY <1>5, <1>6 DEF HasTurn

\* The end of a message leaves its variables in their types.
LEMMA EndMessageTypes ==
  ASSUME TypeOK, LockLine, BatchPending, NEW c \in Clients, HasTurn(c), EndMessage(c)
  PROVE  /\ line' \in [Devices -> Seq(Clients)]
         /\ hold' \in [Clients -> Devices \cup {None}]
         /\ sent' \in [Clients -> 0..Pieces]
         /\ batch' \in [Clients -> 0..MaxBatch]
         /\ pc' \in [Clients -> HandlerAt]
<1>1. /\ line \in [Devices -> Seq(Clients)]
      /\ hold \in [Clients -> Devices \cup {None}]
      /\ sent \in [Clients -> 0..Pieces]
      /\ batch \in [Clients -> 0..MaxBatch]
      /\ pc \in [Clients -> HandlerAt]
  BY DEF TypeOK
<1>2. hold[c] \in Devices /\ Tail(line[hold[c]]) \in Seq(Clients)
  BY TurnIsHead
<1>3. batch[c] - 1 \in 0..MaxBatch
  <2>1. batch[c] >= 1 BY DEF BatchPending, Pending, HasTurn, Working
  <2> QED BY <1>1, <2>1, ConstantsAssumption
<1>4. line' \in [Devices -> Seq(Clients)]
  BY <1>1, <1>2 DEF EndMessage
<1>5. pc' \in [Clients -> HandlerAt]
  BY <1>1 DEF EndMessage, HandlerAt
<1>6. batch' \in [Clients -> 0..MaxBatch]
  BY <1>1, <1>3 DEF EndMessage
<1>7. sent' \in [Clients -> 0..Pieces] /\ hold' \in [Clients -> Devices \cup {None}]
  BY <1>1, ConstantsAssumption DEF EndMessage
<1> QED BY <1>4, <1>5, <1>6, <1>7

\* A step that takes nobody into or out of a line, and starts nobody but the
\* first in one, leaves the lines right.
LEMMA LineUntouched ==
  ASSUME TypeOK, LockLine, line' = line, hold' = hold,
         \A c \in Clients : /\ Working(c)' = Working(c)
                            /\ pc[c] = "queued" =>
                                 pc'[c] = "queued" \/ line[hold[c]][1] = c
  PROVE  LockLine'
<1>1. \A d \in Devices : \A i \in 1..Len(line[d]) : line[d][i] \in Clients
  BY DEF TypeOK
<1>2. \A d \in Devices : \A i \in 1..Len(line[d]) :
        /\ hold'[line'[d][i]] = d /\ pc'[line'[d][i]] \in {"queued", "parked", "woken"}
        /\ i > 1 => pc'[line'[d][i]] = "queued"
        /\ \A j \in 1..Len(line[d]) : line'[d][i] = line'[d][j] => i = j
  <2>0. TAKE d \in Devices
  <2>1. TAKE i \in 1..Len(line[d])
  <2>2. /\ line[d][i] \in Clients /\ hold[line[d][i]] = d /\ Working(line[d][i])
        /\ i > 1 => pc[line[d][i]] = "queued"
        /\ \A j \in 1..Len(line[d]) : line[d][i] = line[d][j] => i = j
    BY <1>1 DEF LockLine
  <2>3. pc'[line[d][i]] \in {"queued", "parked", "woken"}
    BY <2>2 DEF Working
  <2>4. i > 1 => line[d][1] # line[d][i]
    BY <2>2
  <2>5. i > 1 => pc'[line[d][i]] = "queued"
    BY <2>2, <2>4
  <2> QED BY <2>2, <2>3, <2>5
<1>3. \A c \in Clients : Working(c)' =>
        hold'[c] \in Devices /\ \E i \in 1..Len(line'[hold'[c]]) : line'[hold'[c]][i] = c
  BY DEF LockLine
<1> QED BY <1>2, <1>3 DEF LockLine, Working

\* A message given its place at the open device's lock joins the line there.
LEMMA JoinsLine ==
  ASSUME TypeOK, LockLine, open \in Devices, NEW c \in Clients, ~Working(c),
         hold' = [hold EXCEPT ![c] = open],
         line' = [line EXCEPT ![open] = Append(@, c)],
         pc' = [pc EXCEPT ![c] = "queued"]
  PROVE  LockLine'
<1> DEFINE s == line[open]
<1>1. /\ line \in [Devices -> Seq(Clients)]
      /\ hold \in [Clients -> Devices \cup {None}]
      /\ pc \in [Clients -> HandlerAt]
  BY DEF TypeOK
<1>2. /\ line'[open] = Append(s, c) /\ s \in Seq(Clients)
      /\ \A e \in Devices \ {open} : line'[e] = line[e]
      /\ hold'[c] = open /\ \A b \in Clients \ {c} : hold'[b] = hold[b]
      /\ pc'[c] = "queued" /\ \A b \in Clients \ {c} : pc'[b] = pc[b]
  BY <1>1
<1>3. /\ Len(line'[open]) = Len(s) + 1 /\ line'[open][Len(s) + 1] = c
      /\ \A i \in 1..Len(s) : line'[open][i] = s[i] /\ s[i] \in Clients /\ s[i] # c
  BY <1>2 DEF LockLine
<1>4. ASSUME NEW e \in Devices, NEW i \in 1..Len(line'[e])
      PROVE  /\ hold'[line'[e][i]] = e
             /\ pc'[line'[e][i]] \in {"queued", "parked", "woken"}
             /\ i > 1 => pc'[line'[e][i]] = "queued"
             /\ \A j \in 1..Len(line'[e]) : line'[e][i] = line'[e][j] => i = j
  <2>1. CASE e = open /\ i = Len(s) + 1
    BY <2>1, <1>2, <1>3
  <2>2. CASE e = open /\ i \in 1..Len(s)
    <3>1. hold[s[i]] = open /\ pc[s[i]] \in {"queued", "parked", "woken"}
          /\ (i > 1 => pc[s[i]] = "queued")
      BY <2>2 DEF LockLine, Working
    <3>2. \A j \in 1..Len(line'[e]) : line'[e][i] = line'[e][j] => i = j
      <4>1. TAKE j \in 1..Len(line'[e])
      <4>2. CASE j \in 1..Len(s)
        BY <4>2, <2>2, <1>3 DEF LockLine
      <4>3. CASE j = Len(s) + 1
        BY <4>3, <2>2, <1>3
      <4>4. Len(line'[e]) = Len(s) + 1 /\ Len(s) \in Nat
        BY <2>2, <1>2, <1>3
      <4>5. j \in 1..Len(s) \/ j = Len(s) + 1
        BY <4>4
      <4> QED BY <4>2, <4>3, <4>5
    <3> QED BY <3>1, <3>2, <2>2, <1>2, <1>3
  <2>3. CASE e # open
    <3>1. line'[e] = line[e] /\ line[e] \in Seq(Clients)
      BY <2>3, <1>1, <1>2
    <3>2. i \in 1..Len(line[e])
      BY <3>1
    <3>3. line[e][i] \in Clients
      BY <3>1, <3>2
    <3>4. Working(line[e][i])
      BY <3>2, <3>3 DEF LockLine
    <3>5. line[e][i] # c
      BY <3>3, <3>4
    <3>6. /\ hold[line[e][i]] = e /\ (i > 1 => pc[line[e][i]] = "queued")
          /\ \A j \in 1..Len(line[e]) : line[e][i] = line[e][j] => i = j
      BY <3>2 DEF LockLine
    <3> QED BY <3>1, <3>3, <3>4, <3>5, <3>6, <1>2 DEF Working
  <2> QED BY <2>1, <2>2, <2>3, <1>2, <1>3
<1>5. ASSUME NEW b \in Clients, Working(b)'
      PROVE  hold'[b] \in Devices /\ \E i \in 1..Len(line'[hold'[b]]) : line'[hold'[b]][i] = b
  <2>1. CASE b = c
    <3>1. Len(s) + 1 \in 1..Len(line'[open])
      BY <1>2, <1>3
    <3> QED BY <2>1, <3>1, <1>2, <1>3
  <2>2. CASE b # c
    <3>1. Working(b) /\ hold'[b] = hold[b]
      BY <2>2, <1>2, <1>5 DEF Working
    <3>2. hold[b] \in Devices /\ line[hold[b]] \in Seq(Clients)
      BY <3>1, <1>1 DEF LockLine
    <3>3. PICK i \in 1..Len(line[hold[b]]) : line[hold[b]][i] = b
      BY <3>1 DEF LockLine
    <3>4. i \in 1..Len(line'[hold[b]]) /\ line'[hold[b]][i] = b
      BY <3>2, <3>3, <1>2, <1>3
    <3> QED BY <3>1, <3>2, <3>4
  <2> QED BY <2>1, <2>2
<1> QED BY <1>4, <1>5 DEF LockLine, Working

\* The end of a message gives the turn to the next in line and nothing else.
LEMMA EndMessageLine ==
  ASSUME TypeOK, LockLine, NEW c \in Clients, HasTurn(c), EndMessage(c)
  PROVE  LockLine'
<1> DEFINE d == hold[c]
           s == line[d]
<1>1. /\ line \in [Devices -> Seq(Clients)]
      /\ hold \in [Clients -> Devices \cup {None}]
      /\ pc \in [Clients -> HandlerAt]
  BY DEF TypeOK
<1>2. d \in Devices /\ s \in Seq(Clients) /\ s # <<>> /\ s[1] = c
  BY TurnIsHead
<1>3. /\ Tail(s) \in Seq(Clients) /\ Len(Tail(s)) = Len(s) - 1
      /\ \A i \in 1..Len(Tail(s)) : Tail(s)[i] = s[i + 1]
  BY <1>2
<1>4. /\ line'[d] = Tail(s)
      /\ \A e \in Devices \ {d} : line'[e] = line[e]
      /\ hold'[c] = None /\ \A b \in Clients \ {c} : hold'[b] = hold[b]
      /\ pc'[c] \in {"reading", "handling"}
      /\ \A b \in Clients \ {c} : pc'[b] = pc[b]
  BY <1>1, <1>2 DEF EndMessage
<1>5. \A e \in Devices : line'[e] \in Seq(Clients)
  BY <1>1, <1>3, <1>4
<1>6. ASSUME NEW e \in Devices, NEW i \in 1..Len(line'[e])
      PROVE  /\ hold'[line'[e][i]] = e /\ pc'[line'[e][i]] \in {"queued", "parked", "woken"}
             /\ i > 1 => pc'[line'[e][i]] = "queued"
             /\ \A j \in 1..Len(line'[e]) : line'[e][i] = line'[e][j] => i = j
  <2>1. CASE e = d
    <3>1. i + 1 \in 1..Len(s) /\ line'[e][i] = s[i + 1]
      BY <2>1, <1>2, <1>3, <1>4
    <3>2. s[i + 1] \in Clients /\ s[i + 1] # c
      BY <3>1, <1>2 DEF LockLine
    <3>3. hold[s[i + 1]] = d /\ pc[s[i + 1]] = "queued"
      BY <3>1, <1>2 DEF LockLine
    <3>4. \A j \in 1..Len(line'[e]) : line'[e][i] = line'[e][j] => i = j
      <4>1. TAKE j \in 1..Len(line'[e])
      <4>2. j + 1 \in 1..Len(s) /\ line'[e][j] = s[j + 1]
        BY <2>1, <1>2, <1>3, <1>4
      <4>3. s[i + 1] = s[j + 1] => i + 1 = j + 1
        BY <3>1, <4>2, <1>2 DEF LockLine
      <4> QED BY <3>1, <4>2, <4>3
    <3> QED BY <3>1, <3>2, <3>3, <3>4, <1>4, <2>1 DEF Working
  <2>2. CASE e # d
    <3>1. line'[e] = line[e] /\ line[e] \in Seq(Clients)
      BY <2>2, <1>1, <1>4
    <3>2. line[e][i] \in Clients /\ hold[line[e][i]] = e
      BY <3>1 DEF LockLine
    <3>3. line[e][i] # c BY <3>2, <2>2
    <3> QED BY <3>1, <3>2, <3>3, <1>4 DEF LockLine, Working
  <2> QED BY <2>1, <2>2
<1>7. ASSUME NEW b \in Clients, Working(b)'
      PROVE  hold'[b] \in Devices /\ \E i \in 1..Len(line'[hold'[b]]) : line'[hold'[b]][i] = b
  <2>1. b # c /\ Working(b) /\ hold'[b] = hold[b]
    BY <1>4, <1>7 DEF Working
  <2>2. hold[b] \in Devices /\ line[hold[b]] \in Seq(Clients)
    BY <2>1, <1>1 DEF LockLine
  <2>3. PICK i \in 1..Len(line[hold[b]]) : line[hold[b]][i] = b
    BY <2>1 DEF LockLine
  <2>4. CASE hold[b] = d
    <3>1. i # 1 BY <2>3, <2>4, <2>1, <1>2
    <3>2. i - 1 \in 1..Len(Tail(s)) /\ Tail(s)[i - 1] = b
      BY <3>1, <2>3, <2>4, <1>2, <1>3
    <3> QED BY <3>2, <2>1, <2>2, <2>4, <1>4
  <2>5. CASE hold[b] # d
    BY <2>1, <2>2, <2>3, <2>5, <1>4
  <2> QED BY <2>4, <2>5
<1> QED BY <1>6, <1>7 DEF LockLine, Working

-----------------------------------------------------------------------------
(* A write.                                                                *)

\* Whoever writes to the live device continues what it has of a message.
LEMMA WriteContinues ==
  ASSUME TypeOK, LockLine, WireIsHeads,
         NEW c \in Clients, NEW to \in 0..Pieces, Write(c, to)
  PROVE  /\ open \in Devices /\ hold[c] = open /\ line[open][1] = c
         /\ line[open] # <<>> /\ sent[c] \in 0..Pieces /\ to \in sent[c]..Pieces
         /\ wire' = IF to = Pieces THEN <<>> ELSE Start(c, to)
<1>1. HasTurn(c) /\ hold[c] = open /\ ~hung /\ to \in sent[c]..Pieces
  BY DEF Write, StillOurs
<1>2. open \in Devices /\ line[open] # <<>> /\ line[open][1] = c
  BY <1>1, TurnIsHead
<1>3. open # None /\ sent[c] \in 0..Pieces
  BY <1>2, ConstantsAssumption DEF TypeOK
<1>4. wire = [i \in 1..sent[c] |-> <<c, i>>]
  BY <1>1, <1>2, <1>3 DEF WireIsHeads, Start
<1>5. Heard(c, sent[c], to) = IF to = Pieces THEN <<>> ELSE Start(c, to)
  BY <1>1, <1>3, <1>4, HeardIsTheStart
<1> QED BY <1>1, <1>2, <1>3, <1>5 DEF Write

-----------------------------------------------------------------------------
(* Types.                                                                  *)

\* The station starts in its types.
LEMMA TypeInit == Init => TypeOK
<1> SUFFICES ASSUME Init PROVE TypeOK
  OBVIOUS
<1> USE ConstantsAssumption DEF Init
<1>1. /\ plugged \in BOOLEAN /\ hung \in BOOLEAN /\ spoke \in BOOLEAN
      /\ kept \in BOOLEAN /\ astray \in BOOLEAN /\ stale \in BOOLEAN
  OBVIOUS
<1>2. open \in Devices \cup {None} /\ clients \subseteq Clients /\ behind \subseteq Clients
  OBVIOUS
<1>3. watcher \in WatcherAt /\ handover \in HandoverAt /\ closing \in ClosingAt
  BY DEF WatcherAt, HandoverAt, ClosingAt
<1>4. backoff \in FirstBackoff..MaxBackoff /\ sleep \in 0..MaxBackoff
  OBVIOUS
<1>5. sock \in [Clients -> SockAt] /\ pc \in [Clients -> HandlerAt]
  BY DEF SockAt, HandlerAt
<1>6. batch \in [Clients -> 0..MaxBatch] /\ sent \in [Clients -> 0..Pieces]
  OBVIOUS
<1>7. hold \in [Clients -> Devices \cup {None}] /\ fresh \in [Clients -> BOOLEAN]
  OBVIOUS
<1>8. line \in [Devices -> Seq(Clients)] /\ wire \in Seq(Clients \X (1..Pieces))
  OBVIOUS
<1>9. grace \in Off..GraceTicks
  BY GraceIsANumber
<1> QED BY <1>1, <1>2, <1>3, <1>4, <1>5, <1>6, <1>7, <1>8, <1>9 DEF TypeOK

\* The end of a session leaves its variables in their types.
LEMMA EndSessionTypes ==
  ASSUME TypeOK, EndSession
  PROVE  /\ open' \in Devices \cup {None} /\ pc' \in [Clients -> HandlerAt]
         /\ wire' \in Seq(Clients \X (1..Pieces)) /\ fresh' \in [Clients -> BOOLEAN]
         /\ grace' \in Off..GraceTicks
<1>1. pc' \in [Clients -> HandlerAt]
  BY DEF TypeOK, EndSession, LetGo, HandlerAt
<1>2. grace' \in Off..GraceTicks
  BY GraceIsANumber DEF TypeOK, EndSession, StartGrace
<1>3. wire' \in Seq(Clients \X (1..Pieces)) /\ fresh' \in [Clients -> BOOLEAN]
  BY DEF EndSession, LetGo
<1>4. open' \in Devices \cup {None}
  BY DEF EndSession, LetGo
<1> QED BY <1>1, <1>2, <1>3, <1>4

\* Every step keeps every variable in its type.
LEMMA TypeStep ==
  ASSUME TypeOK, LockLine, BatchPending, WireIsHeads, [Next]_vars
  PROVE  TypeOK'
<1> USE DEF deviceVars, watcherVars, portVars, handlerVars, endVars, wireVars
<1>1. CASE Cable
  BY <1>1 DEF TypeOK, Cable, Plug, Unplug
<1>2. CASE Watching
  <2>1. ASSUME NEW d \in Devices, Open(d) PROVE TypeOK'
    <3>1. watcher' \in WatcherAt /\ grace' \in Off..GraceTicks
      BY <2>1, GraceIsANumber DEF Open, StopGrace, WatcherAt
    <3> QED BY <2>1, <3>1 DEF TypeOK, Open
  <2>2. CASE OpenFails
    <3>1. /\ sleep' \in 0..MaxBackoff /\ backoff' \in FirstBackoff..MaxBackoff
          /\ watcher' \in WatcherAt
      BY <2>2, DoubledStays, ConstantsAssumption DEF TypeOK, OpenFails, WatcherAt
    <3> QED BY <2>2, <3>1 DEF TypeOK, OpenFails
  <2>3. CASE SessionEnds
    <3>1. PICK pause \in FirstBackoff..MaxBackoff :
            sleep' = pause /\ backoff' = Doubled(pause)
      BY <2>3, ConstantsAssumption DEF TypeOK, SessionEnds
    <3>2. /\ sleep' \in 0..MaxBackoff /\ backoff' \in FirstBackoff..MaxBackoff
          /\ watcher' \in WatcherAt
      BY <2>3, <3>1, DoubledStays, ConstantsAssumption DEF SessionEnds, WatcherAt
    <3> QED BY <2>3, <3>2, EndSessionTypes DEF TypeOK, SessionEnds
  <2>4. CASE WatcherEnds
    <3>1. watcher' \in WatcherAt
      BY <2>4 DEF WatcherEnds, WatcherAt
    <3>2. CASE open # None
      BY <2>4, <3>1, <3>2, EndSessionTypes DEF TypeOK, WatcherEnds
    <3>3. CASE open = None
      BY <2>4, <3>1, <3>3 DEF TypeOK, WatcherEnds
    <3> QED BY <3>2, <3>3
  <2> QED BY <1>2, <2>1, <2>2, <2>3, <2>4 DEF Watching
<1>3. CASE Speaking
  <2>1. sock' \in [Clients -> SockAt]
    BY <1>3 DEF TypeOK, Speaking, FanOut, Abort, SockAt
  <2> QED BY <1>3, <2>1 DEF TypeOK, Speaking, FanOut
<1>4. CASE Timers
  <2>1. /\ sleep' \in 0..MaxBackoff /\ grace' \in Off..GraceTicks
        /\ sock' \in [Clients -> SockAt]
    BY <1>4, GraceIsANumber, ConstantsAssumption
    DEF TypeOK, Timers, Tick, GraceEnds, Sleeping, Abort, SockAt
  <2> QED BY <1>4, <2>1 DEF TypeOK, Timers, Tick, GraceEnds
<1>5. ASSUME NEW c \in Clients, Peer(c) PROVE TypeOK'
  <2>1. CASE Accept(c)
    BY <2>1 DEF TypeOK, Accept, HandlerAt, SockAt
  <2>2. ASSUME NEW how \in {"eof", "lost"}, HangUp(c, how) PROVE TypeOK'
    BY <2>2 DEF TypeOK, HangUp, SockAt
  <2>3. ASSUME NEW n \in 1..MaxBatch, Read(c, n) PROVE TypeOK'
    <3>1. n \in 0..MaxBatch
      BY ConstantsAssumption
    <3>2. /\ pc' \in [Clients -> HandlerAt] /\ batch' \in [Clients -> 0..MaxBatch]
          /\ fresh' \in [Clients -> BOOLEAN]
      BY <2>3, <3>1 DEF TypeOK, Read, HandlerAt
    <3> QED BY <2>3, <3>2 DEF TypeOK, Read
  <2>4. CASE Room(c)
    BY <2>4 DEF TypeOK, Room, HandlerAt
  <2> QED BY <1>5, <2>1, <2>2, <2>3, <2>4 DEF Peer
<1>6. ASSUME NEW c \in Clients, Handler(c) PROVE TypeOK'
  <2>1. CASE Begin(c)
    <3>1. pc' \in [Clients -> HandlerAt] /\ grace' \in Off..GraceTicks
      BY <2>1, GraceIsANumber DEF TypeOK, Begin, StartGrace, HandlerAt
    <3> QED BY <2>1, <3>1 DEF TypeOK, Begin
  <2>2. CASE ToDevice(c)
    <3>1. CASE open = None
      <4>1. /\ pc' = [pc EXCEPT ![c] = "reading"]
            /\ batch' = [batch EXCEPT ![c] = 0] /\ UNCHANGED <<hold, line>>
        BY <2>2, <3>1 DEF ToDevice
      <4>2. pc' \in [Clients -> HandlerAt] /\ batch' \in [Clients -> 0..MaxBatch]
        BY <4>1, ConstantsAssumption DEF TypeOK, HandlerAt
      <4> QED BY <2>2, <4>1, <4>2 DEF TypeOK, ToDevice
    <3>2. CASE open # None
      <4>1. /\ hold' = [hold EXCEPT ![c] = open]
            /\ line' = [line EXCEPT ![open] = Append(@, c)]
            /\ pc' = [pc EXCEPT ![c] = "queued"]
            /\ UNCHANGED batch
        BY <2>2, <3>2 DEF ToDevice
      <4>2. hold' \in [Clients -> Devices \cup {None}] /\ pc' \in [Clients -> HandlerAt]
        BY <4>1 DEF TypeOK, HandlerAt
      <4>3. line' \in [Devices -> Seq(Clients)]
        BY <4>1, <3>2 DEF TypeOK
      <4> QED BY <2>2, <4>1, <4>2, <4>3 DEF TypeOK, ToDevice
    <3> QED BY <3>1, <3>2
  <2>3. CASE WriteFails(c)
    <3>1. HasTurn(c) /\ EndMessage(c)
      BY <2>3 DEF WriteFails
    <3> QED BY <2>3, <3>1, EndMessageTypes DEF TypeOK, WriteFails
  <2>4. ASSUME NEW to \in 0..Pieces, Write(c, to) PROVE TypeOK'
    <3>1. /\ line' \in [Devices -> Seq(Clients)]
          /\ hold' \in [Clients -> Devices \cup {None}]
          /\ sent' \in [Clients -> 0..Pieces]
          /\ batch' \in [Clients -> 0..MaxBatch]
          /\ pc' \in [Clients -> HandlerAt]
      <4>1. CASE to = Pieces
        BY <2>4, <4>1, EndMessageTypes DEF Write
      <4>2. CASE to # Pieces
        BY <2>4, <4>2 DEF TypeOK, Write, HandlerAt
      <4> QED BY <4>1, <4>2
    <3>2. wire' \in Seq(Clients \X (1..Pieces))
      <4>1. wire' = IF to = Pieces THEN <<>> ELSE Start(c, to)
        BY <2>4, WriteContinues
      <4> QED BY <4>1, StartIsPieces
    <3>3. astray' \in BOOLEAN /\ stale' \in BOOLEAN
      BY <2>4 DEF TypeOK, Write
    <3> QED BY <2>4, <3>1, <3>2, <3>3 DEF TypeOK, Write
  <2> QED BY <1>6, <2>1, <2>2, <2>3, <2>4 DEF Handler
<1>7. ASSUME NEW c \in Clients, Leave(c) PROVE TypeOK'
  BY <1>7 DEF TypeOK, Leave, HandlerAt, SockAt
<1>8. CASE Release
  BY <1>8 DEF TypeOK, Release, StopWatching, HandoverAt, WatcherAt
<1>9. CASE TakeBack
  <2>1. handover' \in HandoverAt
    BY <1>9 DEF TakeBack, HandoverAt
  <2>2. CASE Closed
    BY <1>9, <2>1, <2>2 DEF TypeOK, TakeBack
  <2>3. CASE ~Closed
    <3>1. /\ watcher' \in WatcherAt /\ kept' \in BOOLEAN
          /\ backoff' \in FirstBackoff..MaxBackoff /\ sleep' \in 0..MaxBackoff
      BY <1>9, <2>3, ConstantsAssumption DEF TakeBack, WatcherAt
    <3> QED BY <1>9, <2>1, <3>1 DEF TypeOK, TakeBack
  <2> QED BY <2>2, <2>3
<1>10. CASE RunCancelled
  BY <1>10 DEF TypeOK, RunCancelled, ClosingAt
<1>11. CASE Ending
  <2>1. CASE Released
    BY <2>1 DEF TypeOK, Released, HandoverAt
  <2>2. CASE Close
    BY <2>2 DEF TypeOK, Close, Abort, ClosingAt, SockAt
  <2>3. CASE ServerClosed
    <3>1. closing' \in ClosingAt /\ watcher' \in WatcherAt /\ kept' \in BOOLEAN
      BY <2>3 DEF TypeOK, ServerClosed, StopWatching, ClosingAt, WatcherAt
    <3>2. grace' \in Off..GraceTicks
      BY <2>3, GraceIsANumber DEF TypeOK, ServerClosed, StopGrace
    <3> QED BY <2>3, <3>1, <3>2 DEF TypeOK, ServerClosed
  <2>4. CASE CloseReturns
    BY <2>4, GraceIsANumber DEF TypeOK, CloseReturns, StopGrace, ClosingAt
  <2> QED BY <1>11, <2>1, <2>2, <2>3, <2>4 DEF Ending
<1>12. CASE UNCHANGED vars
  BY <1>12 DEF TypeOK, vars
<1> QED BY <1>1, <1>2, <1>3, <1>4, <1>5, <1>6, <1>7, <1>8, <1>9, <1>10, <1>11, <1>12 DEF Next

-----------------------------------------------------------------------------
(* Who touches what.                                                       *)

\* The handlers' variables and what the device has change only in a step of
\* the watcher's or of a client's.
LEMMA OnlyTheseMoveHandlers ==
  ASSUME [Next]_vars
  PROVE  \/ Watching
         \/ \E c \in Clients : Peer(c) \/ Handler(c) \/ Leave(c)
         \/ UNCHANGED <<pc, batch, sent, hold, line, fresh, open, wire, astray, stale>>
  BY DEF Next, vars, deviceVars, watcherVars, portVars, handlerVars,
     endVars, wireVars, Cable, Plug, Unplug, Speaking, FanOut, Timers, Tick,
     GraceEnds, Release, TakeBack, RunCancelled, Ending, Released, Close,
     ServerClosed, CloseReturns

\* Where the watcher is, and who is ending it, changes only in a step of the
\* watcher's or of theirs.
LEMMA OnlyTheseMoveTheWatcher ==
  ASSUME [Next]_vars
  PROVE  \/ Watching \/ Release \/ TakeBack \/ RunCancelled \/ Ending
         \/ UNCHANGED <<open, watcher, kept, handover, closing>>
<1> USE DEF deviceVars, watcherVars, portVars, handlerVars, endVars, wireVars
<1>1. ASSUME NEW c \in Clients, Peer(c) \/ Handler(c) \/ Leave(c)
      PROVE  UNCHANGED <<open, watcher, kept, handover, closing>>
  BY <1>1 DEF Peer, Accept, HangUp, Read, Room, Handler, Begin, ToDevice,
     WriteFails, Write, Leave
<1>2. ASSUME Cable \/ Speaking \/ Timers
      PROVE  UNCHANGED <<open, watcher, kept, handover, closing>>
  BY <1>2 DEF Cable, Plug, Unplug, Speaking, FanOut, Timers, Tick, GraceEnds
<1> QED BY <1>1, <1>2 DEF Next, vars

-----------------------------------------------------------------------------
(* The steps, part by part.                                                *)

\* The watcher, the device it opens and the two that end it stay in agreement
\* (station.py, _watch, _stop_watching, released, close).
LEMMA WatcherStep ==
  ASSUME TypeOK, WatcherOpens, WatcherKept, ReleasedMeansClosed, [Next]_vars
  PROVE  WatcherOpens' /\ WatcherKept' /\ ReleasedMeansClosed'
<1> USE DEF deviceVars, watcherVars, portVars, handlerVars, endVars, wireVars
<1> DEFINE All == WatcherOpens /\ WatcherKept /\ ReleasedMeansClosed
<1>1. CASE Watching
  <2>1. UNCHANGED <<kept, handover, closing>>
    BY <1>1 DEF Watching, Open, OpenFails, SessionEnds, WatcherEnds
  <2>2. \/ Tries /\ watcher' = "mirroring"
        \/ Tries /\ watcher' = "sleeping" /\ open' = open
        \/ watcher = "mirroring" /\ watcher' = "sleeping" /\ open' = None
        \/ watcher = "cancelled" /\ watcher' = "none" /\ open' = None
    BY <1>1 DEF Watching, Open, OpenFails, SessionEnds, WatcherEnds, EndSession, LetGo
  <2> QED BY <2>1, <2>2 DEF WatcherOpens, WatcherKept, ReleasedMeansClosed, Tries, TypeOK
<1>2. CASE Release
  BY <1>2 DEF WatcherOpens, WatcherKept, ReleasedMeansClosed, TypeOK, ClosingAt, HandoverAt,
     Release, StopWatching
<1>3. CASE TakeBack
  BY <1>3 DEF WatcherOpens, WatcherKept, ReleasedMeansClosed, TypeOK, ClosingAt, HandoverAt,
     TakeBack, Closed
<1>4. CASE RunCancelled
  BY <1>4 DEF WatcherOpens, WatcherKept, ReleasedMeansClosed, TypeOK, RunCancelled
<1>5. CASE Ending
  BY <1>5 DEF WatcherOpens, WatcherKept, ReleasedMeansClosed, TypeOK, ClosingAt, HandoverAt,
     Ending, Released, Close, ServerClosed, CloseReturns, StopWatching
<1>6. CASE UNCHANGED <<open, watcher, kept, handover, closing>>
  BY <1>6 DEF WatcherOpens, WatcherKept, ReleasedMeansClosed
<1> QED BY <1>1, <1>2, <1>3, <1>4, <1>5, <1>6, OnlyTheseMoveTheWatcher

\* A message in hand stays counted until it is written or dropped.
LEMMA BatchStep ==
  ASSUME TypeOK, BatchPending, [Next]_vars
  PROVE  BatchPending'
<1> USE DEF deviceVars, watcherVars, portVars, handlerVars, endVars, wireVars
<1>1. CASE Watching
  BY <1>1 DEF BatchPending, Pending, Working, TypeOK, Watching, Open, OpenFails, SessionEnds,
     WatcherEnds, EndSession, LetGo
<1>2. ASSUME NEW c \in Clients, Peer(c) PROVE BatchPending'
  BY <1>2 DEF BatchPending, Pending, Working, TypeOK, Peer, Accept, HangUp, Read, Room
<1>3. ASSUME NEW c \in Clients, HasTurn(c), EndMessage(c) PROVE BatchPending'
  <2>1. /\ pc' = [pc EXCEPT ![c] = IF batch[c] = 1 THEN "reading" ELSE "handling"]
        /\ batch' = [batch EXCEPT ![c] = @ - 1]
        /\ batch[c] >= 1
    BY <1>3 DEF EndMessage, HasTurn, BatchPending, Pending, Working
  <2> QED BY <2>1 DEF BatchPending, Pending, Working, TypeOK
<1>4. ASSUME NEW c \in Clients, Handler(c) PROVE BatchPending'
  <2>1. CASE Begin(c)
    BY <2>1 DEF Begin, BatchPending, Pending, Working, TypeOK
  <2>2. CASE ToDevice(c)
    BY <2>2 DEF ToDevice, BatchPending, Pending, Working, TypeOK
  <2>3. CASE WriteFails(c)
    BY <2>3, <1>3 DEF WriteFails
  <2>4. ASSUME NEW to \in 0..Pieces, Write(c, to) PROVE BatchPending'
    <3>1. CASE to = Pieces
      BY <2>4, <3>1, <1>3 DEF Write
    <3>2. CASE to # Pieces
      BY <2>4, <3>2 DEF Write, HasTurn, BatchPending, Pending, Working, TypeOK
    <3> QED BY <3>1, <3>2
  <2> QED BY <1>4, <2>1, <2>2, <2>3, <2>4 DEF Handler
<1>5. ASSUME NEW c \in Clients, Leave(c) PROVE BatchPending'
  BY <1>5 DEF BatchPending, Pending, Working, TypeOK, Leave
<1>6. CASE UNCHANGED <<pc, batch>>
  BY <1>6 DEF BatchPending, Pending, Working
<1> QED BY <1>1, <1>2, <1>4, <1>5, <1>6, OnlyTheseMoveHandlers

\* Every step leaves the lines at the locks right (Device.write's lock).
LEMMA LineStep ==
  ASSUME TypeOK, LockLine, [Next]_vars
  PROVE  LockLine'
<1> USE DEF deviceVars, watcherVars, portVars, handlerVars, endVars, wireVars
<1> DEFINE Kept == \A b \in Clients : /\ Working(b)' = Working(b)
                                      /\ pc[b] = "queued" =>
                                           pc'[b] = "queued" \/ line[hold[b]][1] = b
<1>1. CASE Watching
  <2>1. line' = line /\ hold' = hold
    BY <1>1 DEF Watching, Open, OpenFails, SessionEnds, WatcherEnds
  <2>2. Kept
    BY <1>1 DEF TypeOK, Working, Watching, Open, OpenFails, SessionEnds, WatcherEnds,
       EndSession, LetGo
  <2> QED BY <2>1, <2>2, LineUntouched
<1>2. ASSUME NEW c \in Clients, Peer(c) \/ Leave(c) PROVE LockLine'
  <2>1. line' = line /\ hold' = hold
    BY <1>2 DEF Peer, Accept, HangUp, Read, Room, Leave
  <2>2. Kept
    BY <1>2 DEF TypeOK, Working, Peer, Accept, HangUp, Read, Room, Leave
  <2> QED BY <2>1, <2>2, LineUntouched
<1>3. ASSUME NEW c \in Clients, Handler(c) PROVE LockLine'
  <2>1. CASE Begin(c)
    <3>1. line' = line /\ hold' = hold /\ Kept
      BY <2>1 DEF TypeOK, Working, Begin
    <3> QED BY <3>1, LineUntouched
  <2>2. CASE ToDevice(c)
    <3>1. CASE open = None
      <4>1. line' = line /\ hold' = hold /\ Kept
        BY <2>2, <3>1 DEF TypeOK, Working, ToDevice
      <4> QED BY <4>1, LineUntouched
    <3>2. CASE open # None
      <4>1. /\ hold' = [hold EXCEPT ![c] = open]
            /\ line' = [line EXCEPT ![open] = Append(@, c)]
            /\ pc' = [pc EXCEPT ![c] = "queued"]
            /\ ~Working(c) /\ open \in Devices
        BY <2>2, <3>2 DEF ToDevice, Working, TypeOK
      <4> QED BY <4>1, JoinsLine
    <3> QED BY <3>1, <3>2
  <2>3. CASE WriteFails(c)
    BY <2>3, EndMessageLine DEF WriteFails
  <2>4. ASSUME NEW to \in 0..Pieces, Write(c, to) PROVE LockLine'
    <3>1. CASE to = Pieces
      BY <2>4, <3>1, EndMessageLine DEF Write
    <3>2. CASE to # Pieces
      <4>1. HasTurn(c) /\ line' = line /\ hold' = hold /\ pc' = [pc EXCEPT ![c] = "parked"]
        BY <2>4, <3>2 DEF Write
      <4>2. Working(c) /\ line[hold[c]][1] = c
        BY <4>1, TurnIsHead DEF HasTurn, Working
      <4>3. Kept
        BY <4>1, <4>2 DEF TypeOK, Working
      <4> QED BY <4>1, <4>3, LineUntouched
    <3> QED BY <3>1, <3>2
  <2> QED BY <1>3, <2>1, <2>2, <2>3, <2>4 DEF Handler
<1>4. CASE UNCHANGED <<pc, hold, line>>
  BY <1>4, LineUntouched DEF Working
<1> QED BY <1>1, <1>2, <1>3, <1>4, OnlyTheseMoveHandlers

\* `_clients` goes on counting the handlers (station.py, _client, _fan_out).
LEMMA CountStep ==
  ASSUME TypeOK, CountsItsHandlers, [Next]_vars
  PROVE  CountsItsHandlers'
<1> USE DEF deviceVars, watcherVars, portVars, handlerVars, endVars, wireVars
<1>1. ASSUME UNCHANGED <<clients, behind>>,
             \A c \in Clients : pc'[c] \in {"out", "arriving"} <=> pc[c] \in {"out", "arriving"}
      PROVE  CountsItsHandlers'
  BY <1>1 DEF CountsItsHandlers
<1>2. CASE Watching
  BY <1>1, <1>2 DEF TypeOK, Watching, Open, OpenFails, SessionEnds, WatcherEnds, EndSession, LetGo
<1>3. CASE Speaking
  BY <1>3 DEF CountsItsHandlers, Speaking, FanOut
<1>4. ASSUME NEW c \in Clients, Peer(c) PROVE CountsItsHandlers'
  BY <1>1, <1>4 DEF TypeOK, Peer, Accept, HangUp, Read, Room
<1>5. ASSUME NEW c \in Clients, Handler(c) PROVE CountsItsHandlers'
  <2>1. CASE Begin(c)
    BY <2>1 DEF CountsItsHandlers, TypeOK, Begin
  <2>2. CASE ToDevice(c)
    BY <1>1, <2>2 DEF TypeOK, ToDevice
  <2>3. ASSUME HasTurn(c), EndMessage(c), UNCHANGED <<clients, behind>>
        PROVE  CountsItsHandlers'
    <3>1. /\ pc' = [pc EXCEPT ![c] = IF batch[c] = 1 THEN "reading" ELSE "handling"]
          /\ pc[c] \notin {"out", "arriving"}
      BY <2>3 DEF EndMessage, HasTurn
    <3> QED BY <1>1, <2>3, <3>1 DEF TypeOK
  <2>4. CASE WriteFails(c)
    BY <2>3, <2>4 DEF WriteFails
  <2>5. ASSUME NEW to \in 0..Pieces, Write(c, to) PROVE CountsItsHandlers'
    <3>1. CASE to = Pieces
      BY <2>3, <2>5, <3>1 DEF Write
    <3>2. CASE to # Pieces
      BY <1>1, <2>5, <3>2 DEF TypeOK, Write, HasTurn
    <3> QED BY <3>1, <3>2
  <2> QED BY <1>5, <2>1, <2>2, <2>4, <2>5 DEF Handler
<1>6. ASSUME NEW c \in Clients, Leave(c) PROVE CountsItsHandlers'
  BY <1>6 DEF CountsItsHandlers, TypeOK, Leave
<1>7. CASE UNCHANGED <<clients, behind, pc>>
  BY <1>7 DEF CountsItsHandlers
<1>8. ASSUME Cable \/ Timers \/ Release \/ TakeBack \/ RunCancelled \/ Ending
      PROVE  UNCHANGED <<clients, behind, pc>>
  BY <1>8 DEF Cable, Plug, Unplug, Timers, Tick, GraceEnds, Release, TakeBack,
     RunCancelled, Ending, Released, Close, ServerClosed, CloseReturns
<1> QED BY <1>2, <1>3, <1>4, <1>5, <1>6, <1>7, <1>8 DEF Next, vars

\* No step leaves a client in an outage without its grace (_start_grace).
LEMMA DeadlineStep ==
  ASSUME TypeOK, CountsItsHandlers, OutageHasADeadline, [Next]_vars
  PROVE  OutageHasADeadline'
<1> USE DEF deviceVars, watcherVars, portVars, handlerVars, endVars, wireVars
<1> USE DEF OutageHasADeadline, Attached
<1>1. CASE Watching
  <2>1. ASSUME NEW d \in Devices, Open(d) PROVE OutageHasADeadline'
    BY <2>1, ConstantsAssumption DEF Open, StopGrace
  <2>2. CASE OpenFails
    BY <2>2 DEF OpenFails
  <2>3. ASSUME EndSession, UNCHANGED <<clients, sock, closing>> PROVE OutageHasADeadline'
    BY <2>3, GraceIsANumber DEF EndSession, LetGo, StartGrace
  <2>4. CASE SessionEnds
    BY <2>3, <2>4 DEF SessionEnds
  <2>5. CASE WatcherEnds
    <3>1. CASE open # None
      BY <2>3, <2>5, <3>1 DEF WatcherEnds
    <3>2. CASE open = None
      BY <2>5, <3>2 DEF WatcherEnds
    <3> QED BY <3>1, <3>2
  <2> QED BY <1>1, <2>1, <2>2, <2>4, <2>5 DEF Watching
<1>2. CASE Speaking
  BY <1>2 DEF Speaking, FanOut
<1>3. CASE Timers
  <2>1. CASE Tick
    BY <2>1, GraceIsANumber DEF Tick, TypeOK
  <2>2. CASE GraceEnds
    <3>1. \A c \in clients : sock'[c] = "lost"
      BY <2>2 DEF GraceEnds, Abort, TypeOK
    <3> QED BY <2>2, <3>1 DEF GraceEnds
  <2> QED BY <1>3, <2>1, <2>2 DEF Timers
<1>4. ASSUME NEW c \in Clients, Peer(c) PROVE OutageHasADeadline'
  BY <1>4 DEF CountsItsHandlers, TypeOK, Peer, Accept, HangUp, Read, Room
<1>5. ASSUME NEW c \in Clients, Handler(c) PROVE OutageHasADeadline'
  <2>1. CASE Begin(c)
    BY <2>1, GraceIsANumber DEF Begin, StartGrace
  <2>2. ASSUME UNCHANGED <<open, closing, clients, sock, grace>> PROVE OutageHasADeadline'
    BY <2>2
  <2> QED BY <1>5, <2>1, <2>2 DEF Handler, ToDevice, WriteFails, Write
<1>6. ASSUME NEW c \in Clients, Leave(c) PROVE OutageHasADeadline'
  BY <1>6 DEF TypeOK, Leave
<1>7. CASE Ending
  <2>1. CASE Close
    BY <2>1 DEF TypeOK, Close, Abort
  <2>2. CASE ServerClosed
    BY <2>2 DEF ServerClosed, StopGrace
  <2> QED BY <1>7, <2>1, <2>2 DEF Ending, Released, CloseReturns, StopGrace
<1>8. ASSUME Cable \/ Release \/ TakeBack \/ RunCancelled \/ UNCHANGED vars
      PROVE  OutageHasADeadline'
  BY <1>8 DEF Cable, Plug, Unplug, Release, TakeBack, RunCancelled, vars
<1> QED BY <1>1, <1>2, <1>3, <1>4, <1>5, <1>6, <1>7, <1>8 DEF Next

\* Nobody is at a Device when the watcher is about to open one.
LEMMA NobodyThere ==
  ASSUME TypeOK, LockLine, SessionsAreFresh, Tries
  PROVE  \A d \in Devices : line[d] = <<>>
<1>1. ASSUME NEW d \in Devices, line[d] # <<>> PROVE FALSE
  <2>1. line[d] \in Seq(Clients) /\ 1 \in 1..Len(line[d]) /\ line[d][1] \in Clients
    BY <1>1 DEF TypeOK
  <2>2. Working(line[d][1])
    BY <2>1 DEF LockLine
  <2> QED BY <2>1, <2>2 DEF SessionsAreFresh, Pending
<1> QED BY <1>1

\* No step leaves a write parked on a device that is closed (Device.let_go).
LEMMA ParkedStep ==
  ASSUME TypeOK, LockLine, NothingParkedOnGone, SessionsAreFresh, [Next]_vars
  PROVE  NothingParkedOnGone'
<1> USE DEF deviceVars, watcherVars, portVars, handlerVars, endVars, wireVars
<1> USE DEF NothingParkedOnGone
<1>1. CASE Watching
  <2>1. ASSUME NEW d \in Devices, Open(d) PROVE NothingParkedOnGone'
    BY <2>1 DEF Open, SessionsAreFresh, Pending, Working
  <2>2. CASE OpenFails
    BY <2>2 DEF OpenFails
  <2>3. ASSUME LetGo PROVE \A c \in Clients : pc'[c] # "parked"
    BY <2>3 DEF LetGo, TypeOK
  <2>4. CASE SessionEnds
    BY <2>3, <2>4 DEF SessionEnds, EndSession
  <2>5. CASE WatcherEnds
    BY <2>3, <2>5 DEF WatcherEnds, EndSession
  <2> QED BY <1>1, <2>1, <2>2, <2>4, <2>5 DEF Watching
<1>2. ASSUME NEW c \in Clients, Peer(c) \/ Leave(c) PROVE NothingParkedOnGone'
  BY <1>2 DEF TypeOK, Peer, Accept, HangUp, Read, Room, Leave
<1>3. ASSUME NEW c \in Clients, Handler(c) PROVE NothingParkedOnGone'
  <2>1. CASE Begin(c)
    BY <2>1 DEF Begin, TypeOK
  <2>2. CASE ToDevice(c)
    BY <2>2 DEF ToDevice, TypeOK
  <2>3. ASSUME EndMessage(c), open' = open PROVE NothingParkedOnGone'
    <3>1. /\ pc' = [pc EXCEPT ![c] = IF batch[c] = 1 THEN "reading" ELSE "handling"]
          /\ hold' = [hold EXCEPT ![c] = None]
      BY <2>3 DEF EndMessage
    <3> QED BY <2>3, <3>1 DEF TypeOK
  <2>4. CASE WriteFails(c)
    BY <2>3, <2>4 DEF WriteFails
  <2>5. ASSUME NEW to \in 0..Pieces, Write(c, to) PROVE NothingParkedOnGone'
    <3>1. CASE to = Pieces
      BY <2>3, <2>5, <3>1 DEF Write
    <3>2. CASE to # Pieces
      BY <2>5, <3>2 DEF Write, StillOurs, TypeOK
    <3> QED BY <3>1, <3>2
  <2> QED BY <1>3, <2>1, <2>2, <2>4, <2>5 DEF Handler
<1>4. CASE UNCHANGED <<pc, hold, open>>
  BY <1>4
<1> QED BY <1>1, <1>2, <1>3, <1>4, OnlyTheseMoveHandlers

\* Nothing in hand outlives the session it was read in up to the next one.
LEMMA FreshStep ==
  ASSUME TypeOK, LockLine, WatcherOpens, ReleasedMeansClosed, NothingParkedOnGone,
         SessionsAreFresh, NothingStale, NothingAstray, [Next]_vars
  PROVE  SessionsAreFresh' /\ NothingStale' /\ NothingAstray'
<1> USE DEF deviceVars, watcherVars, portVars, handlerVars, endVars, wireVars
<1> DEFINE Idle == \A c \in Clients : ~Pending(c)
<1>1. ASSUME Quiet, open = None PROVE Idle
  <2>1. ASSUME NEW c \in Clients, Working(c) PROVE FALSE
    <3>1. hold[c] \in Devices /\ line[hold[c]] \in Seq(Clients) /\ line[hold[c]] # <<>>
      BY <2>1 DEF LockLine, TypeOK
    <3> DEFINE h == line[hold[c]][1]
    <3>2. h \in Clients /\ 1 \in 1..Len(line[hold[c]]) /\ h = Head(line[hold[c]])
      BY <3>1
    <3>3. hold[h] = hold[c] /\ Working(h)
      BY <3>1, <3>2 DEF LockLine
    <3>4. pc[h] # "parked"
      BY <1>1, <3>1, <3>2, <3>3, ConstantsAssumption DEF NothingParkedOnGone
    <3>5. Ready(h)
      BY <3>2, <3>3, <3>4 DEF Ready, Working
    <3> QED BY <1>1, <3>2, <3>5 DEF Quiet
  <2> QED BY <1>1, <2>1 DEF Quiet, Ready, Pending
<1>2. CASE Watching
  <2>1. UNCHANGED <<astray, stale>>
    BY <1>2 DEF Watching, Open, OpenFails, SessionEnds, WatcherEnds
  <2>2. ASSUME NEW d \in Devices, Open(d) PROVE SessionsAreFresh'
    <3>1. pc' = pc /\ ~Tries' /\ Idle
      BY <2>2 DEF Open, SessionsAreFresh, Tries
    <3> QED BY <3>1 DEF SessionsAreFresh, Pending, Working
  <2>3. ASSUME OpenFails PROVE SessionsAreFresh'
    <3>1. open' = open /\ pc' = pc /\ Idle
      BY <2>3 DEF OpenFails, SessionsAreFresh
    <3>2. ~Tries'
      BY <2>3, ConstantsAssumption DEF OpenFails, Tries, TypeOK
    <3> QED BY <3>1, <3>2 DEF SessionsAreFresh, Pending, Working
  <2>4. ASSUME SessionEnds PROVE SessionsAreFresh'
    <3>1. open' = None
      BY <2>4 DEF SessionEnds, EndSession, LetGo
    <3>2. watcher' = "sleeping" /\ sleep' >= 1
      BY <2>4, ConstantsAssumption DEF SessionEnds, TypeOK
    <3>3. ~Tries'
      BY <3>2, ConstantsAssumption DEF Tries
    <3> QED BY <3>1, <3>3 DEF SessionsAreFresh
  <2>5. ASSUME WatcherEnds PROVE SessionsAreFresh'
    <3>1. open' = None
      BY <2>5 DEF WatcherEnds, EndSession, LetGo
    <3>2. watcher' = "none"
      BY <2>5 DEF WatcherEnds
    <3> QED BY <3>1, <3>2 DEF SessionsAreFresh, Tries
  <2> QED BY <1>2, <2>1, <2>2, <2>3, <2>4, <2>5 DEF Watching, NothingStale, NothingAstray
<1>3. ASSUME NEW c \in Clients, Peer(c) \/ Leave(c)
      PROVE  SessionsAreFresh' /\ UNCHANGED <<astray, stale>>
  <2>1. UNCHANGED <<watcher, sleep, open, astray, stale>>
    BY <1>3 DEF Peer, Accept, HangUp, Read, Room, Leave
  <2>2. Tries => open = None
    BY DEF Tries, WatcherOpens
  <2>3. ASSUME NEW b \in Clients PROVE Pending(b)' => (Pending(b) /\ fresh'[b] = fresh[b])
                                                  \/ (open # None /\ fresh'[b])
    BY <1>3 DEF Peer, Accept, HangUp, Read, Room, Leave, Pending, Working, TypeOK
  <2> QED BY <2>1, <2>2, <2>3 DEF SessionsAreFresh, Tries
<1>4. ASSUME NEW c \in Clients, Handler(c)
      PROVE  SessionsAreFresh' /\ NothingStale' /\ NothingAstray'
  <2>1. UNCHANGED <<watcher, sleep, open, fresh>>
    BY <1>4 DEF Handler, Begin, ToDevice, WriteFails, Write
  <2>2. \A b \in Clients : Pending(b)' => Pending(b)
    <3>1. CASE Begin(c)
      BY <3>1 DEF Begin, Pending, Working, TypeOK
    <3>2. CASE ToDevice(c)
      BY <3>2 DEF ToDevice, Pending, Working, TypeOK
    <3>3. ASSUME HasTurn(c), \/ EndMessage(c)
                             \/ pc' = [pc EXCEPT ![c] = "parked"]
          PROVE  \A b \in Clients : Pending(b)' => Pending(b)
      <4>1. Working(c) /\ \A b \in Clients \ {c} : pc'[b] = pc[b]
        BY <3>3 DEF EndMessage, HasTurn, Working, TypeOK
      <4> QED BY <4>1 DEF Pending, Working
    <3> QED BY <1>4, <3>1, <3>2, <3>3 DEF Handler, WriteFails, Write
  <2>3. SessionsAreFresh'
    BY <2>1, <2>2 DEF SessionsAreFresh, Tries
  <2>4. ASSUME NEW to \in 0..Pieces, Write(c, to) PROVE NothingStale' /\ NothingAstray'
    <3>1. HasTurn(c) /\ hold[c] = open
      BY <2>4 DEF Write, StillOurs
    <3>2. open # None
      BY <3>1, TurnIsHead, ConstantsAssumption
    <3>3. fresh[c]
      BY <3>1, <3>2 DEF SessionsAreFresh, Pending, Working, HasTurn
    <3> QED BY <2>4, <3>1, <3>3 DEF Write, NothingStale, NothingAstray
  <2>5. ASSUME Begin(c) \/ ToDevice(c) \/ WriteFails(c) PROVE NothingStale' /\ NothingAstray'
    <3>1. UNCHANGED <<astray, stale>>
      BY <2>5 DEF Begin, ToDevice, WriteFails
    <3> QED BY <3>1 DEF NothingStale, NothingAstray
  <2> QED BY <1>4, <2>3, <2>4, <2>5 DEF Handler
<1>5. CASE Tick
  <2>1. UNCHANGED <<open, pc, fresh, watcher, astray, stale>> /\ Quiet
    BY <1>5 DEF Tick
  <2>2. ASSUME Tries' PROVE Idle
    BY <2>1, <2>2, <1>1 DEF Tries, WatcherOpens
  <2> QED BY <2>1, <2>2 DEF SessionsAreFresh, Pending, Working, NothingStale, NothingAstray
<1>6. CASE TakeBack
  <2>1. UNCHANGED <<open, pc, fresh, astray, stale>> /\ Quiet
    BY <1>6 DEF TakeBack
  <2>2. CASE Closed
    BY <1>6, <2>1, <2>2 DEF TakeBack, SessionsAreFresh, Pending, Working, Tries,
       NothingStale, NothingAstray
  <2>3. CASE ~Closed
    <3>1. open = None
      BY <1>6, <2>3 DEF TakeBack, Closed, ReleasedMeansClosed
    <3> QED BY <1>1, <2>1, <3>1 DEF SessionsAreFresh, Pending, Working, NothingStale, NothingAstray
  <2> QED BY <2>2, <2>3
<1>7. ASSUME Cable \/ Speaking \/ GraceEnds \/ Release \/ RunCancelled \/ Ending
             \/ UNCHANGED vars
      PROVE  SessionsAreFresh' /\ NothingStale' /\ NothingAstray'
  <2>1. UNCHANGED <<open, pc, fresh, astray, stale>>
    BY <1>7 DEF Cable, Plug, Unplug, Speaking, FanOut, GraceEnds, Release, RunCancelled,
       Ending, Released, Close, ServerClosed, CloseReturns, vars
  <2>2. Tries' => Tries
    BY <1>7 DEF Cable, Plug, Unplug, Speaking, FanOut, GraceEnds, Release, StopWatching,
       RunCancelled, Ending, Released, Close, ServerClosed, CloseReturns, vars, Tries
  <2> QED BY <2>1, <2>2 DEF SessionsAreFresh, Pending, Working, NothingStale, NothingAstray
<1>8. ASSUME UNCHANGED <<astray, stale>> PROVE NothingStale' /\ NothingAstray'
  BY <1>8 DEF NothingStale, NothingAstray
<1> QED BY <1>2, <1>3, <1>4, <1>5, <1>6, <1>7, <1>8 DEF Next, Timers

\* The start of a message short of its end is what WholeMessages allows.
LEMMA StartIsWhole ==
  ASSUME NEW c \in Clients, NEW n \in 0..(Pieces - 1), wire' = Start(c, n)
  PROVE  WholeMessages'
<1>1. n \in 0..Pieces /\ n < Pieces
  BY ConstantsAssumption
<1>2. Len(wire') = n
  BY <1>1, StartIsPieces
<1> QED BY <1>1, <1>2 DEF WholeMessages, Start

\* What the device has of a message stays the start of one client's message.
LEMMA WireStep ==
  ASSUME TypeOK, LockLine, WatcherOpens, SessionsAreFresh, WireIsHeads, WholeMessages,
         [Next]_vars
  PROVE  WireIsHeads' /\ WholeMessages'
<1> USE DEF deviceVars, watcherVars, portVars, handlerVars, endVars, wireVars
<1> DEFINE Begun == \A b \in Clients : /\ sent[b] < Pieces
                                       /\ pc[b] \notin {"parked", "woken"} => sent[b] = 0
<1>1. ASSUME UNCHANGED <<open, hung, wire, line, sent>>, Begun'
      PROVE  WireIsHeads' /\ WholeMessages'
  BY <1>1 DEF WireIsHeads, WholeMessages
<1>2. CASE Cable
  BY <1>2 DEF Cable, Plug, Unplug, WireIsHeads, WholeMessages
<1>3. CASE Watching
  <2>1. sent' = sent /\ line' = line
    BY <1>3 DEF Watching, Open, OpenFails, SessionEnds, WatcherEnds
  <2>2. Begun'
    BY <1>3 DEF WireIsHeads, TypeOK, Watching, Open, OpenFails, SessionEnds, WatcherEnds,
       EndSession, LetGo
  <2>3. ASSUME NEW d \in Devices, Open(d) PROVE WireIsHeads' /\ WholeMessages'
    <3>1. wire' = <<>> /\ open' = d
      BY <2>3 DEF Open, Tries, WatcherOpens, WireIsHeads
    <3>2. line'[d] = <<>>
      BY <2>1, <2>3, NobodyThere DEF Open
    <3> QED BY <2>2, <3>1, <3>2, ConstantsAssumption DEF WireIsHeads, WholeMessages
  <2>4. CASE OpenFails
    BY <1>1, <2>1, <2>2, <2>4 DEF OpenFails
  <2>5. ASSUME EndSession PROVE WireIsHeads' /\ WholeMessages'
    <3>1. open' = None /\ wire' = <<>>
      BY <2>5 DEF EndSession, LetGo
    <3> QED BY <2>2, <3>1 DEF WireIsHeads, WholeMessages
  <2>6. CASE SessionEnds
    BY <2>5, <2>6 DEF SessionEnds
  <2>7. CASE WatcherEnds
    <3>1. CASE open = None
      BY <1>1, <2>1, <2>2, <2>7, <3>1 DEF WatcherEnds
    <3>2. CASE open # None
      BY <2>5, <2>7, <3>2 DEF WatcherEnds
    <3> QED BY <3>1, <3>2
  <2> QED BY <1>3, <2>3, <2>4, <2>6, <2>7 DEF Watching
<1>4. ASSUME NEW c \in Clients, Peer(c) \/ Leave(c) PROVE WireIsHeads' /\ WholeMessages'
  <2>1. UNCHANGED <<open, hung, wire, line, sent>>
    BY <1>4 DEF Peer, Accept, HangUp, Read, Room, Leave
  <2>2. Begun'
    BY <1>4, <2>1 DEF WireIsHeads, TypeOK, Peer, Accept, HangUp, Read, Room, Leave
  <2> QED BY <1>1, <2>1, <2>2
<1>5. ASSUME NEW c \in Clients, Handler(c) PROVE WireIsHeads' /\ WholeMessages'
  <2>1. open' = open /\ hung' = hung
    BY <1>5 DEF Handler, Begin, ToDevice, WriteFails, Write
  <2>2. CASE Begin(c)
    <3>1. UNCHANGED <<wire, line, sent>> /\ Begun'
      BY <2>2 DEF Begin, WireIsHeads, TypeOK
    <3> QED BY <1>1, <2>1, <3>1
  <2>3. CASE ToDevice(c)
    <3>1. UNCHANGED <<wire, sent>> /\ Begun'
      BY <2>3 DEF ToDevice, WireIsHeads, TypeOK
    <3>2. CASE open = None
      BY <1>1, <2>1, <2>3, <3>1, <3>2 DEF ToDevice
    <3>3. CASE open # None
      <4>1. open \in Devices /\ line'[open] = Append(line[open], c) /\ line[open] \in Seq(Clients)
        BY <2>3, <3>3 DEF ToDevice, TypeOK
      <4>2. sent[c] = 0
        BY <2>3 DEF ToDevice, WireIsHeads
      <4>3. line'[open] # <<>>
            /\ line'[open][1] = IF line[open] = <<>> THEN c ELSE line[open][1]
        BY <4>1
      <4>4. Start(c, 0) = <<>>
        BY DEF Start
      <4>5. ~hung => wire = Start(line'[open][1], sent[line'[open][1]])
        BY <3>3, <4>2, <4>3, <4>4 DEF WireIsHeads
      <4> QED BY <2>1, <3>1, <3>3, <4>3, <4>5 DEF WireIsHeads, WholeMessages
    <3> QED BY <3>2, <3>3
  <2>4. ASSUME HasTurn(c), EndMessage(c)
        PROVE  /\ Begun' /\ line[hold[c]][1] = c
               /\ sent' = [sent EXCEPT ![c] = 0]
               /\ line' = [line EXCEPT ![hold[c]] = Tail(@)]
    <3>1. /\ sent' = [sent EXCEPT ![c] = 0]
          /\ line' = [line EXCEPT ![hold[c]] = Tail(@)]
          /\ \A b \in Clients \ {c} : pc'[b] = pc[b]
      BY <2>4 DEF EndMessage, TypeOK
    <3>2. sent'[c] = 0 /\ 0 < Pieces /\ \A b \in Clients \ {c} : sent'[b] = sent[b]
      BY <3>1, ConstantsAssumption DEF TypeOK
    <3>3. Begun'
      BY <3>1, <3>2 DEF WireIsHeads
    <3> QED BY <2>4, <3>1, <3>3, TurnIsHead
  <2>5. CASE WriteFails(c)
    <3>1. HasTurn(c) /\ EndMessage(c) /\ (hold[c] # open \/ hung) /\ wire' = wire
      BY <2>5 DEF WriteFails, StillOurs
    <3>2. CASE hung
      BY <2>1, <2>4, <3>1, <3>2 DEF WireIsHeads, WholeMessages
    <3>3. CASE hold[c] # open /\ open # None
      <4>1. open \in Devices /\ line'[open] = line[open]
        BY <2>4, <3>1, <3>3 DEF TypeOK
      <4>2. line[open] # <<>> => line[open][1] # c /\ line[open][1] \in Clients
        <5>1. SUFFICES ASSUME line[open] # <<>>
                       PROVE  line[open][1] # c /\ line[open][1] \in Clients
          OBVIOUS
        <5>2. 1 \in 1..Len(line[open]) /\ line[open][1] \in Clients
          BY <4>1, <5>1 DEF TypeOK
        <5> QED BY <3>3, <4>1, <5>2 DEF LockLine
      <4>3. line[open] # <<>> => sent'[line[open][1]] = sent[line[open][1]]
        BY <2>4, <3>1, <4>2 DEF TypeOK
      <4> QED BY <2>1, <2>4, <3>1, <3>3, <4>1, <4>3 DEF WireIsHeads, WholeMessages
    <3>4. CASE open = None
      BY <2>1, <2>4, <3>1, <3>4 DEF WireIsHeads, WholeMessages
    <3> QED BY <3>1, <3>2, <3>3, <3>4
  <2>6. ASSUME NEW to \in 0..Pieces, Write(c, to) PROVE WireIsHeads' /\ WholeMessages'
    <3>1. /\ open \in Devices /\ hold[c] = open /\ line[open][1] = c
          /\ line[open] # <<>> /\ sent[c] \in 0..Pieces /\ to \in sent[c]..Pieces
          /\ wire' = IF to = Pieces THEN <<>> ELSE Start(c, to)
      BY <2>6, WriteContinues
    <3>2. HasTurn(c) /\ open # None
      BY <2>6, <3>1, ConstantsAssumption DEF Write
    <3>3. CASE to = Pieces
      <4>1. EndMessage(c) /\ wire' = <<>>
        BY <2>6, <3>1, <3>3 DEF Write
      <4>2. line'[open] = Tail(line[open]) /\ line[open] \in Seq(Clients)
        BY <2>4, <3>1, <3>2, <4>1 DEF TypeOK
      <4>3. line'[open] # <<>> =>
              /\ line'[open][1] \in Clients /\ sent'[line'[open][1]] = 0
        <5>1. SUFFICES ASSUME line'[open] # <<>>
                       PROVE  line'[open][1] \in Clients /\ sent'[line'[open][1]] = 0
          OBVIOUS
        <5>2. 2 \in 1..Len(line[open]) /\ line'[open][1] = line[open][2]
          BY <4>2, <5>1
        <5>3. line[open][2] \in Clients /\ pc[line[open][2]] = "queued"
          BY <3>1, <4>2, <5>2 DEF LockLine
        <5>4. sent[line[open][2]] = 0
          BY <5>3 DEF WireIsHeads
        <5> QED BY <2>4, <3>2, <4>1, <5>2, <5>3, <5>4 DEF TypeOK
      <4>4. \A b \in Clients : Start(b, 0) = <<>>
        BY DEF Start
      <4> QED BY <2>1, <2>4, <3>2, <4>1, <4>3, <4>4 DEF WireIsHeads, WholeMessages
    <3>4. CASE to # Pieces
      <4>1. /\ sent' = [sent EXCEPT ![c] = to] /\ pc' = [pc EXCEPT ![c] = "parked"]
            /\ line' = line /\ wire' = Start(c, to)
        BY <2>6, <3>1, <3>4 DEF Write
      <4>2. to \in 0..(Pieces - 1)
        BY <3>1, <3>4, ConstantsAssumption
      <4>3. sent'[c] = to /\ Begun'
        BY <4>1, <4>2, ConstantsAssumption DEF WireIsHeads, TypeOK
      <4>4. WholeMessages'
        BY <4>1, <4>2, StartIsWhole
      <4> QED BY <2>1, <3>1, <3>2, <4>1, <4>3, <4>4 DEF WireIsHeads
    <3> QED BY <3>3, <3>4
  <2> QED BY <1>5, <2>2, <2>3, <2>5, <2>6 DEF Handler
<1>6. ASSUME Speaking \/ Timers \/ Release \/ TakeBack \/ RunCancelled \/ Ending
             \/ UNCHANGED vars
      PROVE  WireIsHeads' /\ WholeMessages'
  <2>1. UNCHANGED <<open, hung, wire, line, sent, pc>>
    BY <1>6 DEF Speaking, FanOut, Timers, Tick, GraceEnds, Release, TakeBack, RunCancelled,
       Ending, Released, Close, ServerClosed, CloseReturns, vars
  <2> QED BY <1>1, <2>1 DEF WireIsHeads
<1> QED BY <1>2, <1>3, <1>4, <1>5, <1>6 DEF Next

-----------------------------------------------------------------------------
(* The invariant and what follows from it.                                 *)

\* The invariant holds of the station once it has started.
LEMMA InitHolds == Init => IInv
<1> SUFFICES ASSUME Init PROVE IInv
  OBVIOUS
<1>1. TypeOK
  BY TypeInit
<1>2. BatchPending /\ LockLine /\ CountsItsHandlers /\ SessionsAreFresh
  BY DEF Init, BatchPending, Pending, Working, LockLine, CountsItsHandlers, SessionsAreFresh
<1>3. WatcherOpens /\ WatcherKept /\ ReleasedMeansClosed
  BY DEF Init, WatcherOpens, WatcherKept, ReleasedMeansClosed
<1>4. OutageHasADeadline
  BY DEF Init, OutageHasADeadline
<1>5. WireIsHeads /\ WholeMessages
  BY ConstantsAssumption DEF Init, WireIsHeads, WholeMessages
<1>6. NothingParkedOnGone /\ NothingStale /\ NothingAstray
  BY DEF Init, NothingParkedOnGone, NothingStale, NothingAstray
<1> QED BY <1>1, <1>2, <1>3, <1>4, <1>5, <1>6 DEF IInv

\* The invariant is inductive.
LEMMA StepHolds == IInv /\ [Next]_vars => IInv'
<1> SUFFICES ASSUME IInv, [Next]_vars PROVE IInv'
  OBVIOUS
<1> USE DEF IInv
<1>1. TypeOK'
  BY TypeStep
<1>2. BatchPending' /\ LockLine' /\ CountsItsHandlers'
  BY BatchStep, LineStep, CountStep
<1>3. WatcherOpens' /\ WatcherKept' /\ ReleasedMeansClosed'
  BY WatcherStep
<1>4. OutageHasADeadline'
  BY DeadlineStep
<1>5. NothingParkedOnGone'
  BY ParkedStep
<1>6. WireIsHeads' /\ WholeMessages'
  BY WireStep
<1>7. SessionsAreFresh' /\ NothingStale' /\ NothingAstray'
  BY FreshStep
<1> QED BY <1>1, <1>2, <1>3, <1>4, <1>5, <1>6, <1>7

\* The invariant holds of everything the mirror can do: the lock's line, the
\* watcher and its enders, and what the device has all agree.
THEOREM Invariance == Spec => []IInv
  BY InitHolds, StepHolds, PTL DEF Spec

\* No client, backoff, lock or wire ever holds a value the code has no meaning
\* for, however many clients there are (station.py, Station.__init__).
THEOREM TypeCorrect == Spec => []TypeOK
<1>1. IInv => TypeOK
  BY DEF IInv
<1> QED BY <1>1, Invariance, PTL

\* Two clients never interleave a command at the device, however many there
\* are and however many writes a message takes (station.py:237, Device.write).
THEOREM CommandsStayWhole == Spec => []WholeMessages
<1>1. IInv => WholeMessages
  BY DEF IInv
<1> QED BY <1>1, Invariance, PTL

\* A piece is written in the session it was read in or not at all
\* (station.py:33).
THEOREM NothingLate == Spec => []NothingStale
<1>1. IInv => NothingStale
  BY DEF IInv
<1> QED BY <1>1, Invariance, PTL

\* A piece goes through the number the open Device has, and never into a
\* descriptor that has become another's (station.py:304).
THEOREM NothingElsewhere == Spec => []NothingAstray
<1>1. IInv => NothingAstray
  BY DEF IInv
<1> QED BY <1>1, Invariance, PTL

\* No write is left parked on a device that has been let go (station.py:299).
THEOREM NobodyLeftParked == Spec => []NothingParkedOnGone
<1>1. IInv => NothingParkedOnGone
  BY DEF IInv
<1> QED BY <1>1, Invariance, PTL

\* Every outage that has a client has a grace running, and no grace runs under
\* an open device, for any number of clients and any backoff (station.py:599).
THEOREM EveryOutageEnds == Spec => []OutageHasADeadline
<1>1. IInv => OutageHasADeadline
  BY DEF IInv
<1> QED BY <1>1, Invariance, PTL

\* A handover's block has the device to itself (station.py:451, released).
THEOREM HandoverIsAlone == Spec => []ReleasedMeansClosed
<1>1. IInv => ReleasedMeansClosed
  BY DEF IInv
<1> QED BY <1>1, Invariance, PTL

\* What `clients` counts is what has a handler (station.py:420).
THEOREM HandlersAreCounted == Spec => []CountsItsHandlers
<1>1. IInv => CountsItsHandlers
  BY DEF IInv
<1> QED BY <1>1, Invariance, PTL

\* Once the station is closed nothing starts the watching again: only a
\* TakeBack could, and it asks (station.py:474).
THEOREM ClosedForGood == Spec => ClosedStaysClosed
<1>1. ASSUME IInv, [Next]_vars
      PROVE  [Closed /\ watcher = "none" => watcher' = "none"]_vars
  <2> USE DEF deviceVars, watcherVars, portVars, handlerVars, endVars, wireVars
  <2> SUFFICES ASSUME Closed, watcher = "none" PROVE watcher' = "none"
    OBVIOUS
  <2>1. ~kept
    BY <1>1 DEF IInv, WatcherKept
  <2>2. CASE Watching
    BY <2>2 DEF Watching, Open, OpenFails, SessionEnds, WatcherEnds, Tries
  <2>3. CASE Release \/ TakeBack \/ RunCancelled \/ Ending
    BY <2>1, <2>3 DEF Release, TakeBack, RunCancelled, Ending, Released, Close, ServerClosed,
       CloseReturns
  <2> QED BY <1>1, <2>2, <2>3, OnlyTheseMoveTheWatcher
<1> QED BY <1>1, Invariance, PTL DEF Spec, ClosedStaysClosed

-----------------------------------------------------------------------------
(* The refinement of DeviceOwner.                                          *)

\* A step that leaves where the watcher is, and who ends it, is none of the
\* borrower's.
LEMMA NoneOfItsBusiness ==
  ASSUME UNCHANGED <<open, kept, handover, closing>>
  PROVE  UNCHANGED Owner!ownerVars
<1>1. /\ (open # None)' = (open # None) /\ Closed' = Closed
      /\ When(handover = "stopping")' = When(handover = "stopping")
      /\ When(handover = "block")' = When(handover = "block")
  BY DEF Closed, When
<1> QED BY <1>1 DEF Owner!ownerVars

\* Every step of the watcher's or of those that end it is one of the owner's.
LEMMA WatcherIsTheOwners ==
  ASSUME IInv, Watching \/ Release \/ TakeBack \/ RunCancelled \/ Ending
  PROVE  [Owner!OwnerNext]_(Owner!ownerVars)
<1> USE DEF deviceVars, watcherVars, portVars, handlerVars, endVars, wireVars
<1> DEFINE Asking == When(handover = "stopping")
           Using  == When(handover = "block")
<1>1. CASE Watching
  <2>1. UNCHANGED <<kept, handover, closing>>
    BY <1>1 DEF Watching, Open, OpenFails, SessionEnds, WatcherEnds
  <2>2. Asking' = Asking /\ Using' = Using /\ Closed' = Closed
    BY <2>1 DEF When, Closed
  <2>3. ASSUME NEW d \in Devices, Open(d) PROVE Owner!Take
    <3>1. kept /\ open = None
      BY <2>3 DEF Open, Tries, IInv, WatcherKept, WatcherOpens
    <3>2. open' # None
      BY <2>3, ConstantsAssumption DEF Open
    <3> QED BY <2>1, <2>2, <3>1, <3>2 DEF Owner!Take
  <2>4. CASE OpenFails
    BY <2>1, <2>4, NoneOfItsBusiness DEF OpenFails
  <2>5. ASSUME open' = None PROVE Owner!Lose \/ UNCHANGED Owner!ownerVars
    <3>1. CASE open = None
      BY <2>1, <2>5, <3>1, NoneOfItsBusiness
    <3>2. CASE open # None
      BY <2>1, <2>2, <2>5, <3>2 DEF Owner!Lose
    <3> QED BY <3>1, <3>2
  <2>6. CASE SessionEnds \/ WatcherEnds
    <3>1. open' = None
      BY <2>6 DEF SessionEnds, WatcherEnds, EndSession, LetGo
    <3> QED BY <2>5, <3>1 DEF Owner!OwnerNext
  <2> QED BY <1>1, <2>3, <2>4, <2>6 DEF Watching, Owner!OwnerNext
<1>2. CASE Release
  <2>1. open' = open /\ closing' = closing /\ handover = "no"
    BY <1>2 DEF Release
  <2>2. CASE kept
    <3>1. ~kept' /\ handover' = "stopping"
      BY <1>2, <2>2 DEF Release, StopWatching
    <3> QED BY <2>1, <2>2, <3>1 DEF When, Closed, Owner!OwnerNext, Owner!Ask
  <2>3. CASE ~kept
    <3>1. kept' = kept /\ handover' = "block"
      BY <1>2, <2>3 DEF Release
    <3> QED BY <2>1, <2>3, <3>1 DEF When, Closed, Owner!OwnerNext, Owner!Ask
  <2> QED BY <2>2, <2>3
<1>3. CASE TakeBack
  <2>1. open' = open /\ closing' = closing /\ handover = "block" /\ handover' = "no"
    BY <1>3 DEF TakeBack
  <2>2. kept' = (kept \/ ~Closed)
    BY <1>3 DEF TakeBack, IInv, TypeOK
  <2> QED BY <2>1, <2>2 DEF When, Closed, Owner!OwnerNext, Owner!Back
<1>4. CASE RunCancelled
  <2>1. UNCHANGED <<open, kept, handover>> /\ closing = "no" /\ closing' = "draining"
    BY <1>4 DEF RunCancelled
  <2> QED BY <2>1 DEF Closed, When, Owner!ownerVars
<1>5. CASE Ending
  <2>1. CASE Released
    <3>1. UNCHANGED <<open, kept, closing>> /\ open = None
          /\ handover = "stopping" /\ handover' = "block"
      BY <2>1 DEF Released, IInv, WatcherOpens
    <3> QED BY <3>1 DEF When, Closed, Owner!OwnerNext, Owner!Give
  <2>2. CASE Close
    <3>1. UNCHANGED <<open, kept, handover>> /\ ~Closed /\ Closed'
      BY <2>2 DEF Close, Closed
    <3> QED BY <3>1 DEF When, Owner!OwnerNext, Owner!End
  <2>3. CASE ServerClosed
    <3>1. UNCHANGED <<open, handover>> /\ Closed /\ Closed'
      BY <2>3 DEF ServerClosed, Closed
    <3>2. CASE kept
      <4>1. ~kept'
        BY <2>3, <3>2 DEF ServerClosed, StopWatching
      <4> QED BY <3>1, <3>2, <4>1 DEF When, Owner!OwnerNext, Owner!EndWatching
    <3>3. CASE ~kept
      <4>1. kept' = kept
        BY <2>3, <3>3 DEF ServerClosed
      <4> QED BY <3>1, <4>1 DEF When, Owner!ownerVars
    <3> QED BY <3>2, <3>3
  <2>4. CASE CloseReturns
    <3>1. UNCHANGED <<open, kept, handover>> /\ Closed /\ Closed'
      BY <2>4 DEF CloseReturns, Closed
    <3> QED BY <3>1 DEF When, Owner!ownerVars
  <2> QED BY <1>5, <2>1, <2>2, <2>3, <2>4 DEF Ending
<1> QED BY <1>1, <1>2, <1>3, <1>4, <1>5

\* What a flash is promised of the mirror's device holds of the mirror for
\* every number of clients, messages and backoffs (station.py:451, released).
THEOREM MirrorIsAnOwner == Spec => ImplementsOwner
<1>1. Init => Owner!OwnerInit
  BY DEF Init, Owner!OwnerInit, When, Closed
<1>2. ASSUME IInv, [Next]_vars PROVE [Owner!OwnerNext]_(Owner!ownerVars)
  BY <1>2, OnlyTheseMoveTheWatcher, NoneOfItsBusiness, WatcherIsTheOwners
<1> QED BY <1>1, <1>2, Invariance, PTL DEF Spec, ImplementsOwner, Owner!OwnerSpec
=============================================================================
