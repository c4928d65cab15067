---------------------------- MODULE Supply_proofs ----------------------------
(***************************************************************************)
(* What Supply publishes, hands the script and writes down agrees, of any  *)
(* districts and settings, and however much is on its way or goes wrong.   *)
(***************************************************************************)
EXTENDS Supply, FiniteSetTheorems, SequenceTheorems, TLAPS

-----------------------------------------------------------------------------
(* What the station says.                                                  *)

\* The order the districts are named in has each of them, and nothing else.
LEMMA InOrder ==
  /\ SetToSeq(Districts) \in Seq(Districts)
  /\ \A d \in Districts : \E i \in DOMAIN SetToSeq(Districts) : SetToSeq(Districts)[i] = d
<1> DEFINE n == Cardinality(Districts)
           s == SetToSeq(Districts)
<1>1. IsFiniteSet(Districts) /\ n \in Nat /\ ExistsBijection(1..n, Districts)
  BY SupplyAssumption, FS_CardinalityType
<1>2. \E f \in [1..n -> Districts] : IsInjective(f)
  BY <1>1 DEF ExistsBijection, Bijection, Injection
<1>3. s \in [1..n -> Districts] /\ IsInjective(s)
  BY <1>2 DEF SetToSeq
<1>4. s \in Injection(1..n, Districts)
  BY <1>3 DEF Injection
<1>5. IsFiniteSet(1..n) /\ Cardinality(1..n) = n
  BY <1>1, FS_Interval
<1>6. s \in Surjection(1..n, Districts)
  BY <1>1, <1>4, <1>5, FS_Injection
<1>7. s \in Seq(Districts) /\ DOMAIN s = 1..n
  BY <1>1, <1>3
<1> QED BY <1>6, <1>7 DEF Surjection

\* A line of each district, that says what it is.
LEMMA DigitsAre ==
  ASSUME NEW p
  PROVE  /\ Digits(p) \in Seq(Lines)
         /\ \A i \in DOMAIN Digits(p) :
              /\ Digits(p)[i].kind = "power" /\ Digits(p)[i].of \in Districts
              /\ Digits(p)[i].says = (p[Digits(p)[i].of] = "on")
         /\ \A d \in Districts : \E i \in DOMAIN Digits(p) : Digits(p)[i].of = d
<1> DEFINE s == SetToSeq(Districts)
           t == Digits(p)
<1>1. s \in Seq(Districts) /\ \A d \in Districts : \E i \in DOMAIN s : s[i] = d
  BY InOrder
<1>2. t = [i \in DOMAIN s |-> PowerLine(s[i], p[s[i]] = "on")]
  BY DEF Digits
<1> HIDE DEF s, t
<1>3. \A i \in DOMAIN s : s[i] \in Districts
  BY <1>1
<1>4. ASSUME NEW d \in Districts, NEW on \in BOOLEAN
      PROVE  /\ PowerLine(d, on) \in Lines
             /\ PowerLine(d, on).kind = "power" /\ PowerLine(d, on).of = d
             /\ PowerLine(d, on).says = on
  BY DEF PowerLine, Lines
<1>5. ASSUME NEW i \in DOMAIN s
      PROVE  /\ t[i] \in Lines /\ t[i].kind = "power" /\ t[i].of = s[i]
             /\ t[i].says = (p[s[i]] = "on")
  <2>1. s[i] \in Districts /\ (p[s[i]] = "on") \in BOOLEAN
    BY <1>3
  <2>2. t[i] = PowerLine(s[i], p[s[i]] = "on")
    BY <1>2
  <2> QED BY <1>4, <2>1, <2>2
<1>6. DOMAIN t = DOMAIN s /\ Len(s) \in Nat /\ DOMAIN s = 1..Len(s)
  BY <1>1, <1>2
<1>7. t \in Seq(Lines)
  <2>1. t \in [1..Len(s) -> Lines]
    BY <1>2, <1>5, <1>6
  <2> QED BY <1>6, <2>1
<1> QED BY <1>1, <1>3, <1>5, <1>6, <1>7 DEF t

\* And where they are alike a line that says it of all, after them.
LEMMA BroadcastIs ==
  ASSUME NEW p
  PROVE  \/ Broadcast(p) = Digits(p)
         \/ \E on \in BOOLEAN : /\ Broadcast(p) = Append(Digits(p), PowerLine(None, on))
                                /\ \A d \in Districts : (p[d] = "on") = on
<1>1. Digits(p) \in Seq(Lines)
  BY DigitsAre
<1>0. PowerLine(None, TRUE) \in Lines /\ PowerLine(None, FALSE) \in Lines
  BY DEF PowerLine, Lines
<1>2. CASE \A d \in Districts : p[d] = "on"
  <2>1. Broadcast(p) = Digits(p) \o <<PowerLine(None, TRUE)>>
    BY <1>2 DEF Broadcast
  <2>2. Broadcast(p) = Append(Digits(p), PowerLine(None, TRUE))
    BY <1>1, <1>0, <2>1, AppendIsConcat
  <2>3. \A d \in Districts : (p[d] = "on") = TRUE
    BY <1>2
  <2> QED BY <2>2, <2>3
<1>3. CASE ~(\A d \in Districts : p[d] = "on") /\ \A d \in Districts : p[d] # "on"
  <2>1. Broadcast(p) = Digits(p) \o <<PowerLine(None, FALSE)>>
    BY <1>3 DEF Broadcast
  <2>2. Broadcast(p) = Append(Digits(p), PowerLine(None, FALSE))
    BY <1>1, <1>0, <2>1, AppendIsConcat
  <2>3. \A d \in Districts : (p[d] = "on") = FALSE
    BY <1>3
  <2> QED BY <2>2, <2>3
<1>4. CASE ~(\A d \in Districts : p[d] = "on") /\ ~(\A d \in Districts : p[d] # "on")
  <2>1. Broadcast(p) = Digits(p) \o <<>>
    BY <1>4 DEF Broadcast
  <2> QED BY <1>1, <2>1
<1> QED BY <1>2, <1>3, <1>4

-----------------------------------------------------------------------------
(* What is said of all agrees with what is said of each.                   *)

\* Whatever of the fold but the digits moves.
LEMMA AgreesOn ==
  ASSUME NEW s, NEW f, NEW g, Agrees(s, f), g.tracks = f.tracks
  PROVE  Agrees(s, g)
BY DEF Agrees, AgreesAt

\* And whatever follows a line.
LEMMA SameBefore ==
  ASSUME NEW s, NEW u, NEW i, NEW d, NEW f, AgreesAt(s, i, d, f),
         u[i] = s[i], \A j \in 1..(i - 1) : u[j] = s[j]
  PROVE  AgreesAt(u, i, d, f)
<1>1. Before(u, i, d) = Before(s, i, d) /\ \A k \in Before(s, i, d) : u[k] = s[k]
  BY DEF Before
<1> QED BY <1>1 DEF AgreesAt

\* Lines that say nothing of all districts, behind those on their way.
LEMMA AgreesWith ==
  ASSUME NEW s \in Seq(Lines), NEW t \in Seq(Lines), NEW f, Agrees(s, f),
         \A i \in DOMAIN t : ~(t[i].kind = "power" /\ t[i].of = None)
  PROVE  s \o t \in Seq(Lines) /\ Agrees(s \o t, f)
<1> DEFINE u == s \o t
<1>1. /\ u \in Seq(Lines) /\ DOMAIN u = 1..(Len(s) + Len(t))
      /\ Len(s) \in Nat /\ Len(t) \in Nat
      /\ DOMAIN s = 1..Len(s) /\ DOMAIN t = 1..Len(t)
      /\ \A i \in 1..Len(s) : u[i] = s[i]
      /\ \A i \in (Len(s) + 1)..(Len(s) + Len(t)) : u[i] = t[i - Len(s)]
  <2>1. /\ u \in Seq(Lines) /\ Len(u) = Len(s) + Len(t)
        /\ \A i \in 1..(Len(s) + Len(t)) : u[i] = IF i <= Len(s) THEN s[i] ELSE t[i - Len(s)]
    BY ConcatProperties
  <2>2. Len(s) \in Nat /\ Len(t) \in Nat /\ DOMAIN s = 1..Len(s) /\ DOMAIN t = 1..Len(t)
        /\ DOMAIN u = 1..Len(u)
    BY <2>1, LenProperties
  <2> HIDE DEF u
  <2> QED BY <2>1, <2>2
<1> HIDE DEF u
<1>2. ASSUME NEW i \in DOMAIN u, u[i].kind = "power", u[i].of = None PROVE i \in DOMAIN s
  <2>1. CASE i \in (Len(s) + 1)..(Len(s) + Len(t))
    <3>1. i - Len(s) \in DOMAIN t
      BY <1>1, <2>1
    <3> QED BY <1>1, <1>2, <2>1, <3>1
  <2>2. CASE i \notin (Len(s) + 1)..(Len(s) + Len(t))
    BY <1>1, <2>2
  <2> QED BY <2>1, <2>2
<1>3. ASSUME NEW i \in DOMAIN u, u[i].kind = "power", u[i].of = None, NEW d \in Districts
      PROVE  AgreesAt(u, i, d, f)
  <2>1. i \in DOMAIN s /\ u[i] = s[i] /\ \A j \in 1..(i - 1) : u[j] = s[j]
    BY <1>1, <1>2, <1>3
  <2>2. AgreesAt(s, i, d, f)
    BY <1>3, <2>1 DEF Agrees
  <2> QED BY <2>1, <2>2, SameBefore
<1>5. Agrees(u, f)
  BY <1>3 DEF Agrees
<1> QED BY <1>1, <1>5 DEF u

\* A line of all behind one of each that says the same.
LEMMA AgreesAll ==
  ASSUME NEW s \in Seq(Lines), NEW f, Agrees(s, f), NEW m \in Nat, NEW on \in BOOLEAN,
         \A i \in (m + 1)..Len(s) :
           s[i].kind = "power" /\ s[i].of \in Districts /\ s[i].says = on,
         \A d \in Districts : \E i \in (m + 1)..Len(s) : s[i].of = d
  PROVE  /\ Append(s, PowerLine(None, on)) \in Seq(Lines)
         /\ Agrees(Append(s, PowerLine(None, on)), f)
<1> DEFINE e == PowerLine(None, on)
           u == Append(s, e)
<1>1. e \in Lines /\ e.kind = "power" /\ e.of = None /\ e.says = on
  BY DEF PowerLine, Lines
<1>2. /\ u \in Seq(Lines) /\ Len(s) \in Nat /\ DOMAIN s = 1..Len(s)
      /\ DOMAIN u = 1..(Len(s) + 1)
      /\ u[Len(s) + 1] = e /\ \A i \in 1..Len(s) : u[i] = s[i]
  BY <1>1, AppendProperties, LenProperties
<1> HIDE DEF u, e
<1>3. ASSUME NEW i \in DOMAIN u, u[i].kind = "power", u[i].of = None, NEW d \in Districts
      PROVE  AgreesAt(u, i, d, f)
  <2>1. CASE i = Len(s) + 1
    <3>1. PICK j \in (m + 1)..Len(s) : s[j].of = d
      OBVIOUS
    <3>2. j \in Before(u, i, d) /\ u[j].of = d
      BY <1>2, <2>1, <3>1 DEF Before
    <3>3. \A k \in Before(u, i, d) : k >= j => u[k].says = u[i].says
      BY <1>1, <1>2, <2>1, <3>1 DEF Before
    <3> QED BY <3>2, <3>3 DEF AgreesAt
  <2>2. CASE i # Len(s) + 1
    <3>1. i \in DOMAIN s /\ u[i] = s[i] /\ \A j \in 1..(i - 1) : u[j] = s[j]
      BY <1>2, <2>2
    <3>2. AgreesAt(s, i, d, f)
      BY <1>3, <3>1 DEF Agrees
    <3> QED BY <3>1, <3>2, SameBefore
  <2> QED BY <2>1, <2>2
<1>4. Agrees(u, f)
  BY <1>3 DEF Agrees
<1> QED BY <1>2, <1>4 DEF u, e

\* A broadcast behind what is on its way.
LEMMA AgreesBroadcast ==
  ASSUME NEW s \in Seq(Lines), NEW f, Agrees(s, f), NEW p
  PROVE  s \o Broadcast(p) \in Seq(Lines) /\ Agrees(s \o Broadcast(p), f)
<1> DEFINE t == Digits(p)
           u == s \o t
<1>1. /\ t \in Seq(Lines)
      /\ \A i \in DOMAIN t : /\ t[i].kind = "power" /\ t[i].of \in Districts
                             /\ t[i].says = (p[t[i].of] = "on")
      /\ \A d \in Districts : \E i \in DOMAIN t : t[i].of = d
  BY DigitsAre
<1> HIDE DEF t
<1>2. u \in Seq(Lines) /\ Agrees(u, f)
  BY <1>1, AgreesWith, SupplyAssumption
<1>3. CASE Broadcast(p) = t
  BY <1>2, <1>3
<1>4. ASSUME NEW on \in BOOLEAN, Broadcast(p) = Append(t, PowerLine(None, on)),
             \A d \in Districts : (p[d] = "on") = on
      PROVE  s \o Broadcast(p) \in Seq(Lines) /\ Agrees(s \o Broadcast(p), f)
  <2>1. PowerLine(None, on) \in Lines
    BY DEF PowerLine, Lines
  <2>2. Append(t, PowerLine(None, on)) = t \o <<PowerLine(None, on)>>
        /\ Append(u, PowerLine(None, on)) = u \o <<PowerLine(None, on)>>
        /\ <<PowerLine(None, on)>> \in Seq(Lines)
    BY <1>1, <1>2, <2>1, AppendIsConcat
  <2>3. s \o Broadcast(p) = Append(u, PowerLine(None, on))
    BY <1>1, <1>4, <2>2, ConcatAssociative
  <2>4. /\ Len(s) \in Nat /\ Len(u) = Len(s) + Len(t) /\ DOMAIN t = 1..Len(t) /\ Len(t) \in Nat
        /\ \A i \in (Len(s) + 1)..Len(u) : i - Len(s) \in DOMAIN t /\ u[i] = t[i - Len(s)]
    BY <1>1, ConcatProperties, LenProperties
  <2> HIDE DEF u
  <2>5. \A i \in (Len(s) + 1)..Len(u) :
          u[i].kind = "power" /\ u[i].of \in Districts /\ u[i].says = on
    BY <1>1, <1>4, <2>4
  <2>6. ASSUME NEW d \in Districts PROVE \E i \in (Len(s) + 1)..Len(u) : u[i].of = d
    <3>1. PICK i \in DOMAIN t : t[i].of = d
      BY <1>1
    <3>2. i + Len(s) \in (Len(s) + 1)..Len(u) /\ (i + Len(s)) - Len(s) = i
      BY <2>4
    <3> QED BY <2>4, <3>1, <3>2
  <2> QED BY <1>2, <2>3, <2>4, <2>5, <2>6, AgreesAll
<1> QED BY <1>3, <1>4, BroadcastIs DEF t

\* The first line is folded, and the rest still agree.
LEMMA AgreesTail ==
  ASSUME NEW s \in Seq(Lines), s # <<>>, NEW f, NEW g, Agrees(s, f),
         \A d \in Districts :
           g.tracks[d] \in {None, IF Head(s).kind = "power" /\ Head(s).of \in {d, None}
                                  THEN Head(s).says ELSE f.tracks[d]}
  PROVE  Tail(s) \in Seq(Lines) /\ Agrees(Tail(s), g)
<1> DEFINE u == Tail(s)
<1>1. /\ u \in Seq(Lines) /\ Len(s) \in Nat /\ DOMAIN s = 1..Len(s) /\ Head(s) = s[1]
      /\ DOMAIN u = 1..(Len(s) - 1) /\ \A i \in 1..(Len(s) - 1) : u[i] = s[i + 1]
  BY HeadTailProperties, LenProperties
<1> HIDE DEF u
<1>2. ASSUME NEW i \in DOMAIN u, u[i].kind = "power", u[i].of = None, NEW d \in Districts
      PROVE  AgreesAt(u, i, d, g)
  <2> DEFINE new == Before(u, i, d)
             old == Before(s, i + 1, d)
  <2>1. i + 1 \in DOMAIN s /\ s[i + 1] = u[i] /\ i \in 1..(Len(s) - 1) /\ 1 \in 1..((i + 1) - 1)
    BY <1>1
  <2>2. \/ /\ f.tracks[d] \in {None, u[i].says}
           /\ \A k \in old : s[k].says = u[i].says
        \/ \E j \in old : s[j].of = d /\ \A k \in old : k >= j => s[k].says = u[i].says
    BY <1>2, <2>1 DEF Agrees, AgreesAt
  <2>3. \A k \in new : k + 1 \in old /\ u[k] = s[k + 1] /\ k \in Nat
    BY <1>1, <2>1 DEF Before
  <2>4. \A k \in old : k \in Nat /\ (k # 1 => k - 1 \in new /\ u[k - 1] = s[k])
    BY <1>1, <2>1 DEF Before
  <2>5. 1 \in old <=> (Head(s).kind = "power" /\ Head(s).of \in {d, None})
    BY <1>1, <2>1 DEF Before
  <2>6. g.tracks[d] \in {None, IF 1 \in old THEN Head(s).says ELSE f.tracks[d]}
    BY <2>5
  <2> HIDE DEF new, old
  <2>7. CASE /\ f.tracks[d] \in {None, u[i].says}
             /\ \A k \in old : s[k].says = u[i].says
    <3>1. g.tracks[d] \in {None, u[i].says}
      BY <1>1, <2>6, <2>7
    <3>2. \A k \in new : u[k].says = u[i].says
      BY <2>3, <2>7
    <3> QED BY <3>1, <3>2 DEF new, AgreesAt
  <2>8. ASSUME NEW j \in old, s[j].of = d, \A k \in old : k >= j => s[k].says = u[i].says
        PROVE  \/ /\ g.tracks[d] \in {None, u[i].says}
                  /\ \A k \in new : u[k].says = u[i].says
               \/ \E jj \in new :
                    u[jj].of = d /\ \A k \in new : k >= jj => u[k].says = u[i].says
    <3>1. CASE j = 1
      <4>1. Head(s).says = u[i].says
        BY <1>1, <2>8, <3>1
      <4>2. g.tracks[d] \in {None, u[i].says}
        BY <2>6, <2>8, <3>1, <4>1
      <4>3. \A k \in new : u[k].says = u[i].says
        BY <2>3, <2>8, <3>1
      <4> QED BY <4>2, <4>3
    <3>2. CASE j # 1
      <4>1. j - 1 \in new /\ u[j - 1].of = d
        BY <2>4, <2>8, <3>2
      <4>2. ASSUME NEW k \in new, k >= j - 1 PROVE u[k].says = u[i].says
        <5>1. k + 1 \in old /\ u[k] = s[k + 1] /\ k \in Nat /\ j \in Nat
          BY <2>3, <2>4
        <5>2. k + 1 >= j
          BY <4>2, <5>1
        <5> QED BY <2>8, <5>1, <5>2
      <4> QED BY <4>1, <4>2
    <3> QED BY <3>1, <3>2
  <2> QED BY <2>2, <2>7, <2>8 DEF new, AgreesAt
<1>3. Agrees(u, g)
  BY <1>2 DEF Agrees
<1> QED BY <1>1, <1>3 DEF u

-----------------------------------------------------------------------------
(* What is made of a line.                                                 *)

\* The fold of any line, and what it makes of the digits.
LEMMA FoldedIs ==
  ASSUME NEW f \in FoldType, NEW line \in Lines
  PROVE  /\ Folded(f, line) \in FoldType /\ Folded(f, line).heard
         /\ \A d \in Districts : Folded(f, line).tracks[d] =
              IF line.kind = "power" /\ line.of = d THEN line.says
              ELSE IF line.kind = "power" /\ line.of = None /\ f.tracks[d] # None THEN line.says
              ELSE f.tracks[d]
<1> DEFINE Told(t) == /\ t \in FoldType
                      /\ \A d \in Districts : t.tracks[d] =
                           IF line.kind = "power" /\ line.of = d THEN line.says
                           ELSE IF line.kind = "power" /\ line.of = None /\ f.tracks[d] # None
                                THEN line.says ELSE f.tracks[d]
<1>1. ASSUME NEW t, Told(t), Folded(f, line) = [t EXCEPT !.heard = TRUE]
      PROVE  /\ Folded(f, line) \in FoldType /\ Folded(f, line).heard
             /\ \A d \in Districts : Folded(f, line).tracks[d] = t.tracks[d]
  BY <1>1 DEF FoldType
<1>2. CASE line.kind = "power" /\ line.of # None
  <2>1. Folded(f, line) = [Powers(f, line.of, line.says) EXCEPT !.heard = TRUE]
    BY <1>2, Zenon DEF Folded
  <2>2. line.of \in Districts /\ line.says \in BOOLEAN
    BY <1>2 DEF Lines, Kinds, EmptyStash, Line
  <2>3. Told(Powers(f, line.of, line.says))
    BY <1>2, <2>2, SupplyAssumption DEF Powers, FoldType
  <2> QED BY <1>1, <2>1, <2>3
<1>3. CASE line.kind = "power" /\ line.of = None
  <2>1. Folded(f, line) = [PowersAll(f, line.says) EXCEPT !.heard = TRUE]
    BY <1>3, Zenon DEF Folded
  <2>2. line.says \in BOOLEAN
    BY <1>3 DEF Lines, Kinds, EmptyStash, Line
  <2>3. Told(PowersAll(f, line.says))
    BY <1>3, <2>2, SupplyAssumption DEF PowersAll, FoldType
  <2> QED BY <1>1, <2>1, <2>3
<1>4. CASE line.kind = "setting"
  <2>1. line.kind # "power" /\ line.says \in Settings
    BY <1>4 DEF Lines, Kinds, EmptyStash, Line
  <2>2. Folded(f, line) = [[f EXCEPT !.setting = line.says] EXCEPT !.heard = TRUE]
    BY <1>4, <2>1, Zenon DEF Folded
  <2>3. Told([f EXCEPT !.setting = line.says])
    BY <2>1 DEF FoldType
  <2> QED BY <1>1, <2>2, <2>3
<1>5. CASE line.kind \notin {"power", "setting"}
  <2>1. Folded(f, line) = [Diagnosed(f, line.kind, line.of) EXCEPT !.heard = TRUE]
    <3>1. line.kind # "power" /\ line.kind # "setting"
      BY <1>5
    <3> QED BY <3>1, Zenon DEF Folded
  <2>2. CASE line.kind = "trip"
    <3>1. Diagnosed(f, line.kind, line.of)
            = [f EXCEPT !.tripped = @ \cup {line.of}, !.alerted = @ \ {line.of}]
      BY <2>2, Zenon DEF Diagnosed
    <3>2. line.of \in Districts
      BY <2>2 DEF Lines, Kinds, EmptyStash, Line
    <3>3. f.tripped \cup {line.of} \in SUBSET Districts /\ f.alerted \ {line.of} \in SUBSET Districts
      BY <3>2 DEF FoldType
    <3>4. Diagnosed(f, line.kind, line.of) \in FoldType
          /\ Diagnosed(f, line.kind, line.of).tracks = f.tracks
      BY <3>1, <3>3 DEF FoldType
    <3>5. Told(Diagnosed(f, line.kind, line.of))
      BY <2>2, <3>4
    <3> QED BY <1>1, <2>1, <3>5
  <2>3. CASE line.kind = "normal"
    <3>1. Diagnosed(f, line.kind, line.of)
            = [f EXCEPT !.tripped = @ \ {line.of}, !.alerted = @ \ {line.of}]
      BY <2>3, Zenon DEF Diagnosed
    <3>2. Told(Diagnosed(f, line.kind, line.of))
      BY <2>3, <3>1 DEF FoldType
    <3> QED BY <1>1, <2>1, <3>2
  <2>4. CASE line.kind = "alert"
    <3>1. Diagnosed(f, line.kind, line.of)
            = [f EXCEPT !.alerted = IF line.of \in f.tripped THEN @ ELSE @ \cup {line.of}]
      BY <2>4, Zenon DEF Diagnosed
    <3>2. line.of \in Districts
      BY <2>4 DEF Lines, Kinds, EmptyStash, Line
    <3>3. Told(Diagnosed(f, line.kind, line.of))
      BY <2>4, <3>1, <3>2 DEF FoldType
    <3> QED BY <1>1, <2>1, <3>3
  <2>5. CASE line.kind \notin {"trip", "normal", "alert"}
    <3>1. Diagnosed(f, line.kind, line.of) = f
      BY <2>5, Zenon DEF Diagnosed
    <3>2. Told(Diagnosed(f, line.kind, line.of))
      BY <1>5, <3>1 DEF FoldType
    <3> QED BY <1>1, <2>1, <3>2
  <2> QED BY <2>2, <2>3, <2>4, <2>5
<1> QED BY <1>2, <1>3, <1>4, <1>5

\* The record of a district, as the trips, alerts and digits have it.
LEMMA RecordIs ==
  ASSUME NEW f \in FoldType, NEW d \in Districts
  PROVE  /\ Record(f, d) \in Records
         /\ d \in f.tripped => Record(f, d).state = "tripped"
         /\ d \in f.alerted \ f.tripped => Record(f, d).state = "alert"
         /\ d \notin f.tripped \cup f.alerted /\ f.tracks[d] = TRUE => Record(f, d).state = "on"
<1>1. f.setting \in Settings \cup {None} /\ f.tracks[d] \in BOOLEAN \cup {None}
  BY DEF FoldType
<1>2. ASSUME NEW st \in {"on", "off", "tripped", "alert", "unknown", None},
             Record(f, d) = [state |-> st, setting |-> f.setting]
      PROVE  Record(f, d) \in Records /\ Record(f, d).state = st
  BY <1>1, <1>2 DEF Records
<1>3. CASE d \in f.tripped
  <2>1. Record(f, d) = [state |-> "tripped", setting |-> f.setting]
    BY <1>3, Zenon DEF Record
  <2> QED BY <1>2, <1>3, <2>1
<1>4. CASE d \in f.alerted \ f.tripped
  <2>1. d \notin f.tripped
    BY <1>4
  <2>2. Record(f, d) = [state |-> "alert", setting |-> f.setting]
    BY <1>4, <2>1, Zenon DEF Record
  <2> QED BY <1>2, <1>4, <2>1, <2>2
<1>5. CASE d \notin f.tripped \cup f.alerted /\ f.tracks[d] # None
  <2>1. d \notin f.tripped /\ d \notin f.alerted \ f.tripped
    BY <1>5
  <2>2. Record(f, d) = [state |-> IF f.tracks[d] THEN "on" ELSE "off", setting |-> f.setting]
    BY <1>5, <2>1, Zenon DEF Record
  <2>3. Record(f, d) \in Records /\ Record(f, d).state = IF f.tracks[d] THEN "on" ELSE "off"
    BY <1>1, <2>2 DEF Records
  <2> QED BY <1>5, <2>1, <2>3
<1>6. CASE d \notin f.tripped \cup f.alerted /\ f.tracks[d] = None
  <2>1. d \notin f.tripped /\ d \notin f.alerted \ f.tripped
        /\ ~(d \notin f.tripped \cup f.alerted /\ f.tracks[d] # None)
    BY <1>6
  <2>2. Record(f, d) = [state |-> None, setting |-> f.setting]
    BY <2>1, Zenon DEF Record
  <2>3. Record(f, d) \in Records
    BY <1>2, <2>2
  <2> QED BY <1>6, <2>1, <2>3, SupplyAssumption
<1> QED BY <1>3, <1>4, <1>5, <1>6

\* Every district named has a record that says what the row says.
LEMMA ReportsIs ==
  ASSUME NEW f \in FoldType, NEW was \in [Districts -> Records \cup {None}]
  PROVE  /\ Reports(f, was) \in [Districts -> Records \cup {None}]
         /\ \A d \in Named(f) : Reports(f, was)[d] = Record(f, d)
<1>1. Named(f) \subseteq Districts
  BY DEF Named, FoldType
<1>2. \A d \in Districts : Record(f, d) \in Records
  BY RecordIs
<1> QED BY <1>1, <1>2 DEF Reports

LEMMA ReportedRow ==
  ASSUME NEW f \in FoldType, NEW was \in [Districts -> Records \cup {None}]
  PROVE  LET now == Reports(f, was)
         IN  /\ Powered(f) /\ Named(f) # {} =>
                  \E d \in Districts : now[d] # None /\ now[d].state \in {"on", "alert"}
             /\ \A d \in f.tripped : now[d] # None /\ now[d].state = "tripped"
<1> DEFINE now == Reports(f, was)
<1>1. /\ Named(f) \subseteq Districts /\ f.tripped \subseteq Named(f)
      /\ f.tripped \subseteq Districts
  BY DEF Named, FoldType
<1>2. \A d \in Named(f) : now[d] = Record(f, d) /\ now[d] # None
  <2>1. \A d \in Named(f) : now[d] = Record(f, d) /\ Record(f, d) \in Records
    BY <1>1, ReportsIs, RecordIs
  <2> QED BY <2>1, NoneAssumption
<1> HIDE DEF now
<1>3. ASSUME Powered(f), Named(f) # {}
      PROVE  \E d \in Districts : now[d] # None /\ now[d].state \in {"on", "alert"}
  <2>1. PICK d \in Named(f) \ f.tripped : d \in f.alerted \/ f.tracks[d] = TRUE
    BY <1>3 DEF Powered
  <2>2. d \in Districts
    BY <1>1, <2>1
  <2>3. Record(f, d).state \in {"on", "alert"}
    BY <2>1, <2>2, RecordIs
  <2> QED BY <1>2, <2>1, <2>2, <2>3
<1>4. ASSUME NEW d \in f.tripped PROVE now[d] # None /\ now[d].state = "tripped"
  <2>1. d \in Districts /\ d \in Named(f)
    BY <1>1
  <2>2. Record(f, d).state = "tripped"
    BY <2>1, RecordIs
  <2> QED BY <1>2, <2>1, <2>2
<1> QED BY <1>3, <1>4 DEF now

-----------------------------------------------------------------------------
(* What is forgotten.                                                      *)

LEMMA NothingIs ==
  /\ Nothing \in FoldType /\ ~Nothing.heard /\ Named(Nothing) = {} /\ Nothing.tripped = {}
  /\ \A d \in Districts : Nothing.tracks[d] = None
  /\ [Nothing EXCEPT !.tripped = {}, !.alerted = {}] = Nothing
<1>1. Nothing \in FoldType
  BY DEF Nothing, FoldType
<1>2. ~Nothing.heard /\ Nothing.tripped = {} /\ Nothing.alerted = {}
      /\ \A d \in Districts : Nothing.tracks[d] = None
  BY DEF Nothing
<1>3. ASSUME NEW f \in FoldType, f.tripped = {}, f.alerted = {}
      PROVE  [f EXCEPT !.tripped = {}, !.alerted = {}] = f
  BY <1>3 DEF FoldType
<1> QED BY <1>1, <1>2, <1>3 DEF Named

\* An unread record is one.
LEMMA UnreadIs == Unread \in Records /\ Unread # None
<1>1. Unread \in Records
  BY DEF Unread, Records
<1> QED BY <1>1, NoneAssumption

LEMMA NobodyIs ==
  /\ NoDistrict \in [Districts -> Records \cup {None}]
  /\ NoDistrict \in [Districts -> Written \cup {None}]
  /\ \A d \in Districts : NoDistrict[d] = None
BY DEF NoDistrict

\* Every record is unread from then on, and the handlers are told of it.
LEMMA UnreadsIs ==
  ASSUME NEW was \in [Districts -> Records \cup {None}],
         NEW had \in [Districts -> Records \cup {None}],
         NEW from \in {was, NoDistrict},
         \A d \in Districts : had[d] \in {None, was[d]},
         script = "none" => had = NoDistrict,
         script = "first" => had = was
  PROVE  LET now == Unreads(was)
             has == Hands(from, now, had)
         IN  /\ now \in [Districts -> Records \cup {None}]
             /\ has \in [Districts -> Records \cup {None}]
             /\ \A d \in Districts : now[d] \in {None, Unread} /\ has[d] \in {None, now[d]}
             /\ script = "none" => has = NoDistrict
             /\ script = "first" => has = now
<1> DEFINE now == Unreads(was)
           has == Hands(from, now, had)
<1>1. /\ now \in [Districts -> Records \cup {None}]
      /\ \A d \in Districts : now[d] = IF was[d] = None THEN None ELSE Unread
  BY UnreadIs DEF Unreads
<1>2. /\ has \in [Districts -> Records \cup {None}]
      /\ \A d \in Districts : has[d] = IF script # "none" /\ now[d] # from[d]
                                       THEN now[d] ELSE had[d]
  BY <1>1 DEF Hands
<1> HIDE DEF now, has
<1>3. ASSUME NEW d \in Districts
      PROVE  /\ now[d] \in {None, Unread} /\ has[d] \in {None, now[d]}
             /\ script = "none" => has[d] = NoDistrict[d]
             /\ script = "first" => has[d] = now[d]
  BY <1>1, <1>2, NobodyIs, UnreadIs
<1>4. script = "none" => has = NoDistrict
  BY <1>2, <1>3, NobodyIs
<1>5. script = "first" => has = now
  BY <1>1, <1>2, <1>3
<1> QED BY <1>1, <1>2, <1>3, <1>4, <1>5 DEF now, has

\* What is handed of what moved follows what is reported.
LEMMA HandsIs ==
  ASSUME NEW was \in [Districts -> Records \cup {None}],
         NEW now \in [Districts -> Records \cup {None}],
         NEW had \in [Districts -> Records \cup {None}],
         \A d \in Districts : had[d] \in {None, was[d]},
         script = "none" => had = NoDistrict,
         script = "first" => had = was
  PROVE  LET has == Hands(was, now, had)
         IN  /\ has \in [Districts -> Records \cup {None}]
             /\ \A d \in Districts : has[d] \in {None, now[d]}
             /\ script = "none" => has = NoDistrict
             /\ script = "first" => has = now
<1> DEFINE has == Hands(was, now, had)
<1>1. /\ has \in [Districts -> Records \cup {None}]
      /\ \A d \in Districts : has[d] = IF script # "none" /\ now[d] # was[d]
                                       THEN now[d] ELSE had[d]
  BY DEF Hands
<1> HIDE DEF has
<1>2. ASSUME NEW d \in Districts
      PROVE  /\ has[d] \in {None, now[d]}
             /\ script = "none" => has[d] = NoDistrict[d]
             /\ script = "first" => has[d] = now[d]
  <2>1. had[d] \in {None, was[d]}
        /\ (script = "none" => had[d] = NoDistrict[d]) /\ (script = "first" => had[d] = was[d])
    OBVIOUS
  <2>2. has[d] = IF script # "none" /\ now[d] # was[d] THEN now[d] ELSE had[d]
    BY <1>1
  <2>3. script = "first" => script # "none"
    OBVIOUS
  <2>4. CASE script # "none" /\ now[d] # was[d]
    BY <2>2, <2>4
  <2>5. CASE ~(script # "none" /\ now[d] # was[d])
    BY <2>1, <2>2, <2>3, <2>5, NobodyIs
  <2> QED BY <2>4, <2>5
<1>3. (script = "none" => has = NoDistrict) /\ (script = "first" => has = now)
  BY <1>1, <1>2, NobodyIs
<1> QED BY <1>1, <1>2, <1>3 DEF has

LEMMA ForgetIs ==
  ASSUME IInv, Forget
  PROVE  /\ fold' = Nothing /\ kept' = NoDistrict
         /\ reported' \in [Districts -> Records \cup {None}]
         /\ handed' \in [Districts -> Records \cup {None}]
         /\ \A d \in Districts : reported'[d] \in {None, Unread} /\ handed'[d] \in {None, reported'[d]}
         /\ script = "none" => handed' = NoDistrict
         /\ script = "first" => handed' = reported'
<1>1. /\ reported \in [Districts -> Records \cup {None}]
      /\ handed \in [Districts -> Records \cup {None}]
      /\ \A d \in Districts : handed[d] \in {None, reported[d]}
      /\ script = "none" => handed = NoDistrict
      /\ script = "first" => handed = reported
  BY DEF IInv, TypeOK, HandsFollow
<1> QED BY <1>1, UnreadsIs DEF Forget

-----------------------------------------------------------------------------
(* The steps.                                                              *)

LEMMA AgreesMore ==
  ASSUME NEW s \in Seq(Lines), NEW e \in Lines, NEW f, Agrees(s, f),
         ~(e.kind = "power" /\ e.of = None)
  PROVE  Append(s, e) \in Seq(Lines) /\ Agrees(Append(s, e), f)
<1>1. <<e>> \in Seq(Lines) /\ DOMAIN <<e>> = {1} /\ <<e>>[1] = e
  OBVIOUS
<1>2. Append(s, e) = s \o <<e>>
  BY AppendIsConcat
<1>3. \A i \in DOMAIN <<e>> : ~(<<e>>[i].kind = "power" /\ <<e>>[i].of = None)
  BY <1>1
<1>4. s \o <<e>> \in Seq(Lines) /\ Agrees(s \o <<e>>, f)
  BY <1>1, <1>3, AgreesWith
<1> QED BY <1>2, <1>4

LEMMA AgreesNone == \A f : <<>> \in Seq(Lines) /\ Agrees(<<>>, f)
BY DEF Agrees

\* The lines that are not of power.
LEMMA OtherLines ==
  /\ \A s \in Settings : SettingLine(s) \in Lines /\ SettingLine(s).kind = "setting"
  /\ EmptyStash \in Lines /\ EmptyStash.kind = "empty"
  /\ \A k \in Kinds, d \in Districts : Line(k, d) \in Lines /\ Line(k, d).kind = k
  /\ "power" \notin Kinds
<1>1. \A s \in Settings : SettingLine(s) \in Lines /\ SettingLine(s).kind = "setting"
  BY DEF SettingLine, Lines
<1>2. EmptyStash \in Lines /\ EmptyStash.kind = "empty"
  BY DEF EmptyStash, Line, Lines
<1>3. \A k \in Kinds, d \in Districts : Line(k, d) \in Lines /\ Line(k, d).kind = k
  BY DEF Line, Lines
<1>4. "power" \notin Kinds
  BY DEF Kinds
<1> QED BY <1>1, <1>2, <1>3, <1>4

\* What the station does, and says, moves nothing the translator keeps.
LEMMA OutsideKeeps ==
  ASSUME IInv, UNCHANGED <<link, main, script, fold, saidVars, journalVars>>,
         toApp' \in Seq(Lines), Agrees(toApp', fold),
         power' \in [Districts -> StationPowers], setting' \in Settings, marked' \in BOOLEAN,
         troubles' \in 0..MaxTroubles
  PROVE  IInv'
<1>1. TypeOK'
  BY DEF IInv, TypeOK, saidVars, journalVars, StationPowers
<1>2. HandsFollow' /\ UnheardIsUnread'
  BY DEF IInv, HandsFollow, UnheardIsUnread, saidVars, journalVars
<1>3. RowFollowsLink' /\ RowIsReported'
  BY DEF IInv, RowFollowsLink, OutageIsSaid, RowIsReported, saidVars, journalVars, Named
<1>4. KeptIsWritten' /\ JournalSaysThePower'
  BY DEF IInv, KeptIsWritten, JournalSaysThePower, saidVars, journalVars
<1>5. Agrees(toApp', fold')
  OBVIOUS
<1> QED BY <1>1, <1>2, <1>3, <1>4, <1>5 DEF IInv

LEMMA SwitchesIs ==
  ASSUME IInv, NEW ds, NEW p \in {"on", "off"}, Switches(ds, p)
  PROVE  /\ power' \in [Districts -> StationPowers] /\ setting' \in Settings /\ marked' \in BOOLEAN
         /\ toApp' \in Seq(Lines) /\ Agrees(toApp', fold)
<1>1. power' \in [Districts -> StationPowers] /\ setting' \in Settings /\ marked' \in BOOLEAN
  BY DEF IInv, TypeOK, Switches, StationPowers
<1>2. toApp \in Seq(Lines) /\ Agrees(toApp, fold)
  BY DEF IInv, TypeOK
<1>3. toApp \o Broadcast(power') \in Seq(Lines) /\ Agrees(toApp \o Broadcast(power'), fold)
  BY <1>2, AgreesBroadcast
<1> QED BY <1>1, <1>2, <1>3 DEF Switches

LEMMA TroubleIs ==
  ASSUME IInv, Trouble
  PROVE  troubles' \in 0..MaxTroubles
BY SupplyAssumption DEF IInv, TypeOK, Trouble

LEMMA WorldKeeps ==
  ASSUME IInv,
         \/ CommandsOn \/ Reboots
         \/ \E p \in {"on", "off"}, ds \in {Districts} \cup {{d} : d \in Districts} : Throttle(ds, p)
         \/ \E d \in Districts, kind \in Kinds : Current(d, kind)
         \/ \E s \in Settings : Sets(s)
  PROVE  IInv'
<1>1. CASE CommandsOn
  <2>1. Trouble /\ Switches(Districts, "on")
        /\ UNCHANGED <<link, main, script, fold, saidVars, journalVars>>
    BY <1>1 DEF CommandsOn
  <2> QED BY <2>1, TroubleIs, SwitchesIs, OutsideKeeps
<1>2. CASE Reboots
  <2>1. power' \in [Districts -> StationPowers] /\ marked' \in BOOLEAN /\ setting' \in Settings
        /\ toApp' \in Seq(Lines) /\ Agrees(toApp', fold)
    BY <1>2 DEF Reboots, IInv, TypeOK, StationPowers
  <2>2. Trouble /\ UNCHANGED <<link, main, script, fold, saidVars, journalVars>>
    BY <1>2 DEF Reboots
  <2> QED BY <2>1, <2>2, TroubleIs, OutsideKeeps
<1>3. ASSUME NEW p \in {"on", "off"}, NEW ds, Throttle(ds, p) PROVE IInv'
  <2>1. Trouble /\ Switches(ds, p)
        /\ UNCHANGED <<link, main, script, fold, saidVars, journalVars>>
    BY <1>3 DEF Throttle
  <2> QED BY <2>1, TroubleIs, SwitchesIs, OutsideKeeps
<1>4. ASSUME NEW d \in Districts, NEW kind \in Kinds, Current(d, kind) PROVE IInv'
  <2>1. power' \in [Districts -> StationPowers] /\ marked' \in BOOLEAN /\ setting' \in Settings
    BY <1>4 DEF Current, IInv, TypeOK, StationPowers
  <2>2. toApp \in Seq(Lines) /\ Agrees(toApp, fold)
    BY DEF IInv, TypeOK
  <2>3. Line(kind, d) \in Lines /\ Line(kind, d).kind # "power"
    BY OtherLines
  <2>4. toApp' \in Seq(Lines) /\ Agrees(toApp', fold)
    BY <1>4, <2>2, <2>3, AgreesMore DEF Current
  <2>5. Trouble /\ UNCHANGED <<link, main, script, fold, saidVars, journalVars>>
    BY <1>4 DEF Current
  <2> QED BY <2>1, <2>4, <2>5, TroubleIs, OutsideKeeps
<1>5. ASSUME NEW s \in Settings, Sets(s) PROVE IInv'
  <2>1. power' \in [Districts -> StationPowers] /\ marked' \in BOOLEAN /\ setting' \in Settings
    BY <1>5 DEF Sets, IInv, TypeOK, StationPowers
  <2>2. toApp \in Seq(Lines) /\ Agrees(toApp, fold)
    BY DEF IInv, TypeOK
  <2>3. SettingLine(s) \in Lines /\ SettingLine(s).kind # "power"
    BY OtherLines
  <2>4. toApp' \in Seq(Lines) /\ Agrees(toApp', fold)
    BY <1>5, <2>2, <2>3, AgreesMore DEF Sets
  <2>5. Trouble /\ UNCHANGED <<link, main, script, fold, saidVars, journalVars>>
    BY <1>5 DEF Sets
  <2> QED BY <2>1, <2>4, <2>5, TroubleIs, OutsideKeeps
<1> QED BY <1>1, <1>2, <1>3, <1>4, <1>5

LEMMA RowsType ==
  ASSUME NEW f \in FoldType, NEW up \in BOOLEAN
  PROVE  /\ Rows(up, f) \in [up : BOOLEAN, on : BOOLEAN, why : SUBSET Districts]
         /\ Rows(up, f).up = up /\ Rows(up, f).on = Powered(f)
         /\ up => Rows(up, f).why = f.tripped
<1>1. Powered(f) \in BOOLEAN
  BY DEF Powered
<1>2. f.tripped \in SUBSET Districts
  BY DEF FoldType
<1> QED BY <1>1, <1>2 DEF Rows

\* OFF, as the translator has it.
LEMMA OffKeeps ==
  ASSUME IInv, CommandsOff
  PROVE  IInv'
<1>1. /\ toApp' \in Seq(Lines) /\ Agrees(toApp', fold) /\ power' \in [Districts -> StationPowers]
      /\ setting' \in Settings /\ marked' \in BOOLEAN /\ troubles' \in 0..MaxTroubles
  BY SwitchesIs, TroubleIs DEF CommandsOff
<1>2. /\ fold \in FoldType /\ fold' = [fold EXCEPT !.tripped = {}, !.alerted = {}]
      /\ UNCHANGED <<link, main, script, saidVars, journalVars>>
  BY DEF CommandsOff, IInv, TypeOK
<1>3. /\ fold' \in FoldType /\ fold'.heard = fold.heard /\ fold'.tracks = fold.tracks
      /\ Named(fold') \subseteq Named(fold)
  BY <1>2 DEF FoldType, Named
<1>4. fold = Nothing => fold' = Nothing
  BY <1>2, NothingIs
<1>5. TypeOK'
  BY <1>1, <1>2, <1>3 DEF IInv, TypeOK, saidVars, journalVars
<1>6. HandsFollow' /\ UnheardIsUnread'
  BY <1>2, <1>3, <1>4 DEF IInv, HandsFollow, UnheardIsUnread, saidVars, journalVars
<1>7. RowFollowsLink' /\ RowIsReported'
  BY <1>2, <1>3 DEF IInv, RowFollowsLink, OutageIsSaid, RowIsReported, saidVars, journalVars
<1>8. KeptIsWritten' /\ JournalSaysThePower'
  BY <1>2, <1>3 DEF IInv, KeptIsWritten, JournalSaysThePower, saidVars, journalVars
<1>9. Agrees(toApp', fold')
  BY <1>1, <1>3, AgreesOn
<1> QED BY <1>5, <1>6, <1>7, <1>8, <1>9 DEF IInv

LEMMA LoadsKeeps ==
  ASSUME IInv, Loads
  PROVE  IInv'
<1>1. /\ script = "none" /\ script' = "late" /\ row' = Rows(row.up, fold)
      /\ UNCHANGED <<link, main, fold, reported, handed, journalVars, power, setting>>
      /\ marked' \in BOOLEAN /\ troubles' \in 0..MaxTroubles
  BY TroubleIs DEF Loads, IInv, TypeOK
<1>2. /\ row' \in [up : BOOLEAN, on : BOOLEAN, why : SUBSET Districts]
      /\ row'.up = row.up
  <2>1. fold \in FoldType /\ row.up \in BOOLEAN
    BY DEF IInv, TypeOK
  <2> QED BY <1>1, <2>1, RowsType
<1>3. toApp' \in Seq(Lines) /\ Agrees(toApp', fold)
  <2>1. toApp \in Seq(Lines) /\ Agrees(toApp, fold) /\ setting \in Settings
    BY DEF IInv, TypeOK
  <2>2. SettingLine(setting) \in Lines /\ SettingLine(setting).kind # "power"
    BY <2>1, OtherLines
  <2> QED BY <2>1, <2>2, AgreesMore DEF Loads
<1>4. TypeOK'
  BY <1>1, <1>2, <1>3 DEF IInv, TypeOK, journalVars
<1>5. HandsFollow' /\ UnheardIsUnread'
  BY <1>1 DEF IInv, HandsFollow, UnheardIsUnread, journalVars
<1>6. RowFollowsLink' /\ RowIsReported'
  BY <1>1, <1>2 DEF IInv, RowFollowsLink, OutageIsSaid, RowIsReported, journalVars
<1>7. KeptIsWritten' /\ JournalSaysThePower'
  BY <1>1 DEF IInv, KeptIsWritten, JournalSaysThePower, journalVars
<1> QED BY <1>1, <1>3, <1>4, <1>5, <1>6, <1>7 DEF IInv

LEMMA ConnectsKeeps ==
  ASSUME IInv, Connects
  PROVE  IInv'
<1>1. /\ link = "away" /\ link' = "open" /\ marked' = TRUE
      /\ UNCHANGED <<main, script, fold, saidVars, journalVars, power, setting, troubles>>
  BY DEF Connects, Started
<1>2. toApp' \in Seq(Lines) /\ Agrees(toApp', fold')
  <2>1. setting \in Settings
    BY DEF IInv, TypeOK
  <2>2. SettingLine(setting) \in Lines /\ SettingLine(setting).kind # "power"
    BY <2>1, OtherLines
  <2>3. <<>> \in Seq(Lines) /\ Agrees(<<>>, fold)
    BY AgreesNone
  <2>4. toApp' = Append(<<>>, SettingLine(setting))
    BY DEF Connects, Started
  <2> QED BY <1>1, <2>2, <2>3, <2>4, AgreesMore
<1>3. TypeOK'
  BY <1>1, <1>2 DEF IInv, TypeOK, saidVars, journalVars
<1>4. HandsFollow' /\ UnheardIsUnread'
  BY <1>1 DEF IInv, HandsFollow, UnheardIsUnread, saidVars, journalVars
<1>5. RowFollowsLink' /\ RowIsReported'
  BY <1>1 DEF IInv, RowFollowsLink, OutageIsSaid, RowIsReported, saidVars, journalVars
<1>6. KeptIsWritten' /\ JournalSaysThePower'
  BY <1>1 DEF IInv, KeptIsWritten, JournalSaysThePower, saidVars, journalVars
<1> QED BY <1>2, <1>3, <1>4, <1>5, <1>6 DEF IInv

LEMMA PollsKeeps ==
  ASSUME IInv, Polls
  PROVE  IInv'
<1>1. UNCHANGED <<link, main, script, fold, saidVars, journalVars, stationVars, troubles>>
  BY DEF Polls
<1>2. Digits(power) \in Seq(Lines) /\ Agrees(Digits(power), fold)
  <2>1. /\ Digits(power) \in Seq(Lines)
        /\ \A i \in DOMAIN Digits(power) : Digits(power)[i].of \in Districts
    BY DigitsAre
  <2> QED BY <2>1, SupplyAssumption DEF Agrees
<1>3. toApp' \in Seq(Lines) /\ Agrees(toApp', fold)
  <2>1. CASE marked
    <3>1. toApp' = Digits(power) \o <<>>
      BY <2>1 DEF Polls
    <3> QED BY <1>2, <3>1, ConcatEmptySeq
  <2>2. CASE ~marked
    <3>1. toApp' = Digits(power) \o <<EmptyStash>>
      BY <2>2 DEF Polls
    <3>2. toApp' = Append(Digits(power), EmptyStash)
      BY <1>2, <3>1, OtherLines, AppendIsConcat
    <3> QED BY <1>2, <3>2, OtherLines, AgreesMore
  <2> QED BY <2>1, <2>2
<1>4. /\ power' \in [Districts -> StationPowers] /\ setting' \in Settings /\ marked' \in BOOLEAN
      /\ troubles' \in 0..MaxTroubles
  BY <1>1 DEF IInv, TypeOK, stationVars
<1> QED BY <1>1, <1>3, <1>4, OutsideKeeps

LEMMA DiskFillsKeeps ==
  ASSUME IInv, DiskFills
  PROVE  IInv'
<1>1. /\ full' = TRUE
      /\ UNCHANGED <<link, main, script, fold, saidVars, kept, written, toApp, stationVars>>
      /\ troubles' \in 0..MaxTroubles
  BY TroubleIs DEF DiskFills
<1>2. TypeOK'
  BY <1>1 DEF IInv, TypeOK, saidVars, stationVars
<1>3. HandsFollow' /\ UnheardIsUnread'
  BY <1>1 DEF IInv, HandsFollow, UnheardIsUnread, saidVars
<1>4. RowFollowsLink' /\ RowIsReported'
  BY <1>1 DEF IInv, RowFollowsLink, OutageIsSaid, RowIsReported, saidVars
<1>5. KeptIsWritten' /\ JournalSaysThePower'
  BY <1>1 DEF KeptIsWritten, JournalSaysThePower
<1> QED BY <1>1, <1>2, <1>3, <1>4, <1>5 DEF IInv

\* A session ends, and what it was read from with it.
LEMMA ForgottenKeeps ==
  ASSUME IInv, Forget, UNCHANGED <<main, script, full>>,
         link' \in {"open", "unpolled", "closed"},
         link' = "unpolled" => full,
         row' \in [up : BOOLEAN, on : BOOLEAN, why : SUBSET Districts],
         row'.up => link' # "open",
         written' \in [Districts -> Written \cup {None}],
         toApp' = <<>>, UNCHANGED stationVars, troubles' \in 0..MaxTroubles
  PROVE  IInv'
<1>1. /\ fold' = Nothing /\ kept' = NoDistrict
      /\ reported' \in [Districts -> Records \cup {None}]
      /\ handed' \in [Districts -> Records \cup {None}]
      /\ \A d \in Districts : reported'[d] \in {None, Unread} /\ handed'[d] \in {None, reported'[d]}
      /\ script = "none" => handed' = NoDistrict
      /\ script = "first" => handed' = reported'
  BY ForgetIs
<1>2. toApp' \in Seq(Lines) /\ Agrees(toApp', fold')
  BY AgreesNone
<1>3. fold' \in FoldType /\ kept' \in [Districts -> Written \cup {None}] /\ ~fold'.heard
      /\ \A d \in Districts : kept'[d] = None /\ fold'.tracks[d] = None
  BY <1>1, NothingIs, NobodyIs
<1>4. TypeOK'
  BY <1>1, <1>2, <1>3 DEF IInv, TypeOK, stationVars
<1>5. HandsFollow' /\ UnheardIsUnread'
  BY <1>1, <1>3 DEF HandsFollow, UnheardIsUnread
<1>6. RowFollowsLink' /\ RowIsReported'
  BY <1>3 DEF RowFollowsLink, OutageIsSaid, RowIsReported
<1>7. KeptIsWritten' /\ JournalSaysThePower'
  BY <1>3 DEF KeptIsWritten, JournalSaysThePower
<1> QED BY <1>2, <1>4, <1>5, <1>6, <1>7 DEF IInv

LEMMA LowersIs ==
  ASSUME IInv, Lowers(Nothing)
  PROVE  /\ row' \in [up : BOOLEAN, on : BOOLEAN, why : SUBSET Districts] /\ ~row'.up
         /\ written' \in [Districts -> Written \cup {None}]
<1>1. row' \in [up : BOOLEAN, on : BOOLEAN, why : SUBSET Districts] /\ ~row'.up
  BY RowsType, NothingIs DEF Lowers
<1>2. written' \in [Districts -> Written \cup {None}]
  BY NobodyIs DEF Lowers, IInv, TypeOK
<1> QED BY <1>1, <1>2

LEMMA SilentKeeps ==
  ASSUME IInv, Silent
  PROVE  IInv'
<1>1. /\ Forget /\ UNCHANGED <<main, script, full>> /\ UNCHANGED stationVars
      /\ toApp' = <<>> /\ troubles' \in 0..MaxTroubles /\ link = "open"
  BY TroubleIs DEF Silent
<1>2. CASE full /\ row.up
  <2>1. link' = "unpolled" /\ row' = row /\ written' = written
    BY <1>2 DEF Silent
  <2>2. row' \in [up : BOOLEAN, on : BOOLEAN, why : SUBSET Districts]
        /\ written' \in [Districts -> Written \cup {None}]
    BY <2>1 DEF IInv, TypeOK
  <2> QED BY <1>1, <1>2, <2>1, <2>2, ForgottenKeeps
<1>3. CASE ~(full /\ row.up)
  <2>1. Lowers(Nothing) /\ link' = "open"
    BY <1>1, <1>3 DEF Silent
  <2> QED BY <1>1, <2>1, LowersIs, ForgottenKeeps
<1> QED BY <1>2, <1>3

\* A session that dies of the journal leaves what it had read.
LEMMA DeadKeeps ==
  ASSUME IInv, link' \in {"dead", "deaf"}, full,
         row' \in [up : BOOLEAN, on : BOOLEAN, why : SUBSET Districts], row.up => row'.up,
         toApp' = <<>>, troubles' \in 0..MaxTroubles,
         fold' = fold \/ (fold' \in FoldType /\ fold'.heard = TRUE /\ link' = "deaf"),
         UNCHANGED <<kept, reported, handed, main, script, full, written, stationVars>>
  PROVE  IInv'
<1>1. toApp' \in Seq(Lines) /\ Agrees(toApp', fold')
  BY AgreesNone
<1>2. TypeOK'
  BY <1>1 DEF IInv, TypeOK, stationVars
<1>3. HandsFollow' /\ UnheardIsUnread'
  BY DEF IInv, HandsFollow, UnheardIsUnread
<1>4. RowFollowsLink' /\ RowIsReported'
  BY DEF IInv, RowFollowsLink, OutageIsSaid, RowIsReported
<1>5. KeptIsWritten' /\ JournalSaysThePower'
  BY DEF KeptIsWritten, JournalSaysThePower
<1> QED BY <1>1, <1>2, <1>3, <1>4, <1>5 DEF IInv

LEMMA HeardFailsKeeps ==
  ASSUME IInv, HeardFails
  PROVE  IInv'
<1>1. /\ UNCHANGED <<main, script, full, written, stationVars, troubles>> /\ full
      /\ toApp' = <<>> /\ troubles' \in 0..MaxTroubles /\ written' \in [Districts -> Written \cup {None}]
  BY DEF HeardFails, IInv, TypeOK
<1>2. /\ row' \in [up : BOOLEAN, on : BOOLEAN, why : SUBSET Districts]
      /\ row.up => row'.up
  <2>1. toApp \in Seq(Lines) /\ toApp # <<>> /\ fold \in FoldType
    BY DEF HeardFails, IInv, TypeOK
  <2>2. Folded(fold, Head(toApp)) \in FoldType
    BY <2>1, FoldedIs, HeadTailProperties
  <2>3. row' \in {row, Rows(TRUE, Folded(fold, Head(toApp)))}
    BY DEF HeardFails
  <2> QED BY <2>2, <2>3, RowsType DEF IInv, TypeOK
<1>3. CASE link = "open"
  <2>1. link' = "closed" /\ Forget
    BY <1>3 DEF HeardFails
  <2> QED BY <1>1, <1>2, <2>1, ForgottenKeeps
<1>4. CASE link # "open"
  <2>1. link' = "deaf" /\ UNCHANGED <<kept, reported, handed>>
    BY <1>4 DEF HeardFails
  <2>2. PICK line : line \in Lines /\ fold' \in {fold, Folded(fold, line)}
    <3>1. toApp \in Seq(Lines) /\ toApp # <<>>
      BY DEF HeardFails, IInv, TypeOK
    <3>2. Head(toApp) \in Lines
      BY <3>1, HeadTailProperties
    <3>. QED BY <1>4, <3>2 DEF HeardFails
  <2>3. fold \in FoldType /\ Folded(fold, line) \in FoldType
    BY <2>2, FoldedIs DEF IInv, TypeOK
  <2>4. Folded(fold, line).heard = TRUE
    BY <2>3 DEF Folded, Powers, PowersAll, Diagnosed, FoldType
  <2> QED BY <1>1, <1>2, <2>1, <2>2, <2>3, <2>4, DeadKeeps
<1> QED BY <1>3, <1>4

LEMMA SessionEndsKeeps ==
  ASSUME IInv, SessionEnds
  PROVE  IInv'
<1>1. /\ UNCHANGED <<main, script, row, full, written, stationVars>> /\ toApp' = <<>>
      /\ row' \in [up : BOOLEAN, on : BOOLEAN, why : SUBSET Districts]
      /\ written' \in [Districts -> Written \cup {None}]
  BY DEF SessionEnds, IInv, TypeOK
<1>2. troubles' \in 0..MaxTroubles
  BY TroubleIs DEF SessionEnds, IInv, TypeOK
<1>3. CASE link = "open"
  <2>1. link' = "closed" /\ Forget
    BY <1>3 DEF SessionEnds
  <2> QED BY <1>1, <1>2, <2>1, ForgottenKeeps
<1>4. CASE link # "open"
  <2>1. link = "unpolled" /\ link' = "dead" /\ UNCHANGED <<fold, kept, reported, handed>>
    BY <1>4 DEF SessionEnds, Open
  <2>2. full
    BY <2>1 DEF IInv, RowFollowsLink
  <2> QED BY <1>1, <1>2, <2>1, <2>2, DeadKeeps
<1> QED BY <1>3, <1>4

LEMMA ClosedKeeps ==
  ASSUME IInv, Closed
  PROVE  IInv'
<1>1. /\ link = "closed" /\ ~fold.heard
      /\ UNCHANGED <<main, script, fold, reported, handed, kept, full, toApp, stationVars, troubles>>
  BY DEF Closed, IInv, UnheardIsUnread
<1>2. \/ full /\ link' = "dead" /\ row' = row /\ written' = written
      \/ link' \in {"ended", "away"} /\ Lowers(Nothing)
  BY DEF Closed
<1>3. /\ row' \in [up : BOOLEAN, on : BOOLEAN, why : SUBSET Districts]
      /\ written' \in [Districts -> Written \cup {None}]
      /\ link' \in {"ended", "away"} => ~row'.up
  BY <1>2, LowersIs DEF IInv, TypeOK
<1>4. Agrees(toApp', fold')
  BY <1>1 DEF IInv
<1>5. TypeOK'
  BY <1>1, <1>2, <1>3 DEF IInv, TypeOK, stationVars
<1>6. HandsFollow' /\ UnheardIsUnread'
  BY <1>1, <1>2 DEF IInv, HandsFollow, UnheardIsUnread
<1>7. RowFollowsLink' /\ RowIsReported'
  BY <1>1, <1>2, <1>3 DEF IInv, RowFollowsLink, OutageIsSaid, RowIsReported
<1>8. KeptIsWritten' /\ JournalSaysThePower'
  <2>1. \A d \in Districts : kept'[d] = None
    BY <1>1, NobodyIs DEF IInv, UnheardIsUnread
  <2> QED BY <1>1, <2>1 DEF KeptIsWritten, JournalSaysThePower
<1> QED BY <1>4, <1>5, <1>6, <1>7, <1>8 DEF IInv

LEMMA StandsDownKeeps ==
  ASSUME IInv, StandsDown
  PROVE  IInv'
<1>1. /\ main' = "standing" /\ UNCHANGED <<script, fold, row, journalVars, troubles>>
      /\ link' = IF link \in {"away", "dead", "deaf"} THEN "ended" ELSE link
  BY DEF StandsDown
<1>2. /\ reported' \in [Districts -> Records \cup {None}]
      /\ handed' \in [Districts -> Records \cup {None}]
      /\ \A d \in Districts : reported'[d] \in {None, Unread} /\ handed'[d] \in {None, reported'[d]}
      /\ script = "none" => handed' = NoDistrict
      /\ script = "first" => handed' = reported'
  <2>1. /\ reported \in [Districts -> Records \cup {None}]
        /\ handed \in [Districts -> Records \cup {None}]
        /\ \A d \in Districts : handed[d] \in {None, reported[d]}
        /\ script = "none" => handed = NoDistrict
        /\ script = "first" => handed = reported
    BY DEF IInv, TypeOK, HandsFollow
  <2>2. reported' = Unreads(reported) /\ handed' = Hands(reported, Unreads(reported), handed)
    BY DEF StandsDown
  <2> QED BY <2>1, <2>2, UnreadsIs
<1>3. /\ power' \in [Districts -> StationPowers] /\ setting' \in Settings /\ marked' \in BOOLEAN
      /\ toApp' \in Seq(Lines) /\ Agrees(toApp', fold)
  <2>1. CASE Switches(Districts, "off")
    BY <2>1, SwitchesIs
  <2>2. CASE UNCHANGED <<power, setting, marked, toApp>>
    BY <2>2 DEF IInv, TypeOK
  <2> QED BY <2>1, <2>2 DEF StandsDown
<1>4. TypeOK'
  BY <1>1, <1>2, <1>3 DEF IInv, TypeOK, journalVars
<1>5. HandsFollow' /\ UnheardIsUnread'
  BY <1>1, <1>2 DEF IInv, HandsFollow, UnheardIsUnread, journalVars
<1>6. RowFollowsLink' /\ RowIsReported'
  BY <1>1 DEF IInv, RowFollowsLink, OutageIsSaid, RowIsReported, journalVars
<1>7. KeptIsWritten' /\ JournalSaysThePower'
  BY <1>1 DEF IInv, KeptIsWritten, JournalSaysThePower, journalVars
<1> QED BY <1>1, <1>3, <1>4, <1>5, <1>6, <1>7 DEF IInv

\* The first line in line says of all what is folded of each.
LEMMA AgreesHead ==
  ASSUME NEW s \in Seq(Lines), s # <<>>, NEW f, Agrees(s, f),
         Head(s).kind = "power", Head(s).of = None
  PROVE  \A d \in Districts : f.tracks[d] \in {None, Head(s).says}
<1>1. 1 \in DOMAIN s /\ s[1] = Head(s)
  BY LenProperties, EmptySeq
<1>2. \A d \in Districts : AgreesAt(s, 1, d, f) /\ Before(s, 1, d) = {}
  BY <1>1 DEF Agrees, Before
<1> QED BY <1>1, <1>2 DEF AgreesAt

\* What is journalled of a line is what is folded of it.
LEMMA JournalledIs ==
  ASSUME NEW line \in Lines, NEW base \in FoldType, NEW f \in FoldType,
         NEW held \in [Districts -> Written \cup {None}],
         written \in [Districts -> Written \cup {None}],
         Journalled(line, f, held),
         NEW since \in [Districts -> Written \cup {None}],
         since = IF row.up /\ line.kind # "empty" THEN written ELSE NoDistrict,
         \A d \in Districts : f.tracks[d] =
           IF line.kind = "power" /\ line.of = d THEN line.says ELSE base.tracks[d]
  PROVE  /\ kept' \in [Districts -> Written \cup {None}]
         /\ written' \in [Districts -> Written \cup {None}]
         /\ (\A d \in Districts : held[d] # None => since[d] = held[d]) =>
              \A d \in Districts : kept'[d] # None => written'[d] = kept'[d]
         /\ (\A d \in Districts :
               /\ held[d] # None => since[d] = held[d]
               /\ base.tracks[d] # None => since[d] # None /\ since[d].on = base.tracks[d]) =>
              \A d \in Districts : f.tracks[d] # None =>
                written'[d] # None /\ written'[d].on = f.tracks[d]
<1> DEFINE is == PowerKept(line, f)
<1>1. CASE line.kind = "power" /\ line.of # None
  <2>1. line.of \in Districts /\ line.says \in BOOLEAN
    BY <1>1 DEF Lines, Kinds, EmptyStash, Line
  <2>2. is = [on |-> line.says, setting |-> f.setting]
    BY <1>1 DEF PowerKept
  <2>3. is \in Written /\ is # None /\ is.on = line.says
    BY <2>1, <2>2, NoneAssumption DEF Written, FoldType
  <2> HIDE DEF is
  <2>4. CASE held[line.of] = is
    <3>1. kept' = held /\ written' = since
      BY <1>1, <2>4 DEF Journalled, is
    <3> QED BY <1>1, <2>1, <2>3, <2>4, <3>1
  <2>5. CASE held[line.of] # is
    <3>1. kept' = [held EXCEPT ![line.of] = is] /\ written' = [since EXCEPT ![line.of] = is]
      BY <1>1, <2>3, <2>5 DEF Journalled, is
    <3>2. ASSUME NEW d \in Districts
          PROVE  /\ kept'[d] = IF d = line.of THEN is ELSE held[d]
                 /\ written'[d] = IF d = line.of THEN is ELSE since[d]
                 /\ f.tracks[d] = IF d = line.of THEN is.on ELSE base.tracks[d]
      BY <1>1, <2>1, <2>3, <3>1
    <3>3. /\ kept' \in [Districts -> Written \cup {None}]
          /\ written' \in [Districts -> Written \cup {None}]
      BY <2>1, <2>3, <3>1
    <3> QED BY <2>3, <3>2, <3>3
  <2> QED BY <2>4, <2>5
<1>2. CASE ~(line.kind = "power" /\ line.of # None)
  <2>1. is = None
    BY <1>2 DEF PowerKept
  <2>2. kept' = held /\ written' = since
    BY <2>1 DEF Journalled
  <2>3. \A d \in Districts : f.tracks[d] = base.tracks[d]
    BY <1>2, SupplyAssumption
  <2> QED BY <2>2, <2>3
<1> QED BY <1>1, <1>2

LEMMA HeardKeeps ==
  ASSUME IInv, Heard
  PROVE  IInv'
<1> DEFINE line == Head(toApp)
           restarted == line.kind = "empty"
           base == IF restarted THEN Nothing ELSE fold
           f    == Folded(base, line)
           held == IF restarted THEN NoDistrict ELSE kept
           was  == IF restarted THEN Unreads(reported) ELSE reported
           had  == IF restarted THEN Hands(NoDistrict, was, handed) ELSE handed
           since == IF row.up /\ line.kind # "empty" THEN written ELSE NoDistrict
           Rs   == [Districts -> Records \cup {None}]
           Ws   == [Districts -> Written \cup {None}]
<1>1. /\ toApp \in Seq(Lines) /\ toApp # <<>> /\ Agrees(toApp, fold)
      /\ fold \in FoldType /\ kept \in Ws /\ written \in Ws
      /\ reported \in Rs /\ handed \in Rs /\ setting \in Settings /\ row.up \in BOOLEAN
  BY DEF Heard, IInv, TypeOK
<1>2. line \in Lines
  BY <1>1, HeadTailProperties
<1>3. base \in FoldType /\ held \in Ws /\ since \in Ws
  BY <1>1, NothingIs, NobodyIs
<1>4. /\ was \in Rs /\ had \in Rs
      /\ \A d \in Districts : had[d] \in {None, was[d]}
      /\ script = "none" => had = NoDistrict
      /\ script = "first" => had = was
  <2>1. /\ \A d \in Districts : handed[d] \in {None, reported[d]}
        /\ script = "none" => handed = NoDistrict
        /\ script = "first" => handed = reported
    BY DEF IInv, HandsFollow
  <2>2. CASE restarted
    <3>1. was = Unreads(reported) /\ had = Hands(NoDistrict, Unreads(reported), handed)
      BY <2>2
    <3> HIDE DEF was, had
    <3> QED BY <1>1, <2>1, <3>1, UnreadsIs
  <2>3. CASE ~restarted
    <3>1. was = reported /\ had = handed
      BY <2>3
    <3> HIDE DEF was, had
    <3> QED BY <1>1, <2>1, <3>1
  <2> QED BY <2>2, <2>3
<1>5. /\ link \in {"open", "unpolled"} /\ fold' = f /\ row' = Rows(TRUE, f)
      /\ reported' = Reports(f, was) /\ handed' = Hands(was, reported', had)
      /\ Journalled(line, f, held)
      /\ UNCHANGED <<link, main, script, full, power, setting, troubles>>
      /\ IF restarted THEN marked' = TRUE /\ toApp' = Append(Tail(toApp), SettingLine(setting))
         ELSE toApp' = Tail(toApp) /\ UNCHANGED marked
  BY DEF Heard, Open, Started
<1> HIDE DEF was, had, held, since
<1>6. /\ f \in FoldType /\ f.heard
      /\ \A d \in Districts : f.tracks[d] =
           IF line.kind = "power" /\ line.of = d THEN line.says
           ELSE IF line.kind = "power" /\ line.of = None /\ base.tracks[d] # None THEN line.says
           ELSE base.tracks[d]
  <2> HIDE DEF base, line
  <2> QED BY <1>2, <1>3, FoldedIs
<1>7. \A d \in Districts : f.tracks[d] =
        IF line.kind = "power" /\ line.of = d THEN line.says ELSE base.tracks[d]
  <2>1. CASE line.kind = "power" /\ line.of = None
    <3>1. base = fold
      BY <2>1
    <3>2. \A d \in Districts : fold.tracks[d] \in {None, line.says}
      BY <1>1, <2>1, AgreesHead
    <3> HIDE DEF f, base, line
    <3> QED BY <1>6, <2>1, <3>1, <3>2, SupplyAssumption
  <2>2. CASE ~(line.kind = "power" /\ line.of = None)
    <3> HIDE DEF f, base, line
    <3> QED BY <1>6, <2>2
  <2> QED BY <2>1, <2>2
<1>8. toApp' \in Seq(Lines) /\ Agrees(toApp', f)
  <2>1. \A d \in Districts :
          f.tracks[d] \in {None, IF line.kind = "power" /\ line.of \in {d, None}
                                 THEN line.says ELSE fold.tracks[d]}
    <3>1. restarted => line.kind # "power" /\ \A d \in Districts : base.tracks[d] = None
      BY NothingIs
    <3>2. ~restarted => base = fold
      OBVIOUS
    <3> HIDE DEF f, base, line, restarted
    <3> QED BY <1>6, <3>1, <3>2
  <2>2. Tail(toApp) \in Seq(Lines) /\ Agrees(Tail(toApp), f)
    <3> HIDE DEF f
    <3> QED BY <1>1, <2>1, AgreesTail
  <2>3. SettingLine(setting) \in Lines /\ SettingLine(setting).kind # "power"
    BY <1>1, OtherLines
  <2> HIDE DEF f
  <2> QED BY <1>5, <2>2, <2>3, AgreesMore
<1>9. reported' \in Rs /\ handed' \in Rs
      /\ (\A d \in Districts : handed'[d] \in {None, reported'[d]})
      /\ (script = "none" => handed' = NoDistrict)
      /\ (script = "first" => handed' = reported')
  <2>1. Reports(f, was) \in Rs
    BY <1>4, <1>6, ReportsIs
  <2>2. reported' \in Rs /\ reported' = Reports(f, was) /\ handed' = Hands(was, Reports(f, was), had)
    BY <1>5, <2>1
  <2> HIDE DEF f
  <2> QED BY <1>4, <2>1, <2>2, HandsIs
<1>10. /\ row' \in [up : BOOLEAN, on : BOOLEAN, why : SUBSET Districts]
       /\ row'.up /\ row'.on = Powered(f) /\ row'.why = f.tripped
  <2> HIDE DEF f
  <2> QED BY <1>5, <1>6, RowsType
<1>11. ~full => /\ \A d \in Districts : held[d] # None => since[d] = held[d]
                /\ \A d \in Districts : base.tracks[d] # None =>
                     since[d] # None /\ since[d].on = base.tracks[d]
  <2>1. CASE restarted
    BY <2>1, NothingIs, NobodyIs DEF held
  <2>2. CASE ~restarted /\ ~fold.heard
    <3>1. fold = Nothing /\ kept = NoDistrict
      BY <2>2 DEF IInv, UnheardIsUnread
    <3> QED BY <2>2, <3>1, NothingIs, NobodyIs DEF held
  <2>3. CASE ~restarted /\ fold.heard
    <3>1. ~full => row.up
      BY <2>3 DEF IInv, RowFollowsLink
    <3>2. ~full => since = written /\ held = kept /\ base = fold
      BY <2>3, <3>1 DEF since, held
    <3> HIDE DEF base, line, restarted
    <3> QED BY <2>3, <3>2 DEF IInv, KeptIsWritten, JournalSaysThePower
  <2> QED BY <2>1, <2>2, <2>3
<1>12. /\ kept' \in Ws /\ written' \in Ws
       /\ ~full => \A d \in Districts : kept'[d] # None => written'[d] = kept'[d]
       /\ ~full => \A d \in Districts : f.tracks[d] # None =>
            written'[d] # None /\ written'[d].on = f.tracks[d]
  <2>1. since = IF row.up /\ line.kind # "empty" THEN written ELSE NoDistrict
    BY DEF since
  <2>2. line \in Lines /\ base \in FoldType /\ f \in FoldType /\ held \in Ws /\ since \in Ws
        /\ written \in Ws /\ Journalled(line, f, held)
    BY <1>1, <1>2, <1>3, <1>5, <1>6
  <2> HIDE DEF f, base, line, held, since
  <2>3. /\ kept' \in Ws /\ written' \in Ws
        /\ (\A d \in Districts : held[d] # None => since[d] = held[d]) =>
             \A d \in Districts : kept'[d] # None => written'[d] = kept'[d]
        /\ (\A d \in Districts :
              /\ held[d] # None => since[d] = held[d]
              /\ base.tracks[d] # None => since[d] # None /\ since[d].on = base.tracks[d]) =>
             \A d \in Districts : f.tracks[d] # None =>
               written'[d] # None /\ written'[d].on = f.tracks[d]
    BY <1>7, <2>1, <2>2, JournalledIs
  <2> HIDE DEF Ws
  <2> QED BY <1>11, <2>3, Zenon
<1>13. TypeOK'
  <2>1. marked' \in BOOLEAN
    BY <1>5 DEF IInv, TypeOK
  <2> HIDE DEF f
  <2> QED BY <1>5, <1>6, <1>8, <1>9, <1>10, <1>12, <2>1 DEF IInv, TypeOK
<1>14. HandsFollow' /\ UnheardIsUnread'
  <2> HIDE DEF f
  <2> QED BY <1>5, <1>6, <1>9 DEF HandsFollow, UnheardIsUnread
<1>15. RowFollowsLink' /\ RowIsReported'
  <2>1. RowFollowsLink'
    BY <1>5, <1>10 DEF IInv, RowFollowsLink, OutageIsSaid
  <2>2. /\ Powered(f) /\ Named(f) # {} =>
             \E d \in Districts : reported'[d] # None /\ reported'[d].state \in {"on", "alert"}
        /\ \A d \in f.tripped : reported'[d] # None /\ reported'[d].state = "tripped"
    <3> HIDE DEF f
    <3> QED BY <1>4, <1>5, <1>6, ReportedRow
  <2>3. RowIsReported'
    <3> HIDE DEF f
    <3> QED BY <1>5, <1>10, <2>2 DEF RowIsReported
  <2> QED BY <2>1, <2>3
<1>16. KeptIsWritten' /\ JournalSaysThePower'
  <2> HIDE DEF f
  <2> QED BY <1>5, <1>12 DEF KeptIsWritten, JournalSaysThePower
<1>17. Agrees(toApp', fold')
  BY <1>5, <1>8
<1> QED BY <1>13, <1>14, <1>15, <1>16, <1>17 DEF IInv

LEMMA InitInv == Init => IInv
<1> SUFFICES ASSUME Init PROVE IInv
  OBVIOUS
<1>1. /\ fold = Nothing /\ fold \in FoldType /\ ~fold.heard
      /\ reported = NoDistrict /\ handed = NoDistrict /\ kept = NoDistrict /\ written = NoDistrict
      /\ \A d \in Districts : fold.tracks[d] = None
  BY NothingIs DEF Init
<1>2. setting \in Settings
  BY SupplyAssumption DEF Init
<1>3. row \in [up : BOOLEAN, on : BOOLEAN, why : SUBSET Districts] /\ ~row.up
  BY RowsType, NothingIs DEF Init
<1>4. toApp \in Seq(Lines) /\ Agrees(toApp, fold)
  BY AgreesNone DEF Init
<1>5. troubles \in 0..MaxTroubles /\ power \in [Districts -> StationPowers]
  BY SupplyAssumption DEF Init, StationPowers
<1>6. TypeOK
  BY <1>1, <1>2, <1>3, <1>4, <1>5, NobodyIs DEF Init, TypeOK
<1>7. HandsFollow /\ UnheardIsUnread
  BY <1>1, NobodyIs DEF Init, HandsFollow, UnheardIsUnread
<1>8. RowFollowsLink /\ RowIsReported
  BY <1>1, <1>3 DEF Init, RowFollowsLink, OutageIsSaid, RowIsReported
<1>9. KeptIsWritten /\ JournalSaysThePower
  BY <1>1, NobodyIs DEF KeptIsWritten, JournalSaysThePower
<1> QED BY <1>4, <1>6, <1>7, <1>8, <1>9 DEF IInv

LEMMA NextKeeps == IInv /\ [Next]_vars => IInv'
<1> SUFFICES ASSUME IInv, [Next]_vars PROVE IInv'
  OBVIOUS
<1>1. CASE UNCHANGED vars
  <2>1. /\ UNCHANGED <<link, main, script, fold, saidVars, journalVars>>
        /\ UNCHANGED <<toApp, stationVars, troubles>>
    BY <1>1 DEF vars
  <2>2. /\ toApp' \in Seq(Lines) /\ Agrees(toApp', fold) /\ power' \in [Districts -> StationPowers]
        /\ setting' \in Settings /\ marked' \in BOOLEAN /\ troubles' \in 0..MaxTroubles
    BY <2>1 DEF IInv, TypeOK, stationVars
  <2> QED BY <2>1, <2>2, OutsideKeeps
<1>2. CASE World
  BY <1>2, SilentKeeps, OffKeeps, LoadsKeeps, DiskFillsKeeps, WorldKeeps DEF World
<1>3. CASE Link
  BY <1>3, ConnectsKeeps, HeardKeeps, HeardFailsKeeps, ClosedKeeps, SessionEndsKeeps DEF Link
<1>4. CASE Polls \/ SessionEnds \/ StandsDown
  BY <1>4, PollsKeeps, SessionEndsKeeps, StandsDownKeeps
<1> QED BY <1>1, <1>2, <1>3, <1>4 DEF Next

-----------------------------------------------------------------------------
(* The theorems.                                                           *)

\* In every reachable state what is handed follows what is reported, and the
\* journal what was folded.
THEOREM Invariance == Spec => []IInv
BY InitInv, NextKeeps, PTL DEF Spec

\* Every variable stays in its type.
THEOREM TypeCorrect == Spec => []TypeOK
<1>1. IInv => TypeOK
  BY DEF IInv
<1> QED BY <1>1, Invariance, PTL

\* The script is handed what the row says, of any districts and settings.
THEOREM RowIsHanded == Spec => []ScriptSeesTheRow
<1>1. IInv => ScriptSeesTheRow
  BY DEF IInv, HandsFollow, RowIsReported, ScriptSeesTheRow
<1> QED BY <1>1, Invariance, PTL

\* Nothing stands that is no longer read (`_forget`).
THEOREM NothingStands == Spec => []UnknownWhenUnread
<1>1. IInv => UnknownWhenUnread
  BY DEF IInv, HandsFollow, UnheardIsUnread, UnknownWhenUnread
<1> QED BY <1>1, Invariance, PTL

\* A station that is not connected to is not said to be reached, but where the
\* disk takes no more lines (`_publish_link`).
THEOREM OutageSaid == Spec => []OutageIsSaid
<1>1. IInv => OutageIsSaid
  BY DEF IInv, RowFollowsLink
<1> QED BY <1>1, Invariance, PTL

\* The journal's last power line of a district is what was last heard of it
\* (`_journalled_said`).
THEOREM JournalIsTrue == Spec => []JournalSaysThePower
<1>1. IInv => JournalSaysThePower
  BY DEF IInv
<1> QED BY <1>1, Invariance, PTL

-----------------------------------------------------------------------------
(* The link is what StationLink promises.                                  *)

\* What leaves the link, what is heard, the word and the disk alone is seen by
\* nobody there.
LEMMA LinkUnseen ==
  ASSUME link' = link, fold'.heard = fold.heard, row'.up = row.up, full' = full
  PROVE  UNCHANGED Said!linkVars
  BY DEF Said!linkVars, Session, Open

\* The one step that is two things: the task that hears the station dies with its
\* session, or as its poll has died before it, and then of the disk.
LEMMA LinkHeard ==
  ASSUME IInv, Heard \/ HeardFails
  PROVE  Said!LinkNext
<1>0. fold \in FoldType
  BY DEF IInv, TypeOK
<1>1. CASE Heard
  <2>1. /\ Open /\ link' = link /\ full' = full
        /\ \E f, line : fold' = Folded(f, line) /\ f \in {Nothing, fold}
        /\ row'.up = TRUE
    BY <1>1 DEF Heard, Rows
  <2>2. fold'.heard = TRUE
    <3>1. PICK f, line : fold' = Folded(f, line) /\ f \in {Nothing, fold}
      BY <2>1
    <3>2. f \in FoldType
      BY <3>1, <1>0, NothingIs
    <3>. QED BY <3>1, <3>2 DEF Folded, Powers, PowersAll, Diagnosed, FoldType
  <2>. QED BY <2>1, <2>2 DEF Said!LinkNext, Said!Hears, Session, Open
<1>2. CASE HeardFails
  <2>1. full /\ full' = full /\ row'.up = row.up
    BY <1>2 DEF HeardFails, Rows, IInv, TypeOK
  <2>2. CASE link = "open"
    <3>1. link' = "closed" /\ fold'.heard = FALSE
      BY <1>2, <2>2 DEF HeardFails, Forget, Nothing
    <3>. QED BY <2>1, <2>2, <3>1 DEF Said!LinkNext, Said!Leaves, Session, Open
  <2>3. CASE link # "open"
    <3>1. link = "unpolled" /\ link' = "deaf"
      BY <1>2, <2>3 DEF HeardFails, Open
    <3>2. fold'.heard \in {fold.heard, TRUE}
      <4>1. \E line : fold' \in {fold, Folded(fold, line)}
        BY <1>2, <2>3 DEF HeardFails
      <4>2. ASSUME NEW line PROVE Folded(fold, line).heard = TRUE
        BY <1>0 DEF Folded, Powers, PowersAll, Diagnosed, FoldType
      <4>. QED BY <4>1, <4>2
    <3>. QED BY <2>1, <3>1, <3>2 DEF Said!LinkNext, Said!Dies, Session, Open
  <2>. QED BY <2>2, <2>3
<1>. QED BY <1>1, <1>2

LEMMA LinkEnds ==
  ASSUME IInv, Silent \/ SessionEnds \/ Closed \/ StandsDown
  PROVE  Said!LinkNext \/ UNCHANGED Said!linkVars
<1>0. full \in BOOLEAN /\ row.up \in BOOLEAN /\ fold.heard \in BOOLEAN
  BY DEF IInv, TypeOK, FoldType
<1>1. CASE Silent
  <2>1. /\ link = "open" /\ fold.heard /\ full' = full
        /\ fold' = Nothing /\ fold'.heard = FALSE
    BY <1>1 DEF Silent, Forget, Nothing
  <2>2. link' \in {"open", "unpolled"} /\ row'.up = (row.up /\ full)
    <3>1. CASE full /\ row.up
      BY <1>1, <3>1 DEF Silent
    <3>2. CASE ~(full /\ row.up)
      <4>1. link' = "open" /\ row'.up = FALSE
        BY <1>1, <3>2 DEF Silent, Lowers, Rows
      <4>. QED BY <4>1, <3>2
    <3>. QED BY <3>1, <3>2
  <2>. QED BY <2>1, <2>2 DEF Said!LinkNext, Said!FallsSilent, Session, Open
<1>2. CASE SessionEnds
  <2>1. row' = row /\ full' = full
    BY <1>2 DEF SessionEnds
  <2>2. CASE link = "open"
    <3>1. link' = "closed" /\ fold'.heard = FALSE
      BY <1>2, <2>2 DEF SessionEnds, Forget, Nothing
    <3>. QED BY <2>1, <2>2, <3>1 DEF Said!LinkNext, Said!Leaves, Session, Open
  <2>3. CASE link # "open"
    <3>1. link = "unpolled" /\ link' = "dead" /\ fold' = fold
      BY <1>2, <2>3 DEF SessionEnds, Open
    <3>2. full
      BY <3>1 DEF IInv, RowFollowsLink
    <3>. QED BY <2>1, <3>1, <3>2 DEF Said!LinkNext, Said!Dies, Session, Open
  <2>. QED BY <2>2, <2>3
<1>3. CASE Closed
  <2>1. link = "closed" /\ fold' = fold /\ full' = full
    BY <1>3 DEF Closed
  <2>2. CASE full /\ row.up
    <3>1. link' = "dead" /\ row' = row
      BY <1>3, <2>2 DEF Closed
    <3>. QED BY <2>1, <2>2, <3>1 DEF Said!LinkNext, Said!Dies, Session, Open
  <2>3. CASE ~(full /\ row.up)
    <3>1. link' \in {"ended", "away"} /\ row'.up = FALSE
      BY <1>3, <2>3 DEF Closed, Lowers, Rows
    <3>. QED BY <2>1, <3>1 DEF Said!LinkNext, Said!Closes, Session, Open
  <2>. QED BY <2>2, <2>3
<1>4. CASE StandsDown
  <2>1. fold' = fold /\ row' = row /\ full' = full
    BY <1>4 DEF StandsDown, journalVars
  <2>2. CASE link = "away"
    <3>1. link' = "ended"
      BY <1>4, <2>2 DEF StandsDown
    <3>. QED BY <2>1, <2>2, <3>1 DEF Said!LinkNext, Said!Ends, Session, Open
  <2>3. CASE link # "away"
    <3>1. link' = link \/ (link \in {"dead", "deaf"} /\ link' = "ended")
      BY <1>4, <2>3 DEF StandsDown
    <3>. QED BY <2>1, <3>1 DEF Said!linkVars, Session, Open
  <2>. QED BY <2>2, <2>3
<1>. QED BY <1>1, <1>2, <1>3, <1>4

\* Nothing else moves it but a connection and a disk that fills.
LEMMA LinkBeside ==
  ASSUME IInv,
         \/ Connects \/ DiskFills \/ Polls \/ CommandsOn \/ CommandsOff \/ Loads \/ Reboots
         \/ \E p \in {"on", "off"}, ds \in {Districts} \cup {{d} : d \in Districts} :
              Throttle(ds, p)
         \/ \E d \in Districts, kind \in Kinds : Current(d, kind)
         \/ \E s \in Settings : Sets(s)
  PROVE  Said!LinkNext \/ UNCHANGED Said!linkVars
<1>0. full \in BOOLEAN /\ fold \in FoldType
  BY DEF IInv, TypeOK
<1>1. CASE Connects
  BY <1>1 DEF Connects, saidVars, journalVars, Said!LinkNext, Said!Opens, Session, Open
<1>2. CASE DiskFills
  BY <1>2 DEF DiskFills, saidVars, Said!LinkNext, Said!Breaks, Session, Open
<1>3. CASE CommandsOff
  <2>1. fold'.heard = fold.heard
    BY <1>0, <1>3 DEF CommandsOff, FoldType
  <2>. QED BY <1>3, <2>1, LinkUnseen DEF CommandsOff, saidVars, journalVars
<1>4. CASE Loads
  <2>1. row'.up = row.up
    BY <1>4 DEF Loads, Rows
  <2>. QED BY <1>4, <2>1, LinkUnseen DEF Loads, journalVars
<1>5. CASE Polls \/ CommandsOn \/ Reboots
  BY <1>5, LinkUnseen DEF Polls, CommandsOn, Reboots, saidVars, journalVars
<1>6. ASSUME NEW ds, NEW p, Throttle(ds, p) PROVE UNCHANGED Said!linkVars
  BY <1>6, LinkUnseen DEF Throttle, saidVars, journalVars
<1>7. ASSUME NEW d, NEW kind, Current(d, kind) PROVE UNCHANGED Said!linkVars
  BY <1>7, LinkUnseen DEF Current, saidVars, journalVars
<1>8. ASSUME NEW s, Sets(s) PROVE UNCHANGED Said!linkVars
  BY <1>8, LinkUnseen DEF Sets, saidVars, journalVars
<1>. QED BY <1>1, <1>2, <1>3, <1>4, <1>5, <1>6, <1>7, <1>8

\* The link goes up with an answer and down with a silence or its session, of any
\* districts and any number of lines, and of a disk that fills at any moment.
THEOREM KeepsItsLink == Spec => SaysItsLink
<1>1. Init => Said!LinkInit
  BY DEF Init, Nothing, Rows, Said!LinkInit, Session, Open
<1>2. IInv /\ [Next]_vars => [Said!LinkNext]_(Said!linkVars)
  <2>. SUFFICES ASSUME IInv, [Next]_vars PROVE Said!LinkNext \/ UNCHANGED Said!linkVars
    OBVIOUS
  <2>1. CASE UNCHANGED vars
    BY <2>1, LinkUnseen DEF vars, saidVars, journalVars
  <2>2. CASE Next
    BY <2>2, LinkHeard, LinkEnds, LinkBeside DEF Next, World, Link
  <2>. QED BY <2>1, <2>2
<1>. QED BY <1>1, <1>2, Invariance, PTL DEF Spec, SaysItsLink, Said!LinkSpec

\* So the word is up only while the station answers, or a session that has ended
\* is being closed: what StationLink comes to, of the supply.
THEOREM WordIsTrue == Spec => []Said!UpIsAnswering
<1>1. Said!LinkInit => Said!UpIsAnswering
  BY DEF Said!LinkInit, Said!UpIsAnswering
<1>2. Said!UpIsAnswering /\ [Said!LinkNext]_(Said!linkVars) => Said!UpIsAnswering'
  <2>. SUFFICES ASSUME Said!UpIsAnswering, Said!LinkNext \/ UNCHANGED Said!linkVars,
                       ~full'
       PROVE  /\ row'.up => fold'.heard \/ Session' \in {"closing", "over"}
              /\ fold'.heard => row'.up /\ Session' = "open"
    BY DEF Said!UpIsAnswering
  <2>1. CASE ~full /\ full' = full
    <3>1. /\ row.up => fold.heard \/ Session \in {"closing", "over"}
          /\ fold.heard => row.up /\ Session = "open"
      BY <2>1 DEF Said!UpIsAnswering
    <3>2. CASE Said!Opens \/ UNCHANGED Said!linkVars
      BY <3>1, <3>2 DEF Said!Opens, Said!linkVars
    <3>3. CASE Said!Hears
      BY <3>3 DEF Said!Hears
    <3>4. CASE Said!FallsSilent
      BY <2>1, <3>4 DEF Said!FallsSilent
    <3>5. CASE Said!Leaves \/ Said!Closes \/ Said!Ends
      BY <3>1, <3>5 DEF Said!Leaves, Said!Closes, Said!Ends
    <3>6. ~Said!Breaks /\ ~Said!Dies
      BY <2>1 DEF Said!Breaks, Said!Dies
    <3>. QED BY <3>2, <3>3, <3>4, <3>5, <3>6 DEF Said!LinkNext
  <2>2. full' = full
    BY DEF Said!linkVars, Said!LinkNext, Said!Opens, Said!Hears, Said!FallsSilent,
           Said!Leaves, Said!Closes, Said!Ends, Said!Breaks, Said!Dies
  <2>. QED BY <2>1, <2>2
<1>. QED BY <1>1, <1>2, KeepsItsLink, PTL DEF SaysItsLink, Said!LinkSpec
=============================================================================
