--------------------------- MODULE Editing_proofs ---------------------------
(***************************************************************************)
(* Editing keeps each railroad's text its own, calls applied only what the *)
(* store has had, and keeps what is typed: of any railroads, and any       *)
(* number of asks and puts on their way.                                   *)
(***************************************************************************)
EXTENDS Editing, TLAPS

-----------------------------------------------------------------------------
(* The asks.                                                               *)

\* One more ask leaves those that are out as they are.
LEMMA OneMore ==
  ASSUME NEW S, NEW s \in Seq(S), NEW e \in S
  PROVE  /\ Append(s, e) \in Seq(S)
         /\ \A i \in DOMAIN Append(s, e) :
              Append(s, e)[i] = e \/ (i \in DOMAIN s /\ Append(s, e)[i] = s[i])
OBVIOUS

\* Each is an ask, and changing one to another leaves asks.
LEMMA OneOf ==
  ASSUME NEW S, NEW s \in Seq(S), NEW i \in DOMAIN s
  PROVE  /\ s[i] \in S
         /\ \A e \in S : /\ [s EXCEPT ![i] = e] \in Seq(S)
                        /\ DOMAIN [s EXCEPT ![i] = e] = DOMAIN s
                        /\ \A j \in DOMAIN s : [s EXCEPT ![i] = e][j] = IF j = i THEN e ELSE s[j]
OBVIOUS

\* And one less.
LEMMA OneLess ==
  ASSUME NEW S, NEW s \in Seq(S), NEW i \in DOMAIN s
  PROVE  /\ RemoveAt(s, i) \in Seq(S)
         /\ \A j \in DOMAIN RemoveAt(s, i) : \E k \in DOMAIN s : RemoveAt(s, i)[j] = s[k]
<1> DEFINE before == SubSeq(s, 1, i - 1)
           after  == SubSeq(s, i + 1, Len(s))
<1>1. before \in Seq(S) /\ Len(before) = i - 1
  OBVIOUS
<1>2. after \in Seq(S) /\ Len(after) = Len(s) - i
  OBVIOUS
<1>3. \A j \in 1..(i - 1) : before[j] = s[j]
  OBVIOUS
<1>4. \A j \in 1..(Len(s) - i) : after[j] = s[i + j]
  OBVIOUS
<1> HIDE DEF before, after
<1>5. /\ before \o after \in Seq(S)
      /\ DOMAIN (before \o after) = 1..(Len(s) - 1)
      /\ \A j \in 1..(Len(s) - 1) : (before \o after)[j] =
            IF j < i THEN before[j] ELSE after[j - (i - 1)]
  BY <1>1, <1>2
<1>6. ASSUME NEW j \in 1..(Len(s) - 1)
      PROVE  \E k \in DOMAIN s : (before \o after)[j] = s[k]
  <2>1. i \in 1..Len(s) /\ DOMAIN s = 1..Len(s) /\ Len(s) \in Nat
    OBVIOUS
  <2>2. CASE j < i
    <3>1. j \in 1..(i - 1) /\ j \in DOMAIN s
      BY <2>1, <2>2
    <3>2. (before \o after)[j] = s[j]
      BY <1>3, <1>5, <2>2, <3>1
    <3> QED BY <3>1, <3>2
  <2>3. CASE ~(j < i)
    <3>1. j - (i - 1) \in 1..(Len(s) - i) /\ i + (j - (i - 1)) = j + 1 /\ j + 1 \in DOMAIN s
      BY <2>1, <2>3
    <3>2. (before \o after)[j] = s[j + 1]
      BY <1>4, <1>5, <2>3, <3>1
    <3> QED BY <3>1, <3>2
  <2> QED BY <2>2, <2>3
<1>7. RemoveAt(s, i) = before \o after
  BY DEF RemoveAt, before, after
<1> QED BY <1>5, <1>6, <1>7

-----------------------------------------------------------------------------
(* A draw.                                                                 *)

\* Opening another railroad, which asks for its script, or none.
LEMMA ShowsIsOK ==
  ASSUME NEW p, NEW h, PaneOK(p, h), NEW r \in Railroads \cup {None}
  PROVE  PaneOK(Shows(p, r), h)
<1>1. Empty \in Text /\ Empty.of = None
  BY DEF Empty, Text
<1>2. p.asks \in Seq(Ask)
  BY DEF PaneOK, PaneType
<1> DEFINE new == [railroad |-> r, said |-> Awaited]
           all == IF r = None THEN p.asks ELSE Append(p.asks, new)
           q   == Shows(p, r)
<1>3. r # None => new \in Ask
  BY DEF Ask
<1>4. all \in Seq(Ask)
  BY <1>2, <1>3, OneMore
<1>5. \A i \in DOMAIN all : all[i].said # Awaited => AnswerOf(all[i].said, all[i].railroad, h)
  <2>1. CASE r = None
    BY <2>1 DEF PaneOK
  <2>2. CASE r # None
    <3>1. \A i \in DOMAIN all : all[i] = new \/ (i \in DOMAIN p.asks /\ all[i] = p.asks[i])
      BY <1>2, <1>3, <2>2, OneMore
    <3> QED BY <3>1 DEF PaneOK
  <2> QED BY <2>1, <2>2
<1>6. q = [p EXCEPT !.railroad = r, !.warning = FALSE, !.opened = None,
                    !.edited = Empty, !.asks = all]
  BY DEF Shows
<1> HIDE DEF q, all
<1>7. q \in PaneType
  BY <1>1, <1>4, <1>6 DEF PaneOK, PaneType
<1>8. /\ q.edited = Empty /\ q.opened = None /\ q.asks = all
      /\ q.applying = p.applying /\ q.railroad = r
  BY <1>6 DEF PaneOK, PaneType
<1>9. PaneOK(q, h)
  BY <1>1, <1>5, <1>7, <1>8 DEF PaneOK
<1> QED BY <1>9 DEF q

\* A draw, whatever it opens, leaves a pane that is as the invariant has it.
LEMMA DrawIsOK ==
  ASSUME NEW p, NEW h, PaneOK(p, h)
  PROVE  PaneOK(Drawn(p), h)
<1> DEFINE q == WillUpdate(p)
<1>1. PaneOK(q, h)
  <2>1. CASE p.loaded = Unreported
    BY <2>1 DEF PaneOK, PaneType, WillUpdate, AnswerOf
  <2>2. CASE p.loaded # Unreported /\ q = Shows(p, p.loaded)
    <3>1. p.loaded \in Railroads \cup {None}
      BY <2>2 DEF PaneOK, PaneType
    <3>2. PaneOK(Shows(p, p.loaded), h)
      BY <3>1, ShowsIsOK
    <3> QED BY <2>2, <3>2
  <2>3. CASE q = p
    BY <2>3
  <2>4. CASE q = [p EXCEPT !.warning = FALSE]
    BY <2>4 DEF PaneOK, PaneType, AnswerOf
  <2> QED BY <2>1, <2>2, <2>3, <2>4 DEF WillUpdate
<1>2. Updated(q) \in [of : Railroads \cup {None}, text : Text] \cup {None}
  BY <1>1 DEF PaneOK, PaneType, Updated
<1>3. Drawn(p) = [q EXCEPT !.document = Updated(q)]
  BY DEF Drawn
<1> HIDE DEF q
<1>4. Drawn(p) \in PaneType
  BY <1>1, <1>2, <1>3 DEF PaneOK, PaneType
<1>5. /\ Drawn(p).edited = q.edited /\ Drawn(p).railroad = q.railroad
      /\ Drawn(p).opened = q.opened /\ Drawn(p).asks = q.asks
      /\ Drawn(p).applying = q.applying
  BY <1>1, <1>3 DEF PaneOK, PaneType
<1> QED BY <1>1, <1>4, <1>5 DEF PaneOK

\* And unapplied edits with no Apply in flight stay where they are.
LEMMA DrawKeepsEdits ==
  ASSUME NEW p, p \in PaneType, Unapplied(p), p.applying = None
  PROVE  Drawn(p).edited = p.edited /\ Drawn(p).railroad = p.railroad
<1>1. WillUpdate(p) \in {p, [p EXCEPT !.warning = FALSE]}
  BY DEF WillUpdate
<1> QED BY <1>1 DEF Drawn, PaneType

\* A pane that waits for an Apply is on the railroad that is loaded, or will be
\* once it is drawn.
LEMMA DrawIsOnLoaded ==
  ASSUME NEW p, p \in PaneType
  PROVE  OnLoaded(Drawn(p))
<1> DEFINE q == WillUpdate(p)
<1>1. q.applying # None => q.loaded \in {Unreported, q.railroad}
  BY DEF WillUpdate, Shows, PaneType
<1>2. Drawn(p).applying = q.applying /\ Drawn(p).loaded = q.loaded
      /\ Drawn(p).railroad = q.railroad
  BY DEF Drawn, WillUpdate, Shows, PaneType
<1> HIDE DEF q
<1> QED BY <1>1, <1>2 DEF OnLoaded

\* And on it nothing that is edited is lost.
LEMMA DrawOfLoaded ==
  ASSUME NEW p, p \in PaneType, p.loaded \in {Unreported, p.railroad}
  PROVE  Drawn(p).edited = p.edited /\ Drawn(p).railroad = p.railroad
<1>1. WillUpdate(p) \in {p, [p EXCEPT !.warning = FALSE]}
  BY DEF WillUpdate
<1> QED BY <1>1 DEF Drawn, PaneType

\* What the store has had it goes on having had.
LEMMA HeldGrows ==
  ASSUME NEW p, NEW h, NEW g, PaneOK(p, h), \A r \in Railroads : h[r] \subseteq g[r]
  PROVE  PaneOK(p, g)
<1>1. \A said : \A r \in Railroads : AnswerOf(said, r, h) => AnswerOf(said, r, g)
  BY DEF AnswerOf
<1>2. p.opened # None => p.railroad \in Railroads /\ AnswerOf(p.opened, p.railroad, g)
  BY <1>1 DEF PaneOK
<1>3. \A i \in DOMAIN p.asks : p.asks[i].railroad \in Railroads
  <2>1. p.asks \in Seq(Ask)
    BY DEF PaneOK, PaneType
  <2>2. \A i \in DOMAIN p.asks : p.asks[i] \in Ask
    BY <2>1, OneOf
  <2> QED BY <2>2 DEF Ask
<1>4. p.applying # None => p.applying.railroad \in Railroads
  BY DEF PaneOK, PaneType
<1> QED BY <1>1, <1>2, <1>3, <1>4 DEF PaneOK

-----------------------------------------------------------------------------
(* The steps.                                                              *)

LEMMA InitInv == EditInit => IInv
<1> SUFFICES ASSUME EditInit PROVE IInv
  OBVIOUS
<1>1. Empty \in Text /\ Empty.of = None
  BY DEF Empty, Text
<1>2. store \in [Railroads -> Text \cup {None}]
  <2>1. [r \in Railroads |-> [of |-> r, compiles |-> TRUE]] \in [Railroads -> Text \cup {None}]
    BY DEF Text
  <2>2. \A f \in [Railroads -> {None}] : f \in [Railroads -> Text \cup {None}]
    OBVIOUS
  <2> QED BY <2>1, <2>2 DEF EditInit
<1>3. held \in [Railroads -> SUBSET Text]
  BY <1>2 DEF EditInit
<1>4. <<>> \in Seq(Ask)
  OBVIOUS
<1>5. pane \in PaneType
  BY <1>1, <1>4 DEF EditInit, PaneType
<1>6. PaneOK(pane, held) /\ OnLoaded(pane)
  BY <1>1, <1>5 DEF EditInit, PaneOK, OnLoaded
<1>7. TextsOfTheirOwn
  BY DEF EditInit, TextsOfTheirOwn
<1>8. \A r \in Railroads : store[r] # None => store[r] \in held[r]
  BY DEF EditInit
<1> QED BY <1>2, <1>3, <1>5, <1>6, <1>7, <1>8 DEF EditInit, IInv, TypeOK

\* A turn of the page that leaves the store alone.
LEMMA TurnKeeps ==
  ASSUME IInv, NEW p, PaneOK(p, held), Draws(p), UNCHANGED <<puts, store, held>>
  PROVE  IInv'
<1>1. PaneOK(pane', held) /\ pane' \in PaneType
  BY DrawIsOK DEF Draws, PaneOK
<1>2. OnLoaded(pane')
  BY DrawIsOnLoaded DEF Draws, PaneOK
<1> QED BY <1>1, <1>2 DEF IInv, TypeOK, TextsOfTheirOwn

LEMMA PersonKeeps ==
  ASSUME IInv,
         \/ \E l \in Railroads \cup {None, Unreported} : Reports(l)
         \/ pane.railroad # None /\ \E t \in TextsOf(pane.railroad) : Types(t)
         \/ Applies \/ Cancels \/ Confirms \/ Discards
  PROVE  IInv'
<1> USE DEF IInv
<1>1. ASSUME NEW l \in Railroads \cup {None, Unreported}, Reports(l) PROVE IInv'
  <2>1. PaneOK([pane EXCEPT !.loaded = l], held)
    BY DEF PaneOK, PaneType
  <2> QED BY <1>1, <2>1, TurnKeeps DEF Reports
<1>2. ASSUME pane.railroad # None, NEW t \in TextsOf(pane.railroad), Types(t) PROVE IInv'
  <2>1. t \in Text /\ t.of = pane.railroad
    BY <1>2 DEF TextsOf, Text, PaneOK, PaneType
  <2>2. pane.document \in [of : Railroads \cup {None}, text : Text]
    BY <1>2 DEF Types, PaneOK, PaneType
  <2>3. PaneOK([pane EXCEPT !.document.text = t, !.edited = t], held)
    BY <2>1, <2>2 DEF PaneOK, PaneType
  <2> QED BY <1>2, <2>3, TurnKeeps DEF Types
<1>3. ASSUME Applies PROVE IInv'
  <2>1. PaneOK([pane EXCEPT !.warning = TRUE], held)
    BY DEF PaneOK, PaneType
  <2> QED BY <1>3, <2>1, TurnKeeps DEF Applies
<1>4. ASSUME Cancels PROVE IInv'
  <2>1. PaneOK([pane EXCEPT !.warning = FALSE], held)
    BY DEF PaneOK, PaneType
  <2> QED BY <1>4, <2>1, TurnKeeps DEF Cancels
<1>5. ASSUME Confirms PROVE IInv'
  <2> DEFINE sent == [railroad |-> pane.railroad, text |-> pane.edited, said |-> "waiting"]
  <2>1. pane.railroad \in Railroads /\ pane.edited \in Text
    BY <1>5 DEF Confirms, PaneOK, PaneType
  <2>2. PaneOK([pane EXCEPT !.warning = FALSE, !.applying = sent], held)
    BY <2>1 DEF PaneOK, PaneType
  <2> QED BY <1>5, <2>2, TurnKeeps DEF Confirms
<1>6. ASSUME Discards PROVE IInv'
  <2>1. pane.loaded \in Railroads \cup {None}
    BY <1>6 DEF Discards, Gone, PaneOK, PaneType
  <2>2. PaneOK(Shows(pane, pane.loaded), held)
    BY <2>1, ShowsIsOK
  <2> QED BY <1>6, <2>2, TurnKeeps DEF Discards
<1> QED BY <1>1, <1>2, <1>3, <1>4, <1>5, <1>6

\* What the face says of a script is of the store's own.
LEMMA ReadsKeeps ==
  ASSUME IInv, NEW i \in DOMAIN pane.asks, Reads(i)
  PROVE  IInv'
<1> DEFINE r == pane.asks[i].railroad
<1>1. pane.asks \in Seq(Ask)
  BY DEF IInv, PaneOK, PaneType
<1>2. pane.asks[i] \in Ask /\ r \in Railroads
  <2>1. pane.asks[i] \in Ask
    BY <1>1, OneOf
  <2> QED BY <2>1 DEF Ask
<1>3. PICK text \in {store[r], Unreported} : pane' = [pane EXCEPT !.asks[i].said = Opened(text)]
  BY DEF Reads
<1>4. Opened(text) \in Answer /\ AnswerOf(Opened(text), r, held)
  <2>1. store[r] # None => /\ store[r] \in Text /\ store[r] \in held[r]
                           /\ store[r].of \in {r, None}
    BY <1>2 DEF IInv, TypeOK, TextsOfTheirOwn
  <2>2. CASE text = Unreported
    <3>1. Opened(text) = [text |-> None, stored |-> FALSE]
      BY <2>2, EditingAssumption, Zenon DEF Opened
    <3> QED BY <3>1 DEF Answer, AnswerOf
  <2>3. CASE text # Unreported /\ text = None
    <3>1. Opened(text) = [text |-> Sample, stored |-> FALSE]
      BY <2>3, EditingAssumption, Zenon DEF Opened
    <3>2. Sample \in Text /\ Sample.of = None
      BY DEF Sample, Text
    <3> QED BY <3>1, <3>2 DEF Answer, AnswerOf
  <2>4. CASE text # Unreported /\ text # None
    <3>1. text = store[r]
      BY <1>3, <2>4
    <3>2. Opened(text) = [text |-> text, stored |-> TRUE]
      BY <2>4, Zenon DEF Opened
    <3> HIDE DEF r
    <3> QED BY <2>1, <2>4, <3>1, <3>2 DEF Answer, AnswerOf
  <2> QED BY <2>2, <2>3, <2>4
<1> DEFINE told == [railroad |-> r, said |-> Opened(text)]
           now  == [pane.asks EXCEPT ![i] = told]
<1>5. [pane.asks[i] EXCEPT !.said = Opened(text)] = told
  BY <1>2 DEF Ask
<1>6. told \in Ask
  BY <1>2, <1>4 DEF Ask
<1>7. now \in Seq(Ask) /\ DOMAIN now = DOMAIN pane.asks
      /\ \A j \in DOMAIN now : now[j] = IF j = i THEN told ELSE pane.asks[j]
  BY <1>1, <1>6, OneOf
<1>8. told.said = Opened(text) /\ told.railroad = r
  OBVIOUS
<1>9. pane' = [pane EXCEPT !.asks = now]
  BY <1>3, <1>5
<1> HIDE DEF now, told, r
<1>10. \A j \in DOMAIN now : now[j].said # Awaited => AnswerOf(now[j].said, now[j].railroad, held)
  BY <1>4, <1>7, <1>8 DEF IInv, PaneOK
<1>11. PaneOK(pane', held) /\ pane' \in PaneType
  BY <1>7, <1>9, <1>10 DEF IInv, PaneOK, PaneType
<1>12. OnLoaded(pane')
  BY <1>9 DEF IInv, PaneOK, PaneType, OnLoaded
<1> QED BY <1>11, <1>12 DEF IInv, TypeOK, TextsOfTheirOwn, Reads

\* An answer to an ask is taken only by the railroad it is about.
LEMMA ShownKeeps ==
  ASSUME IInv, NEW i \in DOMAIN pane.asks, Shown(i)
  PROVE  IInv'
<1> DEFINE said == pane.asks[i].said
           left == RemoveAt(pane.asks, i)
           text == IF said.text = None THEN Empty ELSE said.text
<1>1. pane.asks \in Seq(Ask) /\ pane \in PaneType /\ PaneOK(pane, held)
  BY DEF IInv, PaneOK, PaneType
<1>2. pane.asks[i] \in Ask
  BY <1>1, OneOf
<1>3. said \in Answer /\ pane.asks[i].railroad \in Railroads
      /\ AnswerOf(said, pane.asks[i].railroad, held)
  BY <1>1, <1>2 DEF Ask, Shown, PaneOK
<1>4. left \in Seq(Ask)
      /\ \A j \in DOMAIN left : \E k \in DOMAIN pane.asks : left[j] = pane.asks[k]
  BY <1>1, OneLess
<1>5. \A j \in DOMAIN left : left[j].said # Awaited => AnswerOf(left[j].said, left[j].railroad, held)
  BY <1>1, <1>4 DEF PaneOK
<1>6. text \in Text /\ text.of \in {pane.asks[i].railroad, None}
  BY <1>3 DEF Answer, AnswerOf, Empty, Text
<1>7. CASE pane.asks[i].railroad # pane.railroad
  <2> HIDE DEF left
  <2>1. PaneOK([pane EXCEPT !.asks = left], held)
    BY <1>1, <1>4, <1>5 DEF PaneOK, PaneType
  <2>2. Draws([pane EXCEPT !.asks = left])
    BY <1>7 DEF Shown, left
  <2> QED BY <2>1, <2>2, TurnKeeps DEF Shown
<1>8. CASE pane.asks[i].railroad = pane.railroad
  <2>1. Draws([pane EXCEPT !.asks = left, !.opened = said, !.edited = text])
    BY <1>8 DEF Shown
  <2> HIDE DEF left, text, said
  <2>2. PaneOK([pane EXCEPT !.asks = left, !.opened = said, !.edited = text], held)
    BY <1>1, <1>3, <1>4, <1>5, <1>6, <1>8 DEF PaneOK, PaneType
  <2> QED BY <2>1, <2>2, TurnKeeps DEF Shown
<1> QED BY <1>7, <1>8

\* What the face does with an Apply leaves every text where it was.
LEMMA FaceKeeps ==
  ASSUME IInv, Refuses \/ Puts \/ Unanswered
  PROVE  IInv'
<1>1. pane \in PaneType /\ PaneOK(pane, held)
  BY DEF IInv, PaneOK
<1>2. pane.applying # None
  BY DEF Refuses, Puts, Unanswered, Sent
<1>3. pane.applying \in [railroad : Railroads, text : Text,
                         said : {"waiting", "put", "applied", "refused"}]
  BY <1>1, <1>2 DEF PaneType
<1>4. ASSUME NEW said \in {"put", "refused"}
      PROVE  PaneOK([pane EXCEPT !.applying.said = said], held)
  BY <1>1, <1>2, <1>3 DEF PaneOK, PaneType
<1>5. PaneOK(pane', held) /\ pane' \in PaneType
  BY <1>4 DEF Refuses, Puts, Unanswered, PaneOK
<1>7. OnLoaded(pane')
  BY <1>1, <1>2 DEF IInv, Refuses, Puts, Unanswered, OnLoaded, PaneType
<1>6. \A put \in puts' : /\ put \in [railroad : Railroads, text : Text]
                         /\ put.text.of \in {put.railroad, None}
  BY <1>1, <1>2, <1>3 DEF IInv, TypeOK, PaneOK, Refuses, Puts, Unanswered
<1> QED BY <1>5, <1>6, <1>7 DEF IInv, TypeOK, TextsOfTheirOwn, Refuses, Puts, Unanswered

\* What landed as applied the store has had.
LEMMA LandedKeeps ==
  ASSUME IInv, Landed
  PROVE  IInv'
<1> DEFINE done == [pane EXCEPT !.applying = None]
           now  == [text |-> pane.applying.text, stored |-> TRUE]
<1>1. pane \in PaneType /\ PaneOK(pane, held) /\ pane.applying # None
  BY DEF IInv, PaneOK, Landed
<1>2. PaneOK(done, held)
  BY <1>1 DEF PaneOK, PaneType
<1>3. CASE pane.applying.said = "applied" /\ pane.applying.railroad = pane.railroad
  <2>1. pane.applying.text \in Text /\ pane.railroad \in Railroads
    BY <1>1, <1>3 DEF PaneType
  <2>2. now \in Answer /\ AnswerOf(now, pane.railroad, held)
    BY <1>1, <1>3, <2>1 DEF Answer, AnswerOf, PaneOK
  <2>3. Draws([pane EXCEPT !.applying = None, !.opened = now])
    BY <1>3 DEF Landed
  <2> HIDE DEF now
  <2>4. PaneOK([pane EXCEPT !.applying = None, !.opened = now], held)
    BY <1>1, <2>1, <2>2 DEF PaneOK, PaneType
  <2> QED BY <2>3, <2>4, TurnKeeps DEF Landed
<1>4. CASE ~(pane.applying.said = "applied" /\ pane.applying.railroad = pane.railroad)
  <2>1. Draws(done)
    BY <1>4 DEF Landed
  <2> HIDE DEF done
  <2> QED BY <1>2, <2>1, TurnKeeps DEF Landed
<1> QED BY <1>3, <1>4

\* The store takes a text of the railroad it is for, and has had it from then on.
LEMMA TakesKeeps ==
  ASSUME IInv, NEW r \in Railroads, NEW t \in Text, t.of \in {r, None}, Takes(r, t)
  PROVE  /\ store' \in [Railroads -> Text \cup {None}] /\ held' \in [Railroads -> SUBSET Text]
         /\ \A q \in Railroads : held[q] \subseteq held'[q]
         /\ t \in held'[r]
         /\ \A q \in Railroads : store'[q] # None => store'[q] \in held'[q]
         /\ TextsOfTheirOwn'
         /\ PaneOK(pane, held')
<1>1. store' \in [Railroads -> Text \cup {None}] /\ held' \in [Railroads -> SUBSET Text]
  BY DEF IInv, TypeOK, Takes
<1>2. t \in held'[r] /\ \A q \in Railroads : held[q] \subseteq held'[q]
  BY DEF IInv, TypeOK, Takes
<1>3. \A q \in Railroads : store'[q] # None => store'[q] \in held'[q]
  BY <1>2 DEF IInv, TypeOK, Takes
<1>4. TextsOfTheirOwn'
  BY DEF IInv, TypeOK, Takes, TextsOfTheirOwn
<1>5. PaneOK(pane, held')
  BY <1>2, HeldGrows DEF IInv
<1> QED BY <1>1, <1>2, <1>3, <1>4, <1>5

LEMMA StoreKeeps ==
  ASSUME IInv,
         \/ \E put \in puts : StoreTakes(put)
         \/ \E r \in Railroads : \E t \in TextsOf(r) : AnotherApplies(r, t)
  PROVE  IInv'
<1>1. ASSUME NEW put \in puts, StoreTakes(put) PROVE IInv'
  <2>1. put.railroad \in Railroads /\ put.text \in Text /\ put.text.of \in {put.railroad, None}
    BY DEF IInv, TypeOK
  <2>2. Takes(put.railroad, put.text)
    BY <1>1 DEF StoreTakes
  <2>3. /\ store' \in [Railroads -> Text \cup {None}] /\ held' \in [Railroads -> SUBSET Text]
        /\ put.text \in held'[put.railroad]
        /\ \A q \in Railroads : store'[q] # None => store'[q] \in held'[q]
        /\ TextsOfTheirOwn' /\ PaneOK(pane, held')
    BY <2>1, <2>2, TakesKeeps
  <2>4. PaneOK(pane', held') /\ pane' \in PaneType
    <3>1. CASE pane' = pane
      BY <2>3, <3>1 DEF PaneOK
    <3>2. CASE /\ pane.applying # None
               /\ put.railroad = pane.applying.railroad /\ put.text = pane.applying.text
               /\ pane' = [pane EXCEPT !.applying.said = "applied"]
      <4>1. pane.applying \in [railroad : Railroads, text : Text,
                               said : {"waiting", "put", "applied", "refused"}]
        BY <2>3, <3>2 DEF PaneOK, PaneType
      <4> QED BY <2>3, <3>2, <4>1 DEF PaneOK, PaneType
    <3> QED BY <1>1, <3>1, <3>2 DEF StoreTakes
  <2>5. OnLoaded(pane')
    BY <1>1, <2>3 DEF IInv, StoreTakes, PaneOK, PaneType, OnLoaded
  <2> QED BY <1>1, <2>3, <2>4, <2>5 DEF IInv, TypeOK, StoreTakes
<1>2. ASSUME NEW r \in Railroads, NEW t \in TextsOf(r), AnotherApplies(r, t) PROVE IInv'
  <2>1. t \in Text /\ t.of \in {r, None}
    BY DEF TextsOf, Text
  <2>2. Takes(r, t)
    BY <1>2 DEF AnotherApplies
  <2>3. /\ store' \in [Railroads -> Text \cup {None}] /\ held' \in [Railroads -> SUBSET Text]
        /\ \A q \in Railroads : store'[q] # None => store'[q] \in held'[q]
        /\ TextsOfTheirOwn' /\ PaneOK(pane, held')
    BY <2>1, <2>2, TakesKeeps
  <2>4. PaneOK(pane', held') /\ pane' \in PaneType
    BY <1>2, <2>3 DEF AnotherApplies, PaneOK
  <2> QED BY <1>2, <2>3, <2>4 DEF IInv, TypeOK, AnotherApplies
<1> QED BY <1>1, <1>2

LEMMA NextKeeps == IInv /\ [EditNext]_editVars => IInv'
<1> SUFFICES ASSUME IInv, [EditNext]_editVars PROVE IInv'
  OBVIOUS
<1>1. CASE UNCHANGED editVars
  BY <1>1 DEF editVars, IInv, TypeOK, PaneOK, OnLoaded, TextsOfTheirOwn
<1>2. CASE \/ \E l \in Railroads \cup {None, Unreported} : Reports(l)
           \/ pane.railroad # None /\ \E t \in TextsOf(pane.railroad) : Types(t)
           \/ Applies \/ Cancels \/ Confirms \/ Discards
  BY <1>2, PersonKeeps
<1>3. ASSUME NEW i \in DOMAIN pane.asks, Reads(i) PROVE IInv'
  BY <1>3, ReadsKeeps
<1>4. ASSUME NEW i \in DOMAIN pane.asks, Shown(i) PROVE IInv'
  BY <1>4, ShownKeeps
<1>5. CASE Refuses \/ Puts \/ Unanswered
  BY <1>5, FaceKeeps
<1>6. CASE Landed
  BY <1>6, LandedKeeps
<1>7. CASE \/ \E put \in puts : StoreTakes(put)
           \/ \E r \in Railroads : \E t \in TextsOf(r) : AnotherApplies(r, t)
  BY <1>7, StoreKeeps
<1> QED BY <1>1, <1>2, <1>3, <1>4, <1>5, <1>6, <1>7 DEF EditNext

-----------------------------------------------------------------------------
(* The theorems.                                                           *)

\* In every reachable state each text is beside the railroad it is for and what
\* is called stored was.
THEOREM Invariance == EditSpec => []IInv
BY InitInv, NextKeeps, PTL DEF EditSpec

\* The pane, the puts and the store are always of their types.
THEOREM TypeCorrect == EditSpec => []TypeOK
<1>1. IInv => TypeOK
  BY DEF IInv
<1> QED BY <1>1, Invariance, PTL

\* The store is never given another railroad's text (dccex-script.ts:515-520).
THEOREM OwnTexts == EditSpec => []TextsOfTheirOwn
<1>1. IInv => TextsOfTheirOwn
  BY DEF IInv
<1> QED BY <1>1, Invariance, PTL

\* What the page does not call unapplied the store has had.
THEOREM AppliedWasHeld == EditSpec => []SaidAppliedWasHeld
<1>1. IInv => SaidAppliedWasHeld
  BY DEF IInv, PaneOK, AnswerOf, SaidAppliedWasHeld, HasText, Unapplied
<1> QED BY <1>1, Invariance, PTL

\* Edits that are not applied stay in the pane through every load and every
\* answer (docs/ui/README.md:459-464), but for two, which lose them: a load while
\* an Apply is in flight (dccex-script.ts:464-472), and the answer to an ask of
\* the same railroad, loaded again since (dccex-script.ts:516-517).
THEOREM EditsAreKept == EditSpec => EditsStay
<1> DEFINE Kept == pane'.edited = pane.edited /\ pane'.railroad = pane.railroad
           Own  == Discards \/ \E t \in TextsOf(pane.railroad) : Types(t)
           Lost == LoadsUnderApply \/ OpensAgain
           Stay == Unapplied(pane) => Kept \/ Own \/ Lost
<1>1. ASSUME IInv, EditNext, Unapplied(pane) PROVE Kept \/ Own \/ Lost
  <2>1. pane \in PaneType /\ OnLoaded(pane)
    BY <1>1 DEF IInv, PaneOK
  <2>2. ASSUME NEW p, p \in PaneType, p.edited = pane.edited, p.railroad = pane.railroad,
               p.opened = pane.opened, Draws(p),
               p.applying = None \/ p.loaded \in {Unreported, p.railroad}
        PROVE  Kept
    <3>1. Unapplied(p)
      BY <1>1, <2>2 DEF Unapplied, HasText
    <3> QED BY <2>2, <3>1, DrawKeepsEdits, DrawOfLoaded DEF Draws
  <2>3. ASSUME NEW l \in Railroads \cup {None, Unreported}, Reports(l) PROVE Kept \/ Lost
    <3> DEFINE p == [pane EXCEPT !.loaded = l]
    <3>1. /\ p \in PaneType /\ p.edited = pane.edited /\ p.railroad = pane.railroad
          /\ p.opened = pane.opened /\ p.applying = pane.applying /\ p.loaded = l
      BY <2>1 DEF PaneType
    <3>2. Draws(p)
      BY <2>3 DEF Reports
    <3> HIDE DEF p
    <3>3. CASE pane.applying = None \/ l = Unreported
      BY <2>2, <3>1, <3>2, <3>3
    <3>4. CASE pane.applying # None /\ l # Unreported
      BY <2>3, <3>4 DEF LoadsUnderApply
    <3> QED BY <3>3, <3>4
  <2>4. CASE Applies
    <3> DEFINE p == [pane EXCEPT !.warning = TRUE]
    <3>1. /\ p \in PaneType /\ p.edited = pane.edited /\ p.railroad = pane.railroad
          /\ p.opened = pane.opened /\ p.applying = None
      BY <2>1, <2>4 DEF Applies, PaneType
    <3>2. Draws(p)
      BY <2>4 DEF Applies
    <3> HIDE DEF p
    <3> QED BY <2>2, <3>1, <3>2
  <2>5. CASE Cancels
    <3> DEFINE p == [pane EXCEPT !.warning = FALSE]
    <3>1. /\ p \in PaneType /\ p.edited = pane.edited /\ p.railroad = pane.railroad
          /\ p.opened = pane.opened /\ p.applying = pane.applying /\ p.loaded = pane.loaded
      BY <2>1 DEF PaneType
    <3>2. Draws(p)
      BY <2>5 DEF Cancels
    <3> HIDE DEF p
    <3> QED BY <2>1, <2>2, <3>1, <3>2 DEF OnLoaded
  <2>6. CASE Confirms
    <3> DEFINE sent == [railroad |-> pane.railroad, text |-> pane.edited, said |-> "waiting"]
               p == [pane EXCEPT !.warning = FALSE, !.applying = sent]
    <3>1. p.loaded = p.railroad \/ p.loaded = Unreported
      BY <2>1, <2>6 DEF Confirms, Gone, PaneType
    <3>2. Draws(p)
      BY <2>6 DEF Confirms
    <3>3. /\ DOMAIN p = DOMAIN pane
          /\ p.edited = pane.edited /\ p.railroad = pane.railroad
      BY <2>1 DEF PaneType
    <3> HIDE DEF p
    <3>4. WillUpdate(p) \in {p, [p EXCEPT !.warning = FALSE]}
      BY <3>1 DEF WillUpdate
    <3> QED BY <2>1, <3>2, <3>3, <3>4 DEF Draws, Drawn, PaneType
  <2>7. ASSUME NEW i \in DOMAIN pane.asks, Reads(i) PROVE Kept
    BY <2>1, <2>7 DEF Reads, PaneType
  <2>8. ASSUME NEW i \in DOMAIN pane.asks, Shown(i) PROVE Kept \/ Lost
    <3> DEFINE left == RemoveAt(pane.asks, i)
               p    == [pane EXCEPT !.asks = left]
    <3>1. CASE pane.asks[i].railroad = pane.railroad
      BY <2>8, <3>1 DEF OpensAgain
    <3>2. CASE pane.asks[i].railroad # pane.railroad
      <4>1. left \in Seq(Ask)
        BY <2>1, OneLess DEF PaneType
      <4>2. Draws(p)
        BY <2>8, <3>2 DEF Shown
      <4> HIDE DEF left
      <4>3. /\ p \in PaneType /\ p.edited = pane.edited /\ p.railroad = pane.railroad
            /\ p.opened = pane.opened /\ p.applying = pane.applying /\ p.loaded = pane.loaded
        BY <2>1, <4>1 DEF PaneType
      <4> HIDE DEF p
      <4> QED BY <2>1, <2>2, <4>2, <4>3 DEF OnLoaded
    <3> QED BY <3>1, <3>2
  <2>9. CASE Refuses \/ Puts \/ Unanswered
    BY <2>1, <2>9 DEF Refuses, Puts, Unanswered, PaneType
  <2>10. CASE Landed
    <3> DEFINE done == [pane EXCEPT !.applying = None]
               now  == [text |-> pane.applying.text, stored |-> TRUE]
               sure == [pane EXCEPT !.applying = None, !.opened = now]
    <3>1. pane.loaded \in {Unreported, pane.railroad} /\ pane.applying # None
      BY <2>1, <2>10 DEF Landed, OnLoaded
    <3>2. /\ done \in PaneType /\ done.edited = pane.edited
          /\ done.railroad = pane.railroad /\ done.loaded = pane.loaded
      BY <2>1 DEF PaneType
    <3>3. now \in Answer
      BY <2>1, <3>1 DEF PaneType, Answer
    <3>4. /\ sure \in PaneType /\ sure.edited = pane.edited
          /\ sure.railroad = pane.railroad /\ sure.loaded = pane.loaded
      BY <2>1, <3>3 DEF PaneType
    <3>5. pane' = Drawn(done) \/ pane' = Drawn(sure)
      BY <2>10 DEF Landed, Draws
    <3> HIDE DEF done, sure
    <3> QED BY <3>1, <3>2, <3>4, <3>5, DrawOfLoaded
  <2>11. ASSUME NEW put \in puts, StoreTakes(put) PROVE Kept
    BY <2>1, <2>11 DEF StoreTakes, PaneType
  <2>12. ASSUME NEW r \in Railroads, NEW t \in TextsOf(r), AnotherApplies(r, t) PROVE Kept
    BY <2>12 DEF AnotherApplies
  <2> QED BY <1>1, <2>3, <2>4, <2>5, <2>6, <2>7, <2>8, <2>9, <2>10, <2>11, <2>12 DEF EditNext
<1>2. IInv /\ [EditNext]_editVars => [Stay]_editVars
  BY <1>1 DEF editVars
<1>3. [][Stay]_editVars => EditsStay
  BY PTL DEF EditsStay
<1> QED BY <1>2, <1>3, Invariance, PTL DEF EditSpec
=============================================================================
