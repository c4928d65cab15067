------------------------- MODULE Translator_proofs -------------------------
(***************************************************************************)
(* That a marked station misses nothing of the picture, and that the       *)
(* railroad is stood down, for every number of locomotives and devices,    *)
(* every bus, and any restarts, outages and scripts: IInv (Translator) is  *)
(* inductive.                                                              *)
(***************************************************************************)
EXTENDS Translator, FiniteSetTheorems, SequenceTheorems, TLAPS

-----------------------------------------------------------------------------
(* What sequences of commands say last.                                    *)

LEMMA SaysSooner ==
  ASSUME NEW s \in Seq(Commands), NEW i \in Nat, NEW h \in Nat, h <= i, NEW d, NEW said,
         LastSays(s, i, d, said)
  PROVE  LastSays(s, h, d, said)
  BY DEF LastSays

\* The last of two parts has the last word.
LEMMA SaysAfter ==
  ASSUME NEW s \in Seq(Commands), NEW t \in Seq(Commands), NEW i \in Nat, NEW d, NEW said,
         LastSays(t, i, d, said)
  PROVE  LastSays(s \o t, Len(s) + i, d, said)
<1>1. PICK j \in DOMAIN t :
        j > i /\ t[j] = Cmd(d, said) /\ \A k \in DOMAIN t : k > j => t[k].dev # d
  BY DEF LastSays
<1>2. /\ Len(s) + j \in DOMAIN (s \o t) /\ Len(s) + j > Len(s) + i
      /\ (s \o t)[Len(s) + j] = t[j]
  BY <1>1
<1>3. ASSUME NEW k \in DOMAIN (s \o t), k > Len(s) + j PROVE (s \o t)[k].dev # d
  <2>1. k - Len(s) \in DOMAIN t /\ k - Len(s) > j /\ (s \o t)[k] = t[k - Len(s)]
    BY <1>1, <1>3
  <2>. QED BY <1>1, <2>1
<1>. QED BY <1>1, <1>2, <1>3 DEF LastSays

\* And the first has it where the last has nothing to say.
LEMMA SaysBefore ==
  ASSUME NEW s \in Seq(Commands), NEW t \in Seq(Commands), NEW i \in Nat, NEW d, NEW said,
         LastSays(s, i, d, said), NotAbout(t, d)
  PROVE  LastSays(s \o t, i, d, said)
<1>1. PICK j \in DOMAIN s :
        j > i /\ s[j] = Cmd(d, said) /\ \A k \in DOMAIN s : k > j => s[k].dev # d
  BY DEF LastSays
<1>2. j \in DOMAIN (s \o t) /\ (s \o t)[j] = s[j]
  BY <1>1
<1>3. ASSUME NEW k \in DOMAIN (s \o t), k > j PROVE (s \o t)[k].dev # d
  <2>1. CASE k <= Len(s)
    <3>1. k \in DOMAIN s /\ (s \o t)[k] = s[k]
      BY <1>3, <2>1
    <3>. QED BY <1>1, <1>3, <3>1
  <2>2. CASE k > Len(s)
    <3>1. k - Len(s) \in DOMAIN t /\ (s \o t)[k] = t[k - Len(s)]
      BY <1>3, <2>2
    <3>. QED BY <3>1 DEF NotAbout
  <2>. QED BY <2>1, <2>2
<1>. QED BY <1>1, <1>2, <1>3 DEF LastSays

\* What is said in two parts is said in one of them.
LEMMA SaidIn ==
  ASSUME NEW s \in Seq(Commands), NEW t \in Seq(Commands), NEW d, NEW said,
         LastSays(s \o t, 0, d, said)
  PROVE  \/ LastSays(t, 0, d, said)
         \/ LastSays(s, 0, d, said) /\ NotAbout(t, d)
<1>1. PICK j \in DOMAIN (s \o t) :
        /\ (s \o t)[j] = Cmd(d, said)
        /\ \A k \in DOMAIN (s \o t) : k > j => (s \o t)[k].dev # d
  BY DEF LastSays
<1>2. \A k \in DOMAIN t : Len(s) + k \in DOMAIN (s \o t) /\ (s \o t)[Len(s) + k] = t[k]
  OBVIOUS
<1>3. \A k \in DOMAIN s : k \in DOMAIN (s \o t) /\ (s \o t)[k] = s[k]
  OBVIOUS
<1>4. CASE j <= Len(s)
  <2>1. j \in DOMAIN s /\ j > 0 /\ s[j] = Cmd(d, said)
    BY <1>1, <1>3, <1>4
  <2>2. \A k \in DOMAIN s : k > j => s[k].dev # d
    BY <1>1, <1>3
  <2>3. ASSUME NEW k \in DOMAIN t PROVE t[k].dev # d
    <3>1. k >= 1 /\ Len(s) + k > j
      BY <1>4
    <3>. QED BY <1>1, <1>2, <3>1
  <2>. QED BY <2>1, <2>2, <2>3 DEF LastSays, NotAbout
<1>5. CASE j > Len(s)
  <2>1. j - Len(s) \in DOMAIN t /\ j - Len(s) > 0 /\ t[j - Len(s)] = Cmd(d, said)
    BY <1>1, <1>2, <1>5
  <2>2. ASSUME NEW k \in DOMAIN t, k > j - Len(s) PROVE t[k].dev # d
    <3>1. Len(s) + k > j
      BY <1>5, <2>2
    <3>. QED BY <1>1, <1>2, <3>1
  <2>. QED BY <2>1, <2>2 DEF LastSays
<1>. QED BY <1>1, <1>4, <1>5

\* With the first n gone, all is as many sooner.
LEMMA SaysLess ==
  ASSUME NEW s \in Seq(Commands), NEW n \in 0..Len(s), NEW u \in Seq(Commands),
         Len(u) = Len(s) - n, \A k \in 1..Len(u) : u[k] = s[n + k],
         NEW i \in Nat, i >= n, NEW d, NEW said, LastSays(s, i, d, said)
  PROVE  LastSays(u, i - n, d, said)
<1>1. PICK j \in DOMAIN s :
        j > i /\ s[j] = Cmd(d, said) /\ \A k \in DOMAIN s : k > j => s[k].dev # d
  BY DEF LastSays
<1>2. j - n \in DOMAIN u /\ j - n > i - n /\ u[j - n] = Cmd(d, said)
  BY <1>1
<1>3. \A k \in DOMAIN u : k > j - n => u[k].dev # d
  BY <1>1
<1>. QED BY <1>2, <1>3 DEF LastSays

LEMMA NotAboutBoth ==
  ASSUME NEW s \in Seq(Commands), NEW t \in Seq(Commands), NEW d
  PROVE  NotAbout(s \o t, d) <=> NotAbout(s, d) /\ NotAbout(t, d)
<1>1. \A k \in DOMAIN t : Len(s) + k \in DOMAIN (s \o t) /\ (s \o t)[Len(s) + k] = t[k]
  OBVIOUS
<1>2. \A k \in DOMAIN s : k \in DOMAIN (s \o t) /\ (s \o t)[k] = s[k]
  OBVIOUS
<1>3. ASSUME NEW k \in DOMAIN (s \o t)
      PROVE  \/ k \in DOMAIN s /\ (s \o t)[k] = s[k]
             \/ k - Len(s) \in DOMAIN t /\ (s \o t)[k] = t[k - Len(s)]
  OBVIOUS
<1>. QED BY <1>1, <1>2, <1>3 DEF NotAbout

\* A part of one command.
LEMMA One ==
  ASSUME NEW c \in Commands
  PROVE  /\ <<c>> \in Seq(Commands) /\ Len(<<c>>) = 1 /\ <<c>>[1] = c
         /\ c = Cmd(c.dev, c.says) /\ LastSays(<<c>>, 0, c.dev, c.says)
         /\ \A d : d # c.dev => NotAbout(<<c>>, d)
<1>1. <<c>> \in Seq(Commands) /\ Len(<<c>>) = 1 /\ <<c>>[1] = c
  OBVIOUS
<1>2. c = Cmd(c.dev, c.says)
  BY DEF Commands, Cmd
<1>. QED BY <1>1, <1>2 DEF LastSays, NotAbout

LEMMA SaidLast ==
  ASSUME NEW s \in Seq(Commands), NEW t \in Seq(Commands), NEW d, NEW said,
         LastSays(t, 0, d, said)
  PROVE  LastSays(s \o t, 0, d, said)
<1>1. LastSays(s \o t, Len(s) + 0, d, said)
  BY SaysAfter
<1>2. Len(s) + 0 \in Nat /\ 0 <= Len(s) + 0 /\ s \o t \in Seq(Commands)
  OBVIOUS
<1>. QED BY <1>1, <1>2, SaysSooner

LEMMA PastTheFirst ==
  ASSUME NEW s \in Seq(Commands), NEW t \in Seq(Commands), Len(s) = 1,
         NEW i \in DOMAIN (s \o t), i # 1
  PROVE  i - 1 \in DOMAIN t /\ (s \o t)[i] = t[i - 1]
<1>0. Len(s \o t) = 1 + Len(t)
  BY ConcatProperties
<1>0a. s \o t \in Seq(Commands) /\ Len(t) \in Nat
  OBVIOUS
<1>1. i \in Nat /\ i > 1 /\ i <= 1 + Len(t)
  BY <1>0, <1>0a
<1>2. (s \o t)[i] = t[i - Len(s)]
  BY <1>0, <1>0a, <1>1
<1>3. i - 1 \in 1..Len(t)
  BY <1>0, <1>0a, <1>1
<1>. QED BY <1>2, <1>3

LEMMA Empty ==
  <<>> \in Seq(Commands) /\ Len(<<>>) = 0 /\ \A d : NotAbout(<<>>, d)
  BY DEF NotAbout

-----------------------------------------------------------------------------
(* The picture.                                                            *)

LEMMA WantedSaid ==
  ASSUME TypeOK, OneOfEach, NEW s \in Texts \cup {NoText, None},
         TranslatorAssumption
  PROVE  LET w == [i \in DOMAIN wanted |-> Command(wanted[i], s)]
         IN  /\ w \in Seq(Commands)
             /\ \A i \in DOMAIN wanted :
                  LastSays(w, 0, wanted[i].dev, <<wanted[i].says, Handlers(s)>>)
             /\ \A d : d \notin Devices => NotAbout(w, d)
<1>. DEFINE w == [i \in DOMAIN wanted |-> Command(wanted[i], s)]
<1>1. wanted \in Seq(Wanted) /\ Handlers(s) \in Texts \cup {None}
  BY DEF TypeOK, PictureType, Handlers
<1>2. ASSUME NEW want \in Wanted PROVE Command(want, s) \in Commands
  <2>1. want.dev \in Kept /\ <<want.says, Handlers(s)>> \in Sayings
    BY <1>1 DEF Wanted, Kept, Sayings
  <2>. QED BY <2>1 DEF Command, Cmd, Commands
<1>3. w \in Seq(Commands) /\ DOMAIN w = DOMAIN wanted
  BY <1>1, <1>2
<1>4. ASSUME NEW i \in DOMAIN wanted
      PROVE  LastSays(w, 0, wanted[i].dev, <<wanted[i].says, Handlers(s)>>)
  <2>1. i > 0 /\ w[i] = Cmd(wanted[i].dev, <<wanted[i].says, Handlers(s)>>)
    BY <1>1, <1>3 DEF Command
  <2>2. ASSUME NEW k \in DOMAIN w, k > i PROVE w[k].dev # wanted[i].dev
    BY <1>1, <1>3, <2>2 DEF OneOfEach, Command, Cmd
  <2>. QED BY <1>3, <2>1, <2>2 DEF LastSays
<1>5. ASSUME NEW d, d \notin Devices PROVE NotAbout(w, d)
  <2>1. ASSUME NEW k \in DOMAIN w PROVE w[k].dev \in Devices
    <3>1. wanted[k] \in Wanted /\ w[k].dev = wanted[k].dev
      BY <1>1, <1>3 DEF Command, Cmd
    <3>. QED BY <3>1 DEF Wanted
  <2>. QED BY <1>5, <2>1 DEF NotAbout
<1>. QED BY <1>3, <1>4, <1>5

\* What `_started` sends tells of everything due, behind its mark.
LEMMA PictureSaid ==
  ASSUME TypeOK, OneOfEach, NEW s \in Texts \cup {NoText, None},
         TranslatorAssumption
  PROVE  /\ Picture(s) \in Seq(Commands)
         /\ \A i \in DOMAIN Picture(s) : Picture(s)[i] = Mark => i = 1
         /\ \A due \in Due(s) : LastSays(Picture(s), 1, due[1], due[2])
         /\ \A l \in Locos :
              (\A i \in DOMAIN wanted : wanted[i].dev # l) => NotAbout(Picture(s), l)
<1>. DEFINE m == <<Mark>>
            b == IF Handlers(s) = None THEN <<>> ELSE <<Cmd("start", <<None, s>>)>>
            w == [i \in DOMAIN wanted |-> Command(wanted[i], s)]
            c == IF minute = None THEN <<>> ELSE <<Cmd("clock", <<minute, None>>)>>
            bwc == b \o (w \o c)
<1>1. Mark \in Commands /\ Mark.dev = "mark"
  BY DEF Mark, Cmd, Commands
<1>2. m \in Seq(Commands) /\ Len(m) = 1 /\ \A d : d # "mark" => NotAbout(m, d)
  BY <1>1, One
<1>3. /\ b \in Seq(Commands) /\ \A d : d # "start" => NotAbout(b, d)
      /\ Handlers(s) # None => LastSays(b, 0, "start", <<None, s>>)
  <2>1. CASE Handlers(s) = None  BY <2>1, Empty
  <2>2. CASE Handlers(s) # None
    <3>1. Cmd("start", <<None, s>>) \in Commands
      BY <2>2 DEF Handlers, Cmd, Commands, Kept, Sayings
    <3>. QED BY <2>2, <3>1, One DEF Cmd
  <2>. QED BY <2>1, <2>2
<1>4. /\ c \in Seq(Commands) /\ \A d : d # "clock" => NotAbout(c, d)
      /\ minute # None => LastSays(c, 0, "clock", <<minute, None>>)
  <2>1. CASE minute = None  BY <2>1, Empty
  <2>2. CASE minute # None
    <3>1. Cmd("clock", <<minute, None>>) \in Commands
      BY <2>2 DEF TypeOK, BusType, Cmd, Commands, Kept, Sayings
    <3>. QED BY <2>2, <3>1, One DEF Cmd
  <2>. QED BY <2>1, <2>2
<1>5. /\ w \in Seq(Commands)
      /\ \A i \in DOMAIN wanted :
           LastSays(w, 0, wanted[i].dev, <<wanted[i].says, Handlers(s)>>)
      /\ \A d : d \notin Devices => NotAbout(w, d)
  BY WantedSaid
<1>6. {"start", "clock", "mark"} \cap Devices = {}
  BY DEF TranslatorAssumption, Devices
<1>7. Picture(s) = m \o b \o w \o c
  BY DEF Picture
<1>. HIDE DEF m, b, w, c
<1>7a. w \o c \in Seq(Commands) /\ \A d : NotAbout(w \o c, d) <=> NotAbout(w, d) /\ NotAbout(c, d)
  BY <1>4, <1>5, NotAboutBoth
<1>7b. bwc \in Seq(Commands) /\ \A d : NotAbout(bwc, d) <=> NotAbout(b, d) /\ NotAbout(w \o c, d)
  <2>1. b \o (w \o c) \in Seq(Commands)
    BY <1>3, <1>7a
  <2>2. \A d : NotAbout(b \o (w \o c), d) <=> NotAbout(b, d) /\ NotAbout(w \o c, d)
    BY <1>3, <1>7a, NotAboutBoth
  <2>. QED BY <2>1, <2>2
<1>7c. Picture(s) = m \o bwc
  <2>. m \in Seq(Commands) /\ b \in Seq(Commands) /\ w \in Seq(Commands)
         /\ c \in Seq(Commands)
    BY <1>2, <1>3, <1>4, <1>5
  <2>1. Len(m \o b) = Len(m) + Len(b) /\ m \o b \in Seq(Commands)
    OBVIOUS
  <2>2. m \o b \o w \o c = m \o (b \o (w \o c))
    BY <2>1, SMTT(30)
  <2>. QED BY <1>7, <2>2
<1>. HIDE DEF bwc
<1>8. \A due \in Due(s) : LastSays(bwc, 0, due[1], due[2])
  <2>1. ASSUME NEW i \in DOMAIN wanted
        PROVE  LastSays(bwc, 0, wanted[i].dev, <<wanted[i].says, Handlers(s)>>)
    <3>1. wanted[i].dev \in Devices
      <4>1. wanted[i] \in Wanted
        BY DEF TypeOK, PictureType
      <4>. QED BY <4>1 DEF Wanted
    <3>2. LastSays(w \o c, 0, wanted[i].dev, <<wanted[i].says, Handlers(s)>>)
      BY <1>4, <1>5, <1>6, <3>1, SaysBefore
    <3>. QED BY <1>3, <1>7a, <3>2, SaidLast DEF bwc
  <2>2. ASSUME Handlers(s) # None PROVE LastSays(bwc, 0, "start", <<None, s>>)
    <3>1. NotAbout(w \o c, "start")
      BY <1>4, <1>5, <1>6, <1>7a
    <3>. QED BY <1>3, <1>7a, <2>2, <3>1, SaysBefore DEF bwc
  <2>3. ASSUME minute # None PROVE LastSays(bwc, 0, "clock", <<minute, None>>)
    BY <1>3, <1>4, <1>5, <1>7a, <2>3, SaidLast DEF bwc
  <2>. QED BY <2>1, <2>2, <2>3 DEF Due
<1>9. \A due \in Due(s) : LastSays(Picture(s), 1, due[1], due[2])
  <2>. SUFFICES ASSUME NEW due \in Due(s) PROVE LastSays(Picture(s), 1, due[1], due[2])
    OBVIOUS
  <2>1. LastSays(m \o bwc, Len(m) + 0, due[1], due[2])
    BY <1>2, <1>7b, <1>8, SaysAfter
  <2>. QED BY <1>2, <1>7c, <2>1
<1>10. Picture(s) \in Seq(Commands)
  BY <1>2, <1>7b, <1>7c
<1>11. ASSUME NEW i \in DOMAIN Picture(s), Picture(s)[i] = Mark PROVE i = 1
  <2>1. NotAbout(bwc, "mark")
    BY <1>3, <1>4, <1>5, <1>6, <1>7a, <1>7b
  <2>2. CASE i # 1
    <3>1. i - 1 \in DOMAIN bwc /\ Picture(s)[i] = bwc[i - 1]
      BY <1>2, <1>7b, <1>7c, <1>11, <2>2, PastTheFirst
    <3>. QED BY <1>1, <1>11, <2>1, <3>1 DEF NotAbout
  <2>. QED BY <2>2
<1>12. ASSUME NEW l \in Locos, \A i \in DOMAIN wanted : wanted[i].dev # l
       PROVE  NotAbout(Picture(s), l)
  <2>1. NotAbout(w, l)
    BY <1>12 DEF NotAbout, Command, Cmd, w
  <2>2. l \notin {"start", "clock", "mark"}
    BY DEF TranslatorAssumption
  <2>3. NotAbout(w \o c, l)
    BY <1>4, <2>1, <2>2, <1>7a
  <2>4. NotAbout(bwc, l)
    BY <1>3, <2>2, <2>3, <1>7b
  <2>. QED BY <1>2, <1>7b, <1>7c, <2>2, <2>4, NotAboutBoth
<1>. QED BY <1>9, <1>10, <1>11, <1>12

-----------------------------------------------------------------------------
(* The end.                                                                *)

\* Every locomotive of a finite set is in the sequence of it, and nothing else.
LEMMA SetIsSaid ==
  ASSUME NEW S, IsFiniteSet(S)
  PROVE  /\ SetToSeq(S) \in Seq(S)
         /\ \A x \in S : \E i \in DOMAIN SetToSeq(S) : SetToSeq(S)[i] = x
<1>. DEFINE D == 1..Cardinality(S)
<1>1. Cardinality(S) \in Nat /\ ExistsBijection(D, S)
  BY FS_CardinalityType
<1>2. PICK g : g \in [D -> S] /\ IsInjective(g)
  BY <1>1 DEF ExistsBijection, Bijection, Injection, IsInjective
<1>3. SetToSeq(S) \in [D -> S] /\ IsInjective(SetToSeq(S))
  BY <1>2 DEF SetToSeq
<1>4. SetToSeq(S) \in Injection(D, S)
  BY <1>3 DEF Injection
<1>5. IsFiniteSet(D) /\ Cardinality(D) = Cardinality(S)
  BY <1>1, FS_Interval
<1>6. SetToSeq(S) \in Surjection(D, S)
  BY <1>4, <1>5, FS_Injection
<1>. QED BY <1>1, <1>3, <1>6 DEF Surjection

LEMMA FarewellSaid ==
  ASSUME commanded \subseteq Locos, TranslatorAssumption
  PROVE  /\ Farewell \in Seq(Commands)
         /\ \A l \in commanded : ~NotAbout(Farewell, l)
         /\ \A l \in Locos \ commanded : NotAbout(Farewell, l)
         /\ \A l \in Locos :
              \A said : LastSays(Farewell, 0, l, said) => said = <<Stop, None>>
         /\ ~NotAbout(Farewell, "track")
         /\ \A said : LastSays(Farewell, 0, "track", said) => said = <<"off", None>>
<1>. DEFINE zeros == SetToSeq(commanded)
            z == [i \in DOMAIN zeros |-> Cmd(zeros[i], <<Stop, None>>)]
            t == Cmd("track", <<"off", None>>)
<1>1. IsFiniteSet(commanded)
  BY FS_Subset DEF TranslatorAssumption
<1>2. zeros \in Seq(commanded) /\ \A l \in commanded : \E i \in DOMAIN zeros : zeros[i] = l
  BY <1>1, SetIsSaid
<1>3. \A l \in Locos : Cmd(l, <<Stop, None>>) \in Commands
  BY DEF TranslatorAssumption, Cmd, Commands, Kept, Devices, Sayings
<1>4. z \in Seq(Commands) /\ DOMAIN z = DOMAIN zeros
  <2>1. \A i \in DOMAIN zeros : Cmd(zeros[i], <<Stop, None>>) \in Commands
    BY <1>2, <1>3
  <2>2. Len(zeros) \in Nat /\ DOMAIN zeros = 1..Len(zeros)
    BY <1>2
  <2>3. z \in [1..Len(zeros) -> Commands]
    BY <2>1, <2>2
  <2>. HIDE DEF z
  <2>. QED BY <2>2, <2>3
<1>5. t \in Commands /\ t.dev = "track" /\ t.says = <<"off", None>>
  BY DEF Cmd, Commands, Kept, Sayings
<1>6. /\ <<t>> \in Seq(Commands) /\ LastSays(<<t>>, 0, "track", <<"off", None>>)
      /\ \A d : d # "track" => NotAbout(<<t>>, d)
  BY <1>5, One
<1>7. Farewell = z \o <<t>>
  BY DEF Farewell
<1>8. Farewell \in Seq(Commands)
  BY <1>4, <1>6, <1>7
<1>9. ASSUME NEW l \in commanded PROVE ~NotAbout(Farewell, l)
  <2>1. ~NotAbout(z, l)
    BY <1>2, <1>4 DEF NotAbout, Cmd
  <2>. QED BY <1>4, <1>6, <1>7, <2>1, NotAboutBoth
<1>10. ASSUME NEW l \in Locos, NEW said, LastSays(Farewell, 0, l, said)
       PROVE  said = <<Stop, None>>
  <2>1. PICK j \in DOMAIN Farewell : Farewell[j] = Cmd(l, said)
    BY <1>10 DEF LastSays
  <2>2. l # "track"
    BY DEF TranslatorAssumption
  <2>3. Farewell[j].dev = l /\ Farewell[j].says = said
    BY <2>1 DEF Cmd
  <2>4. CASE j = Len(z) + 1
    <3>1. Farewell[j] = t
      BY <1>4, <1>7, <2>4
    <3>. QED BY <1>5, <2>2, <2>3, <3>1
  <2>5. CASE j # Len(z) + 1
    <3>1. j \in DOMAIN z /\ Farewell[j] = z[j]
      BY <1>4, <1>7, <2>5
    <3>. QED BY <1>4, <2>3, <3>1 DEF Cmd
  <2>. QED BY <2>4, <2>5
<1>11. ~NotAbout(Farewell, "track")
  <2>1. ~NotAbout(<<t>>, "track")
    BY <1>5 DEF NotAbout
  <2>. QED BY <1>4, <1>6, <1>7, <2>1, NotAboutBoth
<1>12. ASSUME NEW said, LastSays(Farewell, 0, "track", said) PROVE said = <<"off", None>>
  <2>1. LastSays(<<t>>, 0, "track", said)
    <3>1. ~NotAbout(<<t>>, "track")
      BY <1>5 DEF NotAbout
    <3>. QED BY <1>4, <1>6, <1>7, <1>12, <3>1, SaidIn
  <2>. QED BY <1>5, <2>1 DEF LastSays, Cmd
<1>13. ASSUME NEW l \in Locos \ commanded PROVE NotAbout(Farewell, l)
  <2>1. \A i \in DOMAIN z : z[i].dev \in commanded
    BY <1>2, <1>4 DEF Cmd
  <2>2. NotAbout(z, l)
    BY <2>1 DEF NotAbout
  <2>3. l # "track"
    BY DEF TranslatorAssumption
  <2>. QED BY <1>4, <1>6, <1>7, <2>2, <2>3, NotAboutBoth
<1>. QED BY <1>8, <1>9, <1>10, <1>11, <1>12, <1>13

-----------------------------------------------------------------------------
(* The picture, kept.                                                      *)

LEMMA PromisedOf ==
  ASSUME TypeOK, NEW due \in Promised PROVE due[1] \in Kept
<1>1. \A i \in DOMAIN wanted : wanted[i] \in Wanted
  BY DEF TypeOK, PictureType
<1>2. \A i \in DOMAIN wanted : wanted[i].dev \in Kept
  BY <1>1 DEF Wanted, Kept
<1>. QED BY <1>2 DEF Promised, Due, Kept

\* Nothing is sent, and no more is promised.
LEMMA PictureStays ==
  ASSUME IInv, Driven' => Driven, UNCHANGED <<toStation, marked, told, lossy>>,
         Promised' \subseteq Promised
  PROVE  MarkBrings' /\ MarkedHas'
<1>1. MarkBrings /\ MarkedHas
  BY DEF IInv
<1>2. MarkBrings'
  BY <1>1 DEF MarkBrings, LastSays
<1>3. MarkedHas'
  BY <1>1 DEF MarkedHas, Becomes, LastSays, NotAbout
<1>. QED BY <1>2, <1>3

\* What is sent says what is newly promised, and contradicts nothing.
LEMMA PictureGrows ==
  ASSUME IInv, Driven' => Driven, UNCHANGED <<marked, told, lossy>>,
         NEW cmds \in Seq(Commands), Sends(cmds),
         \A i \in DOMAIN cmds : cmds[i] # Mark,
         \A due \in Promised' :
           \/ LastSays(cmds, 0, due[1], due[2])
           \/ due \in Promised /\ NotAbout(cmds, due[1])
  PROVE  MarkBrings' /\ MarkedHas'
<1>. SUFFICES ASSUME Driven' PROVE MarkBrings' /\ MarkedHas'
  BY DEF MarkBrings, MarkedHas
<1>1. toStation \in Seq(Commands) /\ MarkBrings /\ MarkedHas /\ Driven
  BY DEF IInv, TypeOK, WireType
<1>2. toStation' = toStation \o cmds
  BY <1>1 DEF Driven, Sends, Reaches, Open
<1>3. toStation \o cmds \in Seq(Commands)
  BY <1>1
<1>4. ASSUME NEW i \in DOMAIN (toStation \o cmds), (toStation \o cmds)[i] = Mark,
             NEW due \in Promised'
      PROVE  LastSays(toStation \o cmds, i, due[1], due[2])
  <2>1. i \in DOMAIN toStation /\ toStation[i] = Mark
    <3>1. CASE i <= Len(toStation)
      BY <1>1, <1>4, <3>1
    <3>2. CASE i > Len(toStation)
      <4>1. i - Len(toStation) \in DOMAIN cmds /\ cmds[i - Len(toStation)] = Mark
        BY <1>1, <1>4, <3>2
      <4>. QED BY <4>1
    <3>. QED BY <1>1, <1>3, <3>1, <3>2
  <2>2. i \in Nat /\ Len(toStation) + 0 \in Nat /\ i <= Len(toStation) + 0
    BY <1>1, <2>1
  <2>3. CASE LastSays(cmds, 0, due[1], due[2])
    <3>1. LastSays(toStation \o cmds, Len(toStation) + 0, due[1], due[2])
      BY <1>1, <2>3, SaysAfter
    <3>. QED BY <1>3, <2>2, <3>1, SaysSooner
  <2>4. CASE due \in Promised /\ NotAbout(cmds, due[1])
    <3>1. LastSays(toStation, i, due[1], due[2])
      BY <1>1, <2>1, <2>4 DEF MarkBrings
    <3>. QED BY <1>1, <2>2, <2>4, <3>1, SaysBefore
  <2>. QED BY <2>3, <2>4
<1>5. ASSUME marked, ~lossy, NEW due \in Promised'
      PROVE  \/ LastSays(toStation \o cmds, 0, due[1], due[2])
             \/ told[due[1]] = due[2] /\ NotAbout(toStation \o cmds, due[1])
  <2>1. CASE LastSays(cmds, 0, due[1], due[2])
    BY <1>1, <2>1, SaidLast
  <2>2. CASE due \in Promised /\ NotAbout(cmds, due[1])
    <3>1. Becomes(due[1], due[2])
      BY <1>1, <1>5, <2>2 DEF MarkedHas
    <3>. QED BY <1>1, <2>2, <3>1, SaysBefore, NotAboutBoth DEF Becomes
  <2>. QED BY <2>1, <2>2
<1>4a. \A i \in DOMAIN (toStation \o cmds), due \in Promised' :
         (toStation \o cmds)[i] = Mark => LastSays(toStation \o cmds, i, due[1], due[2])
  BY <1>4
<1>6. MarkBrings'
  BY <1>2, <1>4a DEF MarkBrings, LastSays
<1>7. MarkedHas'
  BY <1>2, <1>5 DEF MarkedHas, Becomes, LastSays, NotAbout
<1>. QED BY <1>6, <1>7

\* The whole picture is sent.
LEMMA PictureRenewed ==
  ASSUME IInv, TranslatorAssumption, UNCHANGED <<wanted, minute>>, clocked' = minute,
         script' \in Texts \cup {NoText, None}, NEW s \in Seq(Commands),
         toStation' = s \o Picture(script')
  PROVE  MarkBrings' /\ MarkedHas'
<1>. DEFINE p == Picture(script')
<1>1. /\ p \in Seq(Commands)
      /\ \A i \in DOMAIN p : p[i] = Mark => i = 1
      /\ \A due \in Due(script') : LastSays(p, 1, due[1], due[2])
  BY PictureSaid DEF IInv, TypeOK
<1>2. Promised' = Due(script')
  BY DEF Promised, Due
<1>. HIDE DEF p
<1>3. s \o p \in Seq(Commands) /\ Len(s) + 1 \in Nat
  BY <1>1
<1>4. \A due \in Promised' : LastSays(s \o p, Len(s) + 1, due[1], due[2])
  BY <1>1, <1>2, SaysAfter
<1>5. ASSUME NEW i \in DOMAIN (s \o p), (s \o p)[i] = Mark PROVE i \in Nat /\ i <= Len(s) + 1
  <2>1. CASE i > Len(s)
    <3>1. i - Len(s) \in DOMAIN p /\ p[i - Len(s)] = Mark
      BY <1>1, <1>5, <2>1
    <3>. QED BY <1>1, <1>3, <2>1, <3>1
  <2>. QED BY <1>1, <1>3, <2>1
<1>6. \A i \in DOMAIN (s \o p), due \in Promised' :
        (s \o p)[i] = Mark => LastSays(s \o p, i, due[1], due[2])
  BY <1>3, <1>4, <1>5, SaysSooner
<1>7. \A due \in Promised' : LastSays(s \o p, 0, due[1], due[2])
  <2>1. 0 <= Len(s) + 1
    OBVIOUS
  <2>. QED BY <1>3, <1>4, <2>1, SaysSooner
<1>8. toStation' = s \o p
  BY DEF p
<1>9. MarkBrings'
  BY <1>6, <1>8 DEF MarkBrings, LastSays
<1>10. MarkedHas'
  BY <1>7, <1>8 DEF MarkedHas, Becomes, LastSays
<1>. QED BY <1>9, <1>10

\* The station takes a command, and does what it says.
LEMMA PictureTaken ==
  ASSUME IInv, TranslatorAssumption, StationTakes PROVE MarkBrings' /\ MarkedHas'
<1>. DEFINE h == Head(toStation)
            u == Tail(toStation)
<1>1. toStation \in Seq(Commands) /\ toStation # <<>> /\ MarkBrings /\ MarkedHas
      /\ told \in [Kept -> Sayings \cup {None}]
  BY DEF IInv, TypeOK, WireType, StationType, StationTakes
<1>2. /\ u \in Seq(Commands) /\ h \in Commands /\ h = toStation[1]
      /\ Len(u) = Len(toStation) - 1 /\ 1 \in 0..Len(toStation)
      /\ \A k \in 1..Len(u) : u[k] = toStation[1 + k]
  BY <1>1
<1>2a. \A k \in DOMAIN u : 1 + k \in DOMAIN toStation /\ 1 + k > 1 /\ u[k] = toStation[1 + k]
  BY <1>1, <1>2
<1>2b. 1 \in DOMAIN toStation
  BY <1>1
<1>3. toStation' = u /\ Promised' = Promised /\ (Driven' <=> Driven)
  BY DEF StationTakes, Promised, Due, Driven, linkVars, scriptVars, loopVars, busVars
<1>. HIDE DEF h, u
<1>4. ASSUME Driven, NEW i \in DOMAIN u, u[i] = Mark, NEW due \in Promised
      PROVE  LastSays(u, i, due[1], due[2])
  <2>1. i + 1 \in DOMAIN toStation /\ toStation[i + 1] = Mark /\ i + 1 \in Nat /\ i + 1 >= 1
    BY <1>1, <1>2, <1>4
  <2>2. LastSays(toStation, i + 1, due[1], due[2])
    BY <1>1, <1>4, <2>1 DEF MarkBrings
  <2>3. LastSays(u, (i + 1) - 1, due[1], due[2])
    BY <1>1, <1>2, <2>1, <2>2, SaysLess
  <2>. QED BY <1>2, <2>3
<1>5. ASSUME Driven, NEW due \in Promised, marked', ~lossy'
      PROVE  \/ LastSays(u, 0, due[1], due[2])
             \/ told'[due[1]] = due[2] /\ NotAbout(u, due[1])
  <2>1. /\ ~mute /\ ~lossy /\ (marked \/ h = Mark)
        /\ told' = IF h.dev \in Kept THEN [told EXCEPT ![h.dev] = h.says] ELSE told
    BY <1>5 DEF StationTakes, h
  <2>2. due[1] \in Kept
    BY PromisedOf DEF IInv
  <2>3. CASE h = Mark
    <3>1. 1 \in DOMAIN toStation /\ 1 \in Nat /\ 1 >= 1
      BY <1>1, <1>2
    <3>2. LastSays(toStation, 1, due[1], due[2])
      BY <1>1, <1>2, <1>5, <2>3, <3>1 DEF MarkBrings
    <3>3. LastSays(u, 1 - 1, due[1], due[2])
      BY <1>1, <1>2, <3>1, <3>2, SaysLess
    <3>. QED BY <3>3
  <2>4. CASE marked
    <3>1. Becomes(due[1], due[2])
      BY <1>1, <1>5, <2>1, <2>4 DEF MarkedHas
    <3>2. CASE told[due[1]] = due[2] /\ NotAbout(toStation, due[1])
      <4>1. h.dev # due[1] /\ NotAbout(u, due[1])
        BY ONLY <1>2, <1>2a, <1>2b, <3>2 DEF NotAbout
      <4>. QED BY <1>1, <2>1, <2>2, <3>2, <4>1
    <3>3. CASE LastSays(toStation, 0, due[1], due[2])
      <4>1. PICK j \in DOMAIN toStation :
              /\ toStation[j] = Cmd(due[1], due[2])
              /\ \A k \in DOMAIN toStation : k > j => toStation[k].dev # due[1]
        BY <3>3 DEF LastSays
      <4>2. CASE j = 1
        <5>1. h.dev = due[1] /\ h.says = due[2]
          BY <1>2, <4>1, <4>2 DEF Cmd
        <5>2. NotAbout(u, due[1])
          BY ONLY <1>2a, <4>1, <4>2 DEF NotAbout
        <5>. QED BY <1>1, <2>1, <2>2, <5>1, <5>2
      <4>3. CASE j # 1
        <5>1. 1 \in Nat /\ 1 >= 1 /\ j > 1
          BY <1>1, <4>3
        <5>2. LastSays(toStation, 1, due[1], due[2])
          BY <4>1, <5>1 DEF LastSays
        <5>3. LastSays(u, 1 - 1, due[1], due[2])
          BY <1>1, <1>2, <5>1, <5>2, SaysLess
        <5>. QED BY <5>3
      <4>. QED BY <4>2, <4>3
    <3>. QED BY <3>1, <3>2, <3>3 DEF Becomes
  <2>. QED BY <2>1, <2>3, <2>4
<1>6. \A i \in DOMAIN u, due \in Promised :
        Driven /\ u[i] = Mark => LastSays(u, i, due[1], due[2])
  BY <1>4
<1>7. MarkBrings'
  BY <1>3, <1>6 DEF MarkBrings, LastSays
<1>8. MarkedHas'
  BY <1>3, <1>5 DEF MarkedHas, Becomes, LastSays, NotAbout
<1>. QED BY <1>7, <1>8

\* The cable blips: the mark that is still on its way has the rest behind it.
LEMMA PictureBlips ==
  ASSUME IInv, Blips PROVE MarkBrings' /\ MarkedHas'
<1>1. toStation \in Seq(Commands) /\ MarkBrings
  BY DEF IInv, TypeOK, WireType
<1>2. lossy' /\ Promised' = Promised /\ (Driven' <=> Driven)
  BY DEF Blips, Promised, Due, Driven, linkVars, scriptVars, loopVars, busVars
<1>3. PICK n \in 1..Len(toStation) : toStation' = SubSeq(toStation, n + 1, Len(toStation))
  BY DEF Blips
<1>. DEFINE u == SubSeq(toStation, n + 1, Len(toStation))
<1>4. /\ u \in Seq(Commands) /\ Len(u) = Len(toStation) - n /\ n \in 0..Len(toStation)
      /\ \A k \in 1..Len(u) : u[k] = toStation[n + k]
  BY <1>1
<1>5. toStation' = u
  BY <1>3
<1>. HIDE DEF u
<1>6. ASSUME Driven, NEW i \in DOMAIN u, u[i] = Mark, NEW due \in Promised
      PROVE  LastSays(u, i, due[1], due[2])
  <2>0. /\ i \in Nat /\ i >= 1 /\ i <= Len(toStation) - n /\ Len(toStation) \in Nat
        /\ u[i] = toStation[n + i]
    BY <1>1, <1>4
  <2>1. /\ i + n \in DOMAIN toStation /\ toStation[i + n] = Mark
        /\ i + n \in Nat /\ i + n >= n /\ (i + n) - n = i
    BY <1>1, <1>4, <1>6, <2>0
  <2>2. LastSays(toStation, i + n, due[1], due[2])
    BY <1>1, <1>6, <2>1 DEF MarkBrings
  <2>3. LastSays(u, (i + n) - n, due[1], due[2])
    BY <1>1, <1>4, <2>1, <2>2, SaysLess
  <2>. QED BY <2>1, <2>3
<1>7. \A i \in DOMAIN u, due \in Promised :
        Driven /\ u[i] = Mark => LastSays(u, i, due[1], due[2])
  BY <1>6
<1>8. MarkBrings'
  BY <1>2, <1>5, <1>7 DEF MarkBrings, LastSays
<1>9. MarkedHas'
  BY <1>2 DEF MarkedHas
<1>. QED BY <1>8, <1>9

\* A value is wanted: it takes the place of what was wanted of that device.
LEMMA PictureWants ==
  ASSUME IInv, TranslatorAssumption, NEW d \in Devices, NEW v \in Values, Wants(d, v)
  PROVE  MarkBrings' /\ MarkedHas'
<1>. DEFINE want == [dev |-> d, says |-> v]
            c == Command(want, script)
<1>1. /\ wanted \in Seq(Wanted) /\ OneOfEach /\ d \in Kept
      /\ script \in Texts \cup {NoText, None}
  BY DEF IInv, TypeOK, ScriptType, PictureType, Kept
<1>2. c = Cmd(d, <<v, Handlers(script)>>) /\ c.dev = d /\ c.says = <<v, Handlers(script)>>
  BY DEF Command, Cmd
<1>3. c \in Commands
  BY <1>1, <1>2 DEF Commands, Cmd, Sayings, Handlers
<1>4. /\ <<c>> \in Seq(Commands) /\ LastSays(<<c>>, 0, d, <<v, Handlers(script)>>)
      /\ \A x : x # d => NotAbout(<<c>>, x)
  BY <1>2, <1>3, One
<1>5. \A i \in DOMAIN <<c>> : <<c>>[i] # Mark
  <2>1. d # "mark"
    BY DEF TranslatorAssumption, Devices
  <2>. QED BY <1>2, <2>1 DEF Mark, Cmd
<1>6. ASSUME NEW due \in Promised'
      PROVE  \/ LastSays(<<c>>, 0, due[1], due[2])
             \/ due \in Promised /\ NotAbout(<<c>>, due[1])
  <2>1. UNCHANGED <<script, minute, clocked>>
    BY DEF Wants, scriptVars, busVars
  <2>2. d \notin {"start", "clock"}
    BY DEF TranslatorAssumption, Devices
  <2>3. CASE due \in {<<wanted'[i].dev, <<wanted'[i].says, Handlers(script)>>>> : i \in DOMAIN wanted'}
    <3>1. PICK i \in DOMAIN wanted' :
            due = <<wanted'[i].dev, <<wanted'[i].says, Handlers(script)>>>>
      BY <2>3
    <3>2. \/ wanted'[i] = want
          \/ i \in DOMAIN wanted /\ wanted'[i] = wanted[i] /\ wanted[i].dev # d
      BY <1>1, <3>1 DEF Wants
    <3>3. CASE wanted'[i] = want
      BY <1>4, <3>1, <3>3
    <3>4. CASE i \in DOMAIN wanted /\ wanted'[i] = wanted[i] /\ wanted[i].dev # d
      BY <1>4, <3>1, <3>4 DEF Promised, Due
    <3>. QED BY <3>2, <3>3, <3>4
  <2>4. CASE due \notin {<<wanted'[i].dev, <<wanted'[i].says, Handlers(script)>>>> : i \in DOMAIN wanted'}
    <3>1. due \in Promised /\ due[1] \in {"start", "clock"}
      BY <2>1, <2>4 DEF Promised, Due
    <3>. QED BY <1>4, <2>2, <3>1
  <2>. QED BY <2>3, <2>4
<1>7. (Driven' => Driven) /\ UNCHANGED <<marked, told, lossy>> /\ Sends(<<c>>)
  BY DEF Wants, Driven, loopVars, linkVars, stationVars
<1>. HIDE DEF c
<1>. QED BY <1>4, <1>5, <1>6, <1>7, PictureGrows

\* One command that is not of the picture.
LEMMA PictureBeside ==
  ASSUME IInv, TranslatorAssumption, Driven' => Driven, UNCHANGED <<marked, told, lossy>>,
         Promised' \subseteq Promised, NEW c \in Commands, c.dev \in {"track", "ask"},
         Sends(<<c>>)
  PROVE  MarkBrings' /\ MarkedHas'
<1>1. <<c>> \in Seq(Commands) /\ \A x : x # c.dev => NotAbout(<<c>>, x)
  BY One
<1>2. \A i \in DOMAIN <<c>> : <<c>>[i] # Mark
  BY DEF Mark, Cmd
<1>3. ASSUME NEW due \in Promised' PROVE due \in Promised /\ NotAbout(<<c>>, due[1])
  <2>1. due[1] \in Devices \cup {"start", "clock"}
    <3>1. due \in Promised /\ \A i \in DOMAIN wanted : wanted[i] \in Wanted
      BY DEF IInv, TypeOK, PictureType
    <3>2. \A i \in DOMAIN wanted : wanted[i].dev \in Devices
      BY <3>1 DEF Wanted
    <3>. QED BY <3>1, <3>2 DEF Promised, Due
  <2>2. due[1] # c.dev
    BY <2>1 DEF TranslatorAssumption, Devices
  <2>. QED BY <1>1, <2>2
<1>. QED BY <1>1, <1>2, <1>3, PictureGrows

LEMMA PicturePowers ==
  ASSUME IInv, TranslatorAssumption, NEW p \in {"on", "off"}, WantsPower(p)
  PROVE  MarkBrings' /\ MarkedHas'
<1>. DEFINE c == Cmd("track", <<p, None>>)
<1>1. c \in Commands /\ c.dev = "track"
  BY DEF Cmd, Commands, Kept, Sayings
<1>2. /\ Promised' \subseteq Promised /\ (Driven' => Driven)
      /\ UNCHANGED <<marked, told, lossy>> /\ Sends(<<c>>)
  BY DEF WantsPower, Promised, Due, Driven, loopVars, linkVars, scriptVars, pictureVars,
         busVars, stationVars
<1>. HIDE DEF c
<1>. QED BY <1>1, <1>2, PictureBeside

LEMMA PicturePolls ==
  ASSUME IInv, TranslatorAssumption, Poll PROVE MarkBrings' /\ MarkedHas'
<1>1. Ask \in Commands /\ Ask.dev = "ask"
  BY DEF Ask, Cmd, Commands
<1>2. /\ Promised' \subseteq Promised /\ (Driven' => Driven)
      /\ UNCHANGED <<marked, told, lossy>> /\ Sends(<<Ask>>)
  BY DEF Poll, Promised, Due, Driven, loopVars, linkVars, scriptVars, pictureVars,
         busVars, stationVars
<1>. QED BY <1>1, <1>2, PictureBeside

LEMMA PictureTicks ==
  ASSUME IInv, TranslatorAssumption, NEW m \in Minutes, Ticks(m)
  PROVE  MarkBrings' /\ MarkedHas'
<1>1. /\ minute' = m /\ clocked' = m /\ UNCHANGED <<wanted, script, marked, told, lossy>>
      /\ Sends(IF m = clocked THEN <<>> ELSE <<Cmd("clock", <<m, None>>)>>)
      /\ (Driven' => Driven) /\ m # None
  BY DEF Ticks, Driven, loopVars, linkVars, scriptVars, stationVars, TranslatorAssumption
<1>2. Promised' = (Promised' \cap Promised) \cup {<<"clock", <<m, None>>>>}
  BY <1>1 DEF Promised, Due
<1>3. CASE m = clocked
  <2>1. Promised' \subseteq Promised
    BY <1>1, <1>2, <1>3 DEF Promised
  <2>2. toStation' = toStation
    BY <1>1, <1>3 DEF Sends
  <2>. QED BY <1>1, <2>1, <2>2, PictureStays
<1>4. CASE m # clocked
  <2>. DEFINE c == Cmd("clock", <<m, None>>)
  <2>1. c \in Commands /\ c.dev = "clock" /\ c.says = <<m, None>>
    BY DEF Cmd, Commands, Kept, Sayings
  <2>2. /\ <<c>> \in Seq(Commands) /\ LastSays(<<c>>, 0, "clock", <<m, None>>)
        /\ \A x : x # "clock" => NotAbout(<<c>>, x)
    BY <2>1, One
  <2>3. \A i \in DOMAIN <<c>> : <<c>>[i] # Mark
    BY <2>1 DEF Mark, Cmd
  <2>4. ASSUME NEW due \in Promised'
        PROVE  \/ LastSays(<<c>>, 0, due[1], due[2])
               \/ due \in Promised /\ NotAbout(<<c>>, due[1])
    <3>1. CASE due = <<"clock", <<m, None>>>>
      BY <2>2, <3>1
    <3>2. CASE due # <<"clock", <<m, None>>>>
      <4>1. due \in Promised /\ due[1] \in Devices \cup {"start"}
        <5>1. \A i \in DOMAIN wanted : wanted[i] \in Wanted
          BY DEF IInv, TypeOK, PictureType
        <5>2. \A i \in DOMAIN wanted : wanted[i].dev \in Devices
          BY <5>1 DEF Wanted
        <5>. QED BY <1>1, <1>2, <3>2, <5>2 DEF Promised, Due
      <4>2. due[1] # "clock"
        BY <4>1 DEF TranslatorAssumption, Devices
      <4>. QED BY <2>2, <4>1, <4>2
    <3>. QED BY <3>1, <3>2
  <2>5. Sends(<<c>>)
    BY <1>1, <1>4
  <2>. HIDE DEF c
  <2>. QED BY <1>1, <2>2, <2>3, <2>4, <2>5, PictureGrows
<1>. QED BY <1>3, <1>4

\* Where the whole picture goes out, or nothing does.
LEMMA PictureAnew ==
  ASSUME IInv, TranslatorAssumption, UNCHANGED <<wanted, minute, link, peer>>,
         script' \in Texts \cup {NoText, None}, Sends(Picture(script')), Started
  PROVE  MarkBrings' /\ MarkedHas'
<1>. SUFFICES ASSUME Driven' PROVE MarkBrings' /\ MarkedHas'
  BY DEF MarkBrings, MarkedHas
<1>1. toStation' = toStation \o Picture(script')
  BY DEF Driven, Sends, Reaches, Open
<1>2. toStation \in Seq(Commands) /\ clocked' = minute
  BY DEF IInv, TypeOK, WireType, Started
<1>. QED BY <1>1, <1>2, PictureRenewed

LEMMA PictureConnects ==
  ASSUME IInv, TranslatorAssumption, Connects PROVE MarkBrings' /\ MarkedHas'
<1>1. /\ UNCHANGED <<wanted, minute, script>> /\ clocked' = minute
      /\ toStation' = Picture(script) /\ script \in Texts \cup {NoText, None}
  BY DEF Connects, Started, busVars, scriptVars, IInv, TypeOK, ScriptType
<1>2. Picture(script) \in Seq(Commands)
  BY <1>1, PictureSaid DEF IInv, TypeOK
<1>3. <<>> \in Seq(Commands) /\ toStation' = <<>> \o Picture(script')
  BY <1>1, <1>2
<1>. QED BY <1>1, <1>3, PictureRenewed

LEMMA PictureHeard ==
  ASSUME IInv, TranslatorAssumption, Heard PROVE MarkBrings' /\ MarkedHas'
<1>1. /\ UNCHANGED <<wanted, minute, script, link, peer, main, signalled, marked, told>>
      /\ script \in Texts \cup {NoText, None}
  BY DEF Heard, busVars, scriptVars, linkVars, loopVars, stationVars, IInv, TypeOK, ScriptType
<1>2. CASE Head(toApp) = "empty"
  BY <1>1, <1>2, PictureAnew DEF Heard
<1>3. CASE Head(toApp) # "empty"
  <2>1. /\ UNCHANGED <<toStation, clocked, lossy>> /\ Promised' \subseteq Promised
        /\ (Driven' => Driven)
    BY <1>1, <1>3 DEF Heard, Promised, Due, Driven
  <2>. QED BY <1>1, <2>1, PictureStays
<1>. QED BY <1>2, <1>3

LEMMA PictureAnswered ==
  ASSUME IInv, TranslatorAssumption, Answered PROVE MarkBrings' /\ MarkedHas'
<1>. DEFINE text == store[asked]
<1>1. /\ UNCHANGED <<wanted, minute, link, peer, main, signalled, marked, told>>
      /\ script \in Texts \cup {NoText, None}
      /\ text \in Texts \cup Broken \cup {NoText}
  BY DEF Answered, busVars, linkVars, loopVars, stationVars, IInv, TypeOK, WorldType,
         ScriptType
<1>2. Driven' => Driven
  BY <1>1 DEF Driven
<1>3. CASE script = None
  <2>0. text # script
    BY <1>1, <1>3 DEF TranslatorAssumption
  <2>1. Loads(text)
    BY <1>3, <2>0 DEF Answered
  <2>2. CASE text \in Texts /\ Open
    <3>1. script' = text /\ Sends(Picture(script')) /\ Started
      BY <2>1, <2>2 DEF Loads, TranslatorAssumption
    <3>. QED BY <1>1, <2>2, <3>1, PictureAnew
  <2>3. CASE ~(text \in Texts /\ Open)
    <3>1. UNCHANGED <<toStation, clocked, lossy>> /\ (script' = script \/ script' = text)
      BY <2>1, <2>3 DEF Loads
    <3>2. CASE ~Driven
      BY <1>2, <3>2 DEF MarkBrings, MarkedHas
    <3>3. CASE Driven
      <4>1. text \notin Texts
        BY <2>3, <3>3 DEF Driven, Open
      <4>2. Handlers(script') = Handlers(script)
        BY <1>1, <1>3, <3>1, <4>1 DEF Handlers
      <4>3. Promised' \subseteq Promised
        BY <1>1, <3>1, <4>2 DEF Promised, Due, Handlers
      <4>. QED BY <1>1, <1>2, <3>1, <4>3, PictureStays
    <3>. QED BY <3>2, <3>3
  <2>. QED BY <2>2, <2>3
<1>4. CASE script # None
  <2>1. UNCHANGED <<script, toStation, clocked, lossy>>
    BY <1>4 DEF Answered
  <2>2. Promised' \subseteq Promised
    BY <1>1, <2>1 DEF Promised, Due
  <2>. QED BY <1>1, <1>2, <2>1, <2>2, PictureStays
<1>. QED BY <1>3, <1>4

\* The steps that say nothing of the picture.
Elsewhere ==
  \/ ConnectFails \/ Retries \/ ListenEnds \/ PollGone \/ Closed
  \/ Asks \/ Unnamed \/ Unanswered \/ Flushed \/ Ends \/ Wedges \/ Clears
  \/ (\E r \in Railroads \cup {None} : Names(r))
  \/ (\E r \in Railroads, text \in Texts \cup Broken \cup {NoText} : Applied(r, text))

LEMMA ElsewhereKeeps ==
  ASSUME Elsewhere
  PROVE  /\ UNCHANGED <<toStation, marked, told, lossy, script, wanted, commanded, signalled>>
         /\ \/ UNCHANGED <<minute, clocked>>
            \/ minute' = None /\ UNCHANGED clocked
            \/ clocked' = None /\ UNCHANGED minute
         /\ Driven' => Driven
  BY DEF Elsewhere, ConnectFails, Retries, ListenEnds, PollGone, Closed, Asks, Unnamed,
     Unanswered, Nothing, Flushed, Ends, Wedges, Clears, Names, Applied, CancelLink, Driven,
     loopVars, linkVars, scriptVars, pictureVars, busVars, stationVars

LEMMA PictureElsewhere ==
  ASSUME IInv, Elsewhere PROVE MarkBrings' /\ MarkedHas'
<1>1. Promised' \subseteq Promised
  BY ElsewhereKeeps DEF Promised, Due
<1>. QED BY <1>1, ElsewhereKeeps, PictureStays

LEMMA PictureHolds ==
  ASSUME IInv, TranslatorAssumption, Next PROVE MarkBrings' /\ MarkedHas'
<1>1. CASE StationTakes   BY <1>1, PictureTaken
<1>2. CASE Poll           BY <1>2, PicturePolls
<1>3. CASE StandDown
  BY <1>3 DEF StandDown, MarkBrings, MarkedHas, Driven
<1>4. CASE Reboots
  <2>1. /\ UNCHANGED <<toStation, script, wanted, minute, clocked>> /\ ~marked'
        /\ (Driven' => Driven)
    BY <1>4 DEF Reboots, Driven, loopVars, linkVars, scriptVars, busVars
  <2>2. Promised' = Promised
    BY <2>1 DEF Promised, Due
  <2>. QED BY <2>1, <2>2 DEF IInv, MarkBrings, MarkedHas, LastSays
<1>5. CASE Blips          BY <1>5, PictureBlips
<1>6. CASE MirrorCloses
  BY <1>6 DEF MirrorCloses, MarkBrings, MarkedHas, Driven
<1>7. CASE \E d \in Devices, v \in Values : Wants(d, v)
  BY <1>7, PictureWants
<1>8. CASE \E p \in {"on", "off"} : WantsPower(p)
  BY <1>8, PicturePowers
<1>9. CASE \E m \in Minutes : Ticks(m)
  BY <1>9, PictureTicks
<1>10. CASE Connects      BY <1>10, PictureConnects
<1>11. CASE Heard         BY <1>11, PictureHeard
<1>12. CASE Answered      BY <1>12, PictureAnswered
<1>13. CASE Elsewhere     BY <1>13, PictureElsewhere
<1>. QED
  BY <1>1, <1>2, <1>3, <1>4, <1>5, <1>6, <1>7, <1>8, <1>9, <1>10, <1>11, <1>12, <1>13
  DEF Next, World, Link, Loop, Following, Elsewhere

-----------------------------------------------------------------------------
(* The railroad, stood down.                                               *)

\* Who may move, as the same step has it.
LEMMA MovedBySending ==
  ASSUME IInv, NEW cmds \in Seq(Commands), NEW s \in Seq(Commands),
         \A l \in Locos : NotAbout(toStation, l) => NotAbout(s, l),
         toStation' = s \o cmds, UNCHANGED told, commanded \subseteq commanded',
         \A l \in Locos \ commanded' : NotAbout(cmds, l)
  PROVE  MovedIsCommanded'
<1>1. ASSUME NEW l \in Locos, l \notin commanded' PROVE told[l] = None /\ NotAbout(s \o cmds, l)
  <2>1. told[l] = None /\ NotAbout(toStation, l)
    BY <1>1 DEF IInv, MovedIsCommanded
  <2>. QED BY <1>1, <2>1, NotAboutBoth
<1>. QED BY <1>1 DEF MovedIsCommanded, NotAbout

LEMMA MovedByUnsent ==
  ASSUME IInv, UNCHANGED <<toStation, told>>, commanded \subseteq commanded'
  PROVE  MovedIsCommanded'
  BY DEF IInv, MovedIsCommanded, NotAbout

LEMMA MovedBySends ==
  ASSUME IInv, NEW cmds \in Seq(Commands), Sends(cmds), UNCHANGED told,
         commanded \subseteq commanded',
         Reaches => \A l \in Locos \ commanded' : NotAbout(cmds, l)
  PROVE  MovedIsCommanded'
<1>1. toStation \in Seq(Commands)
  BY DEF IInv, TypeOK, WireType
<1>2. CASE Reaches
  BY <1>1, <1>2, MovedBySending DEF Sends
<1>3. CASE ~Reaches
  BY <1>3, MovedByUnsent DEF Sends
<1>. QED BY <1>2, <1>3

LEMMA MovedHolds ==
  ASSUME IInv, TranslatorAssumption, Next PROVE MovedIsCommanded'
<1>1. /\ toStation \in Seq(Commands) /\ told \in [Kept -> Sayings \cup {None}]
      /\ script \in Texts \cup {NoText, None} /\ MovedIsCommanded /\ commanded \subseteq Locos
  BY DEF IInv, TypeOK, ScriptType, PictureType, WireType, StationType
<1>2. ASSUME NEW s \in Texts \cup {NoText, None}, Started
      PROVE  /\ Picture(s) \in Seq(Commands) /\ commanded \subseteq commanded'
             /\ \A l \in Locos \ commanded' : NotAbout(Picture(s), l)
  BY <1>2, PictureSaid DEF IInv, TypeOK, Started
<1>3. CASE StationTakes
  <2>1. /\ toStation # <<>> /\ toStation' = Tail(toStation) /\ UNCHANGED commanded
        /\ \/ told' = told
           \/ told' = [told EXCEPT ![Head(toStation).dev] = Head(toStation).says]
    BY <1>3 DEF StationTakes
  <2>2. ASSUME NEW l \in Locos, NotAbout(toStation, l)
        PROVE  Head(toStation).dev # l /\ NotAbout(Tail(toStation), l)
    BY <1>1, <2>1, <2>2 DEF NotAbout
  <2>3. ASSUME NEW l \in Locos \ commanded
        PROVE  told'[l] = None /\ NotAbout(Tail(toStation), l)
    <3>1. told[l] = None /\ NotAbout(toStation, l) /\ l \in Kept
      BY <1>1 DEF MovedIsCommanded, Kept, Devices
    <3>. QED BY <1>1, <2>1, <2>2, <3>1
  <2>. QED BY <2>1, <2>3 DEF MovedIsCommanded, NotAbout
<1>4. CASE Poll
  <2>1. Ask \in Commands /\ Ask.dev = "ask"
    BY DEF Ask, Cmd, Commands
  <2>2. <<Ask>> \in Seq(Commands) /\ \A l \in Locos : NotAbout(<<Ask>>, l)
    BY <2>1, One DEF TranslatorAssumption
  <2>. QED BY <1>4, <2>2, MovedBySends DEF Poll, pictureVars, stationVars
<1>5. CASE StandDown
  <2>1. Farewell \in Seq(Commands) /\ \A l \in Locos \ commanded : NotAbout(Farewell, l)
    BY <1>1, FarewellSaid
  <2>. QED BY <1>5, <2>1, MovedBySends DEF StandDown, pictureVars, stationVars
<1>6. CASE Reboots
  <2>1. UNCHANGED <<toStation, commanded>> /\ told' = [d \in Kept |-> None]
    BY <1>6 DEF Reboots
  <2>. QED BY <1>1, <2>1 DEF MovedIsCommanded, NotAbout, Kept, Devices
<1>7. CASE Blips
  <2>1. PICK n \in 1..Len(toStation) : toStation' = SubSeq(toStation, n + 1, Len(toStation))
    BY <1>7 DEF Blips
  <2>2. ASSUME NEW l \in Locos, NotAbout(toStation, l)
        PROVE  NotAbout(SubSeq(toStation, n + 1, Len(toStation)), l)
    BY <1>1, <2>2 DEF NotAbout
  <2>3. UNCHANGED <<told, commanded>>
    BY <1>7 DEF Blips, stationVars
  <2>. QED BY <1>1, <2>1, <2>2, <2>3 DEF MovedIsCommanded, NotAbout
<1>8. CASE MirrorCloses
  BY <1>1, <1>8 DEF MirrorCloses, MovedIsCommanded, NotAbout, pictureVars, stationVars
<1>9. ASSUME NEW d \in Devices, NEW v \in Values, Wants(d, v) PROVE MovedIsCommanded'
  <2>. DEFINE c == Command([dev |-> d, says |-> v], script)
  <2>1. c \in Commands /\ c.dev = d
    BY <1>1 DEF Command, Cmd, Commands, Sayings, Kept, Handlers
  <2>2. <<c>> \in Seq(Commands) /\ \A l : l # d => NotAbout(<<c>>, l)
    BY <2>1, One
  <2>3. /\ Sends(<<c>>) /\ UNCHANGED told
        /\ commanded' = IF Open /\ d \in Locos THEN commanded \cup {d} ELSE commanded
    BY <1>9 DEF Wants, stationVars
  <2>. HIDE DEF c
  <2>. QED BY <2>2, <2>3, MovedBySends DEF Reaches
<1>10. ASSUME NEW p \in {"on", "off"}, WantsPower(p) PROVE MovedIsCommanded'
  <2>. DEFINE c == Cmd("track", <<p, None>>)
  <2>1. c \in Commands /\ c.dev = "track"
    BY DEF Cmd, Commands, Kept, Sayings
  <2>2. <<c>> \in Seq(Commands) /\ \A l \in Locos : NotAbout(<<c>>, l)
    BY <2>1, One DEF TranslatorAssumption
  <2>3. Sends(<<c>>) /\ UNCHANGED <<told, commanded>>
    BY <1>10 DEF WantsPower, pictureVars, stationVars
  <2>. HIDE DEF c
  <2>. QED BY <2>2, <2>3, MovedBySends
<1>11. ASSUME NEW m \in Minutes, Ticks(m) PROVE MovedIsCommanded'
  <2>. DEFINE c == Cmd("clock", <<m, None>>)
              cs == IF m = clocked THEN <<>> ELSE <<c>>
  <2>1. c \in Commands /\ c.dev = "clock"
    BY DEF Cmd, Commands, Kept, Sayings
  <2>2. cs \in Seq(Commands) /\ \A l \in Locos : NotAbout(cs, l)
    BY <2>1, One, Empty DEF TranslatorAssumption
  <2>3. Sends(cs) /\ UNCHANGED <<told, commanded>>
    BY <1>11 DEF Ticks, stationVars
  <2>. HIDE DEF cs
  <2>. QED BY <2>2, <2>3, MovedBySends
<1>12. CASE Connects
  <2>1. /\ toStation' = Picture(script) /\ Started /\ UNCHANGED told
    BY <1>12 DEF Connects, stationVars
  <2>2. /\ <<>> \in Seq(Commands) /\ \A l \in Locos : NotAbout(<<>>, l)
        /\ toStation' = <<>> \o Picture(script)
    BY <1>1, <1>2, <2>1, Empty
  <2>. QED BY <1>1, <1>2, <2>1, <2>2, MovedBySending
<1>13. CASE Heard
  <2>1. CASE Head(toApp) = "empty"
    BY <1>1, <1>2, <1>13, <2>1, MovedBySends DEF Heard, stationVars
  <2>2. CASE Head(toApp) # "empty"
    BY <1>13, <2>2, MovedByUnsent DEF Heard, stationVars
  <2>. QED BY <2>1, <2>2
<1>14. CASE Answered
  <2>1. UNCHANGED told
    BY <1>14 DEF Answered, stationVars
  <2>2. \/ UNCHANGED <<toStation, commanded>>
        \/ \E text \in Texts : Sends(Picture(text)) /\ Started
    BY <1>14 DEF Answered, Loads
  <2>. QED BY <1>2, <2>1, <2>2, MovedBySends, MovedByUnsent
<1>15. CASE Elsewhere
  BY <1>15, ElsewhereKeeps, MovedByUnsent
<1>. QED
  BY <1>3, <1>4, <1>5, <1>6, <1>7, <1>8, <1>9, <1>10, <1>11, <1>12, <1>13, <1>14, <1>15
  DEF Next, World, Link, Loop, Following, Elsewhere

LEMMA LetGoHolds ==
  ASSUME IInv, Next PROVE LetGoFirst'
<1>1. LetGoFirst
  BY DEF IInv
<1>2. CASE UNCHANGED <<main, link, peer>>
  BY <1>1, <1>2 DEF LetGoFirst
<1>3. CASE Loop \/ StandDown
  BY <1>3 DEF Loop, StandDown, Flushed, Ends, LetGoFirst
<1>4. CASE Link
  BY <1>1, <1>4 DEF Link, Connects, Retries, Heard, ListenEnds, PollGone, Closed,
     loopVars, linkVars, LetGoFirst
<1>5. CASE MirrorCloses \/ ConnectFails
  BY <1>1, <1>5 DEF MirrorCloses, ConnectFails, loopVars, linkVars, LetGoFirst
<1>6. CASE StationTakes \/ Poll \/ Following
  BY <1>2, <1>6 DEF StationTakes, Poll, Following, Asks, Unnamed, Nothing, Answered,
     loopVars, linkVars
<1>7. CASE Reboots \/ Wedges \/ Blips \/ Unanswered \/ Clears
  BY <1>2, <1>7 DEF Reboots, Wedges, Blips, Unanswered, Nothing, Clears, loopVars, linkVars
<1>8. CASE \/ \E r \in Railroads \cup {None} : Names(r)
           \/ \E r \in Railroads, text \in Texts \cup Broken \cup {NoText} : Applied(r, text)
           \/ \E d \in Devices, v \in Values : Wants(d, v)
           \/ \E p \in {"on", "off"} : WantsPower(p)
           \/ \E m \in Minutes : Ticks(m)
  BY <1>2, <1>8 DEF Names, Applied, Wants, WantsPower, Ticks, loopVars, linkVars
<1>. QED BY <1>3, <1>4, <1>5, <1>6, <1>7, <1>8 DEF Next, World

LEMMA OwedHolds ==
  ASSUME IInv, Next PROVE OwedIsHeld'
<1>1. OwedIsHeld /\ LetGoFirst /\ ~signalled
      /\ main \in {"driving", "flushing", "letting", "ended"}
  BY DEF IInv, TypeOK, LoopType
<1>2. CASE UNCHANGED <<main, link, raising, peer, mute>> /\ (owed' => owed)
  BY <1>1, <1>2 DEF OwedIsHeld
<1>3. CASE StandDown
  BY <1>1, <1>3 DEF StandDown, CancelLink, OwedIsHeld, LetGoFirst, Reaches, Open, stationVars,
     linkVars
<1>4. CASE Flushed
  BY <1>1, <1>4 DEF Flushed, CancelLink, OwedIsHeld, stationVars, linkVars
<1>5. CASE Ends
  BY <1>1, <1>5 DEF Ends, OwedIsHeld, stationVars, linkVars
<1>6. CASE Link
  BY <1>1, <1>6 DEF Link, Connects, Retries, Heard, ListenEnds, PollGone, Closed,
     loopVars, linkVars, stationVars, OwedIsHeld
<1>7. CASE MirrorCloses \/ Wedges \/ Blips
  BY <1>7 DEF MirrorCloses, Wedges, Blips, OwedIsHeld
<1>8. CASE ConnectFails \/ Reboots
  BY <1>1, <1>8 DEF ConnectFails, Reboots, OwedIsHeld, loopVars, linkVars, stationVars
<1>9. CASE StationTakes \/ Poll \/ Asks \/ Unnamed \/ Unanswered \/ Clears
  BY <1>2, <1>9 DEF StationTakes, Poll, Asks, Unnamed, Unanswered, Nothing, Clears,
     loopVars, linkVars, stationVars
<1>10. CASE Answered
  BY <1>2, <1>10 DEF Answered, Loads, loopVars, linkVars, stationVars
<1>11. CASE \/ \E r \in Railroads \cup {None} : Names(r)
            \/ \E r \in Railroads, text \in Texts \cup Broken \cup {NoText} : Applied(r, text)
            \/ \E d \in Devices, v \in Values : Wants(d, v)
            \/ \E p \in {"on", "off"} : WantsPower(p)
            \/ \E m \in Minutes : Ticks(m)
  BY <1>2, <1>11 DEF Names, Applied, Wants, WantsPower, Ticks, loopVars, linkVars, stationVars
<1>. QED
  BY <1>3, <1>4, <1>5, <1>6, <1>7, <1>8, <1>9, <1>10, <1>11 DEF Next, World, Loop, Following

\* Where nothing more is said of a locomotive or the track, it stays so.
LEMMA StoodBySilence ==
  ASSUME IInv, owed' => owed,
         \A d \in Locos \cup {"track"}, said \in Sayings : Becomes(d, said)' => Becomes(d, said)
  PROVE  StoodStill'
<1>1. SUFFICES ASSUME owed
               PROVE  /\ \A l \in Locos, v \in Values, s \in Texts \cup {None} :
                           Becomes(l, <<v, s>>)' => v = Stop
                      /\ ~Becomes("track", <<"on", None>>)'
  BY DEF StoodStill
<1>2. \A v \in Values, s \in Texts \cup {None} : <<v, s>> \in Sayings
  BY DEF Sayings
<1>3. <<"on", None>> \in Sayings
  BY DEF Sayings
<1>. QED BY <1>1, <1>2, <1>3 DEF IInv, StoodStill

LEMMA StoodDownHolds ==
  ASSUME IInv, TranslatorAssumption, NoneAssumption, StandDown PROVE StoodStill'
<1>1. SUFFICES ASSUME owed' PROVE StoodStill'
  BY DEF StoodStill
<1>2. /\ toStation \in Seq(Commands) /\ toStation' = toStation \o Farewell /\ told' = told
      /\ commanded \subseteq Locos /\ MovedIsCommanded
  BY <1>1 DEF StandDown, Sends, IInv, TypeOK, PictureType, WireType, stationVars
<1>3. /\ Farewell \in Seq(Commands)
      /\ \A l \in commanded : ~NotAbout(Farewell, l)
      /\ \A l \in Locos :
           \A said : LastSays(Farewell, 0, l, said) => said = <<Stop, None>>
      /\ ~NotAbout(Farewell, "track")
      /\ \A said : LastSays(Farewell, 0, "track", said) => said = <<"off", None>>
  BY <1>2, FarewellSaid
<1>4. ASSUME NEW l \in Locos, NEW v \in Values, NEW s \in Texts \cup {None},
             \/ LastSays(toStation \o Farewell, 0, l, <<v, s>>)
             \/ told[l] = <<v, s>> /\ NotAbout(toStation \o Farewell, l)
      PROVE  v = Stop
  <2>1. CASE LastSays(Farewell, 0, l, <<v, s>>)
    BY <1>3, <2>1
  <2>2. CASE ~LastSays(Farewell, 0, l, <<v, s>>)
    <3>1. /\ NotAbout(Farewell, l)
          /\ LastSays(toStation, 0, l, <<v, s>>) \/ told[l] = <<v, s>>
      BY <1>2, <1>3, <1>4, <2>2, SaidIn, NotAboutBoth
    <3>2. l \notin commanded
      BY <1>3, <3>1
    <3>3. told[l] = None /\ NotAbout(toStation, l)
      BY <1>2, <3>2 DEF MovedIsCommanded
    <3>4. ~LastSays(toStation, 0, l, <<v, s>>)
      BY <3>3 DEF LastSays, NotAbout, Cmd
    <3>5. <<v, s>> \in Sayings
      BY DEF Sayings
    <3>. QED BY <3>1, <3>3, <3>4, <3>5 DEF NoneAssumption
  <2>. QED BY <2>1, <2>2
<1>5. ~ \/ LastSays(toStation \o Farewell, 0, "track", <<"on", None>>)
        \/ NotAbout(toStation \o Farewell, "track")
  <2>1. ~LastSays(Farewell, 0, "track", <<"on", None>>)
    BY <1>3
  <2>. QED BY <1>2, <1>3, <2>1, SaidIn, NotAboutBoth
<1>6. ASSUME NEW l \in Locos, NEW v \in Values, NEW s \in Texts \cup {None},
             Becomes(l, <<v, s>>)'
      PROVE  v = Stop
  <2>1. \/ LastSays(toStation \o Farewell, 0, l, <<v, s>>)
        \/ told[l] = <<v, s>> /\ NotAbout(toStation \o Farewell, l)
    BY <1>2, <1>6 DEF Becomes, LastSays, NotAbout
  <2>. QED BY <1>4, <2>1
<1>7. ~Becomes("track", <<"on", None>>)'
  BY <1>2, <1>5 DEF Becomes, LastSays, NotAbout
<1>. QED BY <1>6, <1>7 DEF StoodStill

LEMMA StoodTakes ==
  ASSUME IInv, TranslatorAssumption, StationTakes PROVE StoodStill'
<1>. SUFFICES ASSUME owed PROVE StoodStill'
  BY DEF StationTakes, StoodStill
<1>. DEFINE h == Head(toStation)
            u == Tail(toStation)
<1>1. /\ toStation \in Seq(Commands) /\ toStation # <<>> /\ ~mute
      /\ told \in [Kept -> Sayings \cup {None}] /\ owed' = owed
  BY DEF IInv, TypeOK, WireType, StationType, StationTakes, OwedIsHeld
<1>2. /\ h \in Commands /\ u \in Seq(Commands) /\ toStation = <<h>> \o u
  BY <1>1
<1>3. /\ <<h>> \in Seq(Commands) /\ h = Cmd(h.dev, h.says)
      /\ LastSays(<<h>>, 0, h.dev, h.says) /\ \A d : d # h.dev => NotAbout(<<h>>, d)
  BY <1>2, One
<1>4. /\ toStation' = u
      /\ told' = IF h.dev \in Kept THEN [told EXCEPT ![h.dev] = h.says] ELSE told
  BY <1>1 DEF StationTakes
<1>. HIDE DEF h, u
<1>5. ASSUME NEW d \in Kept, NEW said,
             LastSays(u, 0, d, said) \/ (told'[d] = said /\ NotAbout(u, d))
      PROVE  Becomes(d, said)
  <2>1. CASE LastSays(u, 0, d, said)
    BY <1>2, <1>3, <2>1, SaidLast DEF Becomes
  <2>2. CASE told'[d] = said /\ NotAbout(u, d)
    <3>1. CASE h.dev = d
      <4>1. h.says = said
        BY <1>1, <1>4, <2>2, <3>1
      <4>2. LastSays(<<h>>, 0, d, said)
        BY <1>3, <3>1, <4>1
      <4>. QED BY <1>2, <1>3, <2>2, <4>2, SaysBefore DEF Becomes
    <3>2. CASE h.dev # d
      <4>1. told[d] = said /\ NotAbout(toStation, d)
        BY <1>1, <1>2, <1>3, <1>4, <2>2, <3>2, NotAboutBoth
      <4>. QED BY <4>1 DEF Becomes
    <3>. QED BY <3>1, <3>2
  <2>. QED BY <1>5, <2>1, <2>2
<1>6. \A d \in Locos \cup {"track"}, said \in Sayings : Becomes(d, said)' => Becomes(d, said)
  <2>1. ASSUME NEW d \in Locos \cup {"track"}, NEW said \in Sayings, Becomes(d, said)'
        PROVE  LastSays(u, 0, d, said) \/ (told'[d] = said /\ NotAbout(u, d))
    BY <1>4, <2>1 DEF Becomes, LastSays, NotAbout
  <2>. QED BY <1>5, <2>1 DEF Kept, Devices
<1>. QED BY <1>1, <1>6, StoodBySilence

LEMMA StoodHolds ==
  ASSUME IInv, TranslatorAssumption, NoneAssumption, Next PROVE StoodStill'
<1>1. OwedIsHeld /\ StoodStill /\ toStation \in Seq(Commands)
  BY DEF IInv, TypeOK, WireType
<1>2. CASE ~owed'
  BY <1>2 DEF StoodStill
<1>3. CASE UNCHANGED <<toStation, told>> /\ (owed' => owed)
  BY <1>1, <1>3 DEF StoodStill, Becomes, LastSays, NotAbout
<1>4. CASE StandDown     BY <1>4, StoodDownHolds
<1>5. CASE StationTakes  BY <1>5, StoodTakes
<1>6. CASE Poll
  <2>1. Ask \in Commands /\ Ask.dev = "ask"
    BY DEF Ask, Cmd, Commands
  <2>2. <<Ask>> \in Seq(Commands) /\ \A d : d # "ask" => NotAbout(<<Ask>>, d)
    BY <2>1, One
  <2>3. owed' = owed /\ told' = told /\ (toStation' = toStation \/ toStation' = toStation \o <<Ask>>)
    BY <1>6 DEF Poll, Sends, stationVars
  <2>4. CASE toStation' = toStation \o <<Ask>>
    <3>1. ASSUME NEW d \in Locos \cup {"track"}, NEW said \in Sayings, Becomes(d, said)'
          PROVE  Becomes(d, said)
      <4>1. NotAbout(<<Ask>>, d)
        BY <2>2 DEF TranslatorAssumption
      <4>2. \/ LastSays(toStation \o <<Ask>>, 0, d, said)
            \/ told[d] = said /\ NotAbout(toStation \o <<Ask>>, d)
        BY <2>3, <2>4, <3>1 DEF Becomes, LastSays, NotAbout
      <4>3. ~LastSays(<<Ask>>, 0, d, said)
        BY <4>1 DEF LastSays, NotAbout, Cmd
      <4>. QED BY <1>1, <2>2, <4>1, <4>2, <4>3, SaidIn, NotAboutBoth DEF Becomes
    <3>. QED BY <2>3, <3>1, StoodBySilence
  <2>. QED BY <1>3, <2>3, <2>4
<1>7. CASE Reboots
  <2>1. owed' = owed /\ toStation' = toStation /\ told' = [d \in Kept |-> None]
    BY <1>7 DEF Reboots
  <2>2. ASSUME NEW d \in Locos \cup {"track"}, NEW said \in Sayings, Becomes(d, said)'
        PROVE  Becomes(d, said)
    <3>1. told'[d] = None /\ said # None
      BY <2>1 DEF Kept, Devices, NoneAssumption
    <3>. QED BY <2>1, <2>2, <3>1 DEF Becomes, LastSays, NotAbout
  <2>. QED BY <2>1, <2>2, StoodBySilence
<1>8. CASE Blips \/ MirrorCloses \/ Wedges
  BY <1>2, <1>8 DEF Blips, MirrorCloses, Wedges
<1>9. CASE Connects
  BY <1>1, <1>2, <1>9 DEF Connects, OwedIsHeld
<1>10. CASE Heard \/ Answered
  BY <1>1, <1>2, <1>3, <1>10 DEF Heard, Answered, Loads, OwedIsHeld, stationVars
<1>11. CASE \/ \E d \in Devices, v \in Values : Wants(d, v)
            \/ \E p \in {"on", "off"} : WantsPower(p)
            \/ \E m \in Minutes : Ticks(m)
  BY <1>1, <1>2, <1>11 DEF Wants, WantsPower, Ticks, Draining, OwedIsHeld
<1>12. CASE Elsewhere
  <2>1. owed' => owed
    BY <1>12 DEF Elsewhere, ConnectFails, Retries, ListenEnds, PollGone, Closed, Asks, Unnamed,
       Unanswered, Nothing, Flushed, Ends, Wedges, Clears, Names, Applied
  <2>. QED BY <1>3, <1>12, <2>1, ElsewhereKeeps
<1>. QED
  BY <1>4, <1>5, <1>6, <1>7, <1>8, <1>9, <1>10, <1>11, <1>12
  DEF Next, World, Link, Loop, Following, Elsewhere

-----------------------------------------------------------------------------
(* The rest of the invariant.                                              *)

LEMMA OneOfEachHolds ==
  ASSUME IInv, Next PROVE OneOfEach'
<1>1. OneOfEach /\ wanted \in Seq(Wanted)
  BY DEF IInv, TypeOK, PictureType
<1>2. CASE UNCHANGED wanted
  BY <1>1, <1>2 DEF OneOfEach
<1>3. ASSUME NEW d \in Devices, NEW v \in Values, Wants(d, v) PROVE OneOfEach'
  <2>. DEFINE want == [dev |-> d, says |-> v]
              held == {i \in DOMAIN wanted : wanted[i].dev = d}
  <2>1. CASE held = {}
    <3>1. wanted' = Append(wanted, want) /\ \A i \in DOMAIN wanted : wanted[i].dev # d
      BY <1>3, <2>1 DEF Wants
    <3>2. /\ DOMAIN wanted' = 1..(Len(wanted) + 1) /\ wanted'[Len(wanted) + 1] = want
          /\ \A i \in DOMAIN wanted : wanted'[i] = wanted[i]
      BY <1>1, <3>1
    <3>3. \A i \in DOMAIN wanted' : i \in DOMAIN wanted \/ i = Len(wanted) + 1
      BY <1>1, <3>2
    <3>. QED BY <1>1, <3>1, <3>2, <3>3 DEF OneOfEach
  <2>2. CASE held # {}
    <3>1. /\ DOMAIN wanted' = DOMAIN wanted
          /\ \A i \in DOMAIN wanted : wanted'[i].dev = wanted[i].dev
      BY <1>3, <2>2 DEF Wants
    <3>. QED BY <1>1, <3>1 DEF OneOfEach
  <2>. QED BY <2>1, <2>2
<1>4. CASE \/ \E p \in {"on", "off"} : WantsPower(p)
           \/ \E m \in Minutes : Ticks(m)
  BY <1>2, <1>4 DEF WantsPower, Ticks, pictureVars
<1>5. CASE StationTakes \/ Poll \/ StandDown \/ Reboots \/ Blips \/ MirrorCloses
  BY <1>2, <1>5 DEF StationTakes, Poll, StandDown, Reboots, Blips, MirrorCloses, pictureVars
<1>6. CASE Connects \/ Heard \/ Answered
  BY <1>2, <1>6 DEF Connects, Heard, Answered, Loads
<1>7. CASE Elsewhere
  BY <1>2, <1>7, ElsewhereKeeps
<1>. QED
  BY <1>3, <1>4, <1>5, <1>6, <1>7 DEF Next, World, Link, Loop, Following, Elsewhere

LEMMA ClockHolds ==
  ASSUME IInv, Next PROVE ClockIsTheBuss'
<1>1. ClockIsTheBuss
  BY DEF IInv
<1>2. CASE UNCHANGED <<minute, clocked>>
  BY <1>1, <1>2 DEF ClockIsTheBuss
<1>3. CASE minute' = clocked'
  BY <1>3 DEF ClockIsTheBuss
<1>4. CASE \/ \E p \in {"on", "off"} : WantsPower(p)
           \/ \E d \in Devices, v \in Values : Wants(d, v)
  BY <1>2, <1>4 DEF WantsPower, Wants, pictureVars, busVars
<1>5. CASE \E m \in Minutes : Ticks(m)
  BY <1>3, <1>5 DEF Ticks
<1>6. CASE StationTakes \/ Poll \/ StandDown \/ Reboots \/ Blips \/ MirrorCloses
  BY <1>2, <1>6 DEF StationTakes, Poll, StandDown, Reboots, Blips, MirrorCloses, pictureVars,
     busVars
<1>7. CASE Connects \/ Heard \/ Answered
  BY <1>2, <1>3, <1>7 DEF Connects, Heard, Answered, Loads, Started, busVars
<1>8. CASE Elsewhere
  BY <1>1, <1>8, ElsewhereKeeps DEF ClockIsTheBuss
<1>. QED
  BY <1>4, <1>5, <1>6, <1>7, <1>8 DEF Next, World, Link, Loop, Following, Elsewhere

-----------------------------------------------------------------------------
(* Types.                                                                  *)

LEMMA Unmoved ==
  /\ UNCHANGED loopVars /\ LoopType => LoopType'
  /\ UNCHANGED linkVars /\ LinkType => LinkType'
  /\ UNCHANGED scriptVars /\ ScriptType => ScriptType'
  /\ UNCHANGED pictureVars /\ PictureType => PictureType'
  /\ UNCHANGED heardVars /\ HeardType => HeardType'
  /\ UNCHANGED busVars /\ BusType => BusType'
  /\ UNCHANGED stationVars /\ StationType => StationType'
  /\ UNCHANGED worldVars /\ WorldType => WorldType'
<1>1. UNCHANGED loopVars /\ LoopType => LoopType'
  BY DEF loopVars, LoopType
<1>2. UNCHANGED linkVars /\ LinkType => LinkType'
  BY DEF linkVars, LinkType
<1>3. UNCHANGED scriptVars /\ ScriptType => ScriptType'
  BY DEF scriptVars, ScriptType
<1>4. UNCHANGED pictureVars /\ PictureType => PictureType'
  BY DEF pictureVars, PictureType
<1>5. UNCHANGED heardVars /\ HeardType => HeardType'
  BY DEF heardVars, HeardType
<1>6. UNCHANGED busVars /\ BusType => BusType'
  BY DEF busVars, BusType
<1>7. UNCHANGED stationVars /\ StationType => StationType'
  BY DEF stationVars, StationType
<1>8. UNCHANGED worldVars /\ WorldType => WorldType'
  BY DEF worldVars, WorldType
<1>. QED BY <1>1, <1>2, <1>3, <1>4, <1>5, <1>6, <1>7, <1>8

LEMMA TroubleTyped ==
  ASSUME WorldType, TranslatorAssumption, Trouble, UNCHANGED store PROVE WorldType'
  BY DEF WorldType, TranslatorAssumption, Trouble

\* What goes out is commands.
LEMMA SendsTyped ==
  ASSUME WireType, NEW cmds \in Seq(Commands), Sends(cmds), UNCHANGED <<peer, toApp>>,
         owed' \in BOOLEAN
  PROVE  WireType'
  BY DEF WireType, Sends

LEMMA StartedTyped ==
  ASSUME PictureType, BusType, Started, UNCHANGED wanted PROVE PictureType'
  BY DEF PictureType, BusType, Started

LEMMA PictureTyped ==
  ASSUME IInv, TranslatorAssumption, NEW s \in Texts \cup {NoText, None}
  PROVE  Picture(s) \in Seq(Commands)
  BY PictureSaid DEF IInv

LEMMA BusTyped ==
  ASSUME IInv, TranslatorAssumption,
         \/ \E p \in {"on", "off"} : WantsPower(p)
         \/ \E m \in Minutes : Ticks(m)
         \/ Clears
         \/ \E r \in Railroads \cup {None} : Names(r)
         \/ \E r \in Railroads, text \in Texts \cup Broken \cup {NoText} : Applied(r, text)
         \/ \E d \in Devices, v \in Values : Wants(d, v)
  PROVE  TypeOK'
<1>1. /\ LoopType /\ LinkType /\ ScriptType /\ PictureType /\ HeardType /\ BusType
      /\ WireType /\ StationType /\ WorldType
  BY DEF IInv, TypeOK
<1>2. ASSUME NEW p \in {"on", "off"}, WantsPower(p) PROVE TypeOK'
  <2>1. <<Cmd("track", <<p, None>>)>> \in Seq(Commands)
    <3>1. Cmd("track", <<p, None>>) \in Commands
      BY DEF Cmd, Commands, Kept, Sayings
    <3>. QED BY <3>1
  <2>2. WireType'
    BY <1>1, <1>2, <2>1, SendsTyped DEF WantsPower, WireType
  <2>3. WorldType'
    BY <1>1, <1>2, TroubleTyped DEF WantsPower
  <2>. QED BY <1>1, <1>2, <2>2, <2>3, Unmoved DEF WantsPower, TypeOK
<1>3. ASSUME NEW m \in Minutes, Ticks(m) PROVE TypeOK'
  <2>. DEFINE cs == IF m = clocked THEN <<>> ELSE <<Cmd("clock", <<m, None>>)>>
  <2>1. cs \in Seq(Commands)
    <3>1. Cmd("clock", <<m, None>>) \in Commands
      BY DEF Cmd, Commands, Kept, Sayings
    <3>. QED BY <3>1
  <2>2. WireType'
    <3>1. Sends(cs) /\ UNCHANGED <<peer, toApp, owed>>
      BY <1>3 DEF Ticks
    <3>. HIDE DEF cs
    <3>. QED BY <1>1, <2>1, <3>1, SendsTyped DEF WireType
  <2>3. WorldType'
    BY <1>1, <1>3, TroubleTyped DEF Ticks
  <2>4. BusType' /\ PictureType'
    BY <1>1, <1>3 DEF Ticks, BusType, PictureType
  <2>. QED BY <1>1, <1>3, <2>2, <2>3, <2>4, Unmoved DEF Ticks, TypeOK
<1>4. CASE Clears
  <2>1. WorldType'
    BY <1>1, <1>4, TroubleTyped DEF Clears
  <2>2. BusType' /\ WireType'
    BY <1>1, <1>4 DEF Clears, BusType, WireType
  <2>. QED BY <1>1, <1>4, <2>1, <2>2, Unmoved DEF Clears, TypeOK
<1>5. ASSUME NEW r \in Railroads \cup {None}, Names(r) PROVE TypeOK'
  <2>1. WorldType'
    BY <1>1, <1>5, TroubleTyped DEF Names
  <2>2. BusType' /\ WireType' /\ PictureType'
    BY <1>1, <1>5 DEF Names, BusType, WireType, PictureType
  <2>. QED BY <1>1, <1>5, <2>1, <2>2, Unmoved DEF Names, TypeOK
<1>6. ASSUME NEW r \in Railroads, NEW text \in Texts \cup Broken \cup {NoText}, Applied(r, text)
      PROVE  TypeOK'
  <2>1. WorldType'
    BY <1>1, <1>6 DEF Applied, WorldType, Trouble, TranslatorAssumption
  <2>2. WireType'
    BY <1>1, <1>6 DEF Applied, WireType
  <2>. QED BY <1>1, <1>6, <2>1, <2>2, Unmoved DEF Applied, TypeOK
<1>7. ASSUME NEW d \in Devices, NEW v \in Values, Wants(d, v) PROVE TypeOK'
  <2>. DEFINE want == [dev |-> d, says |-> v]
              held == {i \in DOMAIN wanted : wanted[i].dev = d}
              c == Command(want, script)
  <2>1. want \in Wanted /\ wanted \in Seq(Wanted)
    BY <1>1 DEF Wanted, PictureType
  <2>2. c \in Commands
    BY <1>1 DEF Command, Cmd, Commands, Sayings, Kept, Handlers, ScriptType
  <2>3. Sends(<<c>>) /\ UNCHANGED <<peer, toApp, owed>>
    BY <1>7 DEF Wants
  <2>4. WireType'
    <3>. HIDE DEF c
    <3>1. <<c>> \in Seq(Commands)
      BY <2>2
    <3>. QED BY <1>1, <2>3, <3>1, SendsTyped DEF WireType
  <2>5. wanted' \in Seq(Wanted)
    <3>1. wanted' = IF held = {} THEN Append(wanted, want)
                    ELSE [i \in DOMAIN wanted |-> IF i \in held THEN want ELSE wanted[i]]
      BY <1>7 DEF Wants
    <3>. HIDE DEF want, held
    <3>2. Append(wanted, want) \in Seq(Wanted)
      BY <2>1
    <3>3. [i \in DOMAIN wanted |-> IF i \in held THEN want ELSE wanted[i]] \in Seq(Wanted)
      BY <2>1
    <3>. QED BY <3>1, <3>2, <3>3
  <2>6. PictureType'
    BY <1>1, <1>7, <2>5 DEF Wants, PictureType
  <2>7. WorldType'
    BY <1>1, <1>7, TroubleTyped DEF Wants
  <2>. QED BY <1>1, <1>7, <2>4, <2>6, <2>7, Unmoved DEF Wants, TypeOK
<1>. QED BY <1>2, <1>3, <1>4, <1>5, <1>6, <1>7

LEMMA LinkTyped ==
  ASSUME IInv, TranslatorAssumption,
         Connects \/ ConnectFails \/ Retries \/ Poll \/ Heard \/ ListenEnds \/ PollGone \/ Closed
  PROVE  TypeOK'
<1>1. /\ LoopType /\ LinkType /\ ScriptType /\ PictureType /\ HeardType /\ BusType
      /\ WireType /\ StationType /\ WorldType
  BY DEF IInv, TypeOK
<1>0. MissedPolls \in Nat \ {0} /\ 0 \in 0..MissedPolls
  BY DEF TranslatorAssumption
<1>2. Picture(script) \in Seq(Commands)
  BY <1>1, PictureTyped DEF ScriptType
<1>3. CASE Connects
  <2>1. PictureType'
    BY <1>1, <1>3, StartedTyped DEF Connects
  <2>2. WireType' /\ LinkType'
    <3>1. <<>> \in Seq({"held", "empty"})
      OBVIOUS
    <3>. QED BY <1>1, <1>2, <1>3, <3>1 DEF Connects, WireType, LinkType
  <2>. QED BY <1>1, <1>3, <2>1, <2>2, Unmoved DEF Connects, TypeOK
<1>4. CASE ConnectFails
  <2>1. WorldType'
    BY <1>1, <1>4, TroubleTyped DEF ConnectFails
  <2>2. WireType' /\ LinkType' /\ HeardType'
    BY <1>1, <1>4 DEF ConnectFails, WireType, LinkType, HeardType
  <2>. QED BY <1>1, <1>4, <2>1, <2>2, Unmoved DEF ConnectFails, TypeOK
<1>5. CASE Poll
  <2>1. HeardType'
    <3>1. CASE UNCHANGED heardVars
      BY <1>1, <3>1, Unmoved
    <3>2. CASE Silent
      BY <1>0, <3>2 DEF Silent, Forget, HeardType
    <3>3. CASE silence < MissedPolls /\ silence' = silence + 1 /\ UNCHANGED <<answered, row>>
      BY <1>0, <1>1, <3>3 DEF HeardType
    <3>. QED BY <1>5, <3>1, <3>2, <3>3 DEF Poll, Silence
  <2>2. <<Ask>> \in Seq(Commands)
    <3>1. Ask \in Commands
      BY DEF Ask, Cmd, Commands
    <3>. QED BY <3>1
  <2>3. WireType'
    BY <1>1, <1>5, <2>2, SendsTyped DEF Poll, WireType
  <2>. QED BY <1>1, <1>5, <2>1, <2>3, Unmoved DEF Poll, TypeOK
<1>6. CASE Heard
  <2>1. HeardType'
    BY <1>1, <1>6 DEF Heard, HeardType, TranslatorAssumption
  <2>2. PictureType'
    BY <1>1, <1>6, StartedTyped DEF Heard, PictureType
  <2>3. WireType'
    <3>1. toApp' \in Seq({"held", "empty"}) /\ UNCHANGED peer
      BY <1>1, <1>6 DEF Heard, WireType
    <3>2. toStation' \in Seq(Commands)
      <4>1. toStation \in Seq(Commands) /\ toStation \o Picture(script) \in Seq(Commands)
        BY <1>1, <1>2 DEF WireType
      <4>2. toStation' \in {toStation, toStation \o Picture(script)}
        BY <1>6 DEF Heard, Sends
      <4>. QED BY <4>1, <4>2
    <3>3. owed' \in BOOLEAN
      BY <1>1, <1>6 DEF Heard, WireType
    <3>. QED BY <1>1, <3>1, <3>2, <3>3 DEF WireType
  <2>. QED BY <1>1, <1>6, <2>1, <2>2, <2>3, Unmoved DEF Heard, TypeOK
<1>7. CASE Retries
  <2>1. WireType' /\ LinkType'
    BY <1>1, <1>7 DEF Retries, WireType, LinkType
  <2>. QED BY <1>1, <1>7, <2>1, Unmoved DEF Retries, TypeOK
<1>8. CASE ListenEnds
  <2>1. WireType' /\ LinkType'
    BY <1>1, <1>8 DEF ListenEnds, WireType, LinkType
  <2>. QED BY <1>1, <1>8, <2>1, Unmoved DEF ListenEnds, TypeOK
<1>9. CASE PollGone
  <2>1. WireType' /\ LinkType'
    BY <1>1, <1>9 DEF PollGone, WireType, LinkType
  <2>2. HeardType'
    BY <1>1, <1>9, <1>0 DEF PollGone, Forget, HeardType
  <2>. QED BY <1>1, <1>9, <2>1, <2>2, Unmoved DEF PollGone, TypeOK
<1>10. CASE Closed
  <2>1. WireType' /\ LinkType' /\ HeardType'
    BY <1>1, <1>10 DEF Closed, WireType, LinkType, HeardType
  <2>. QED BY <1>1, <1>10, <2>1, Unmoved DEF Closed, TypeOK
<1>. QED BY <1>3, <1>4, <1>5, <1>6, <1>7, <1>8, <1>9, <1>10

LEMMA ScriptTyped ==
  ASSUME IInv, TranslatorAssumption, Following \/ Unanswered PROVE TypeOK'
<1>1. /\ LoopType /\ LinkType /\ ScriptType /\ PictureType /\ HeardType /\ BusType
      /\ WireType /\ StationType /\ WorldType
  BY DEF IInv, TypeOK
<1>2. CASE Asks
  <2>1. WireType' /\ ScriptType'
    BY <1>1, <1>2 DEF Asks, WireType, ScriptType, BusType
  <2>. QED BY <1>1, <1>2, <2>1, Unmoved DEF Asks, TypeOK
<1>3. CASE Unnamed \/ Unanswered
  <2>1. WireType' /\ ScriptType'
    BY <1>1, <1>3 DEF Unnamed, Unanswered, Nothing, WireType, ScriptType
  <2>2. WorldType'
    BY <1>1, <1>3, TroubleTyped DEF Unnamed, Unanswered, Nothing, WorldType
  <2>. QED BY <1>1, <1>3, <2>1, <2>2, Unmoved DEF Unnamed, Unanswered, Nothing, TypeOK
<1>4. CASE Answered
  <2>. DEFINE text == store[asked]
  <2>1. text \in Texts \cup Broken \cup {NoText}
    BY <1>1, <1>4 DEF Answered, WorldType, ScriptType
  <2>2. text # None
    BY <2>1 DEF TranslatorAssumption
  <2>3. /\ asked' = None /\ UNCHANGED <<wanted, peer, toApp>>
        /\ \/ script = None /\ Loads(text)
           \/ /\ watching' \in {"asleep", "done"} /\ changed' \in BOOLEAN
              /\ UNCHANGED <<script, toStation, commanded, clocked, lossy, owed>>
    BY <1>1, <1>4, <2>2 DEF Answered, ScriptType
  <2>. HIDE DEF text
  <2>4. CASE script = None /\ Loads(text)
    <3>1. ScriptType'
      BY <1>1, <2>1, <2>3, <2>4 DEF Loads, ScriptType
    <3>2. PictureType'
      BY <1>1, <2>3, <2>4, StartedTyped DEF Loads, PictureType
    <3>3. text \in Texts => Picture(text) \in Seq(Commands)
      BY PictureTyped
    <3>4. toStation' \in Seq(Commands)
      <4>1. /\ toStation \in Seq(Commands)
            /\ text \in Texts => toStation \o Picture(text) \in Seq(Commands)
        BY <1>1, <3>3 DEF WireType
      <4>2. toStation' = toStation \/ (text \in Texts /\ toStation' = toStation \o Picture(text))
        BY <2>4 DEF Loads, Sends
      <4>. QED BY <4>1, <4>2
    <3>5. owed' \in BOOLEAN
      BY <1>1, <2>4 DEF Loads, WireType
    <3>6. WireType'
      BY <1>1, <2>3, <3>4, <3>5 DEF WireType
    <3>. QED BY <1>1, <1>4, <3>1, <3>2, <3>6, Unmoved DEF Answered, TypeOK
  <2>5. CASE /\ watching' \in {"asleep", "done"} /\ changed' \in BOOLEAN
             /\ UNCHANGED <<script, toStation, commanded, clocked, lossy, owed>>
    <3>1. ScriptType' /\ PictureType' /\ WireType'
      BY <1>1, <2>3, <2>5 DEF ScriptType, PictureType, WireType
    <3>. QED BY <1>1, <1>4, <3>1, Unmoved DEF Answered, TypeOK
  <2>. QED BY <2>3, <2>4, <2>5
<1>. QED BY <1>2, <1>3, <1>4 DEF Following

LEMMA EndTyped ==
  ASSUME IInv, TranslatorAssumption, Loop \/ StandDown PROVE TypeOK'
<1>1. /\ LoopType /\ LinkType /\ ScriptType /\ PictureType /\ HeardType /\ BusType
      /\ WireType /\ StationType /\ WorldType
  BY DEF IInv, TypeOK
<1>2. CASE StandDown
  <2>1. Farewell \in Seq(Commands)
    BY <1>1, FarewellSaid DEF PictureType
  <2>2. owed' \in BOOLEAN /\ Sends(Farewell) /\ UNCHANGED <<peer, toApp>>
    BY <1>1, <1>2 DEF StandDown, WireType, StationType, Reaches, Open
  <2>3. WireType'
    BY <1>1, <2>1, <2>2, SendsTyped
  <2>4. LoopType' /\ LinkType'
    BY <1>1, <1>2 DEF StandDown, CancelLink, linkVars, LoopType, LinkType
  <2>. QED BY <1>1, <1>2, <2>3, <2>4, Unmoved DEF StandDown, TypeOK
<1>3. CASE Flushed
  <2>1. LoopType' /\ LinkType' /\ WireType'
    BY <1>1, <1>3 DEF Flushed, CancelLink, linkVars, LoopType, LinkType, WireType
  <2>. QED BY <1>1, <1>3, <2>1, Unmoved DEF Flushed, TypeOK
<1>4. CASE Ends
  <2>1. LoopType' /\ ScriptType' /\ WireType'
    BY <1>1, <1>4 DEF Ends, LoopType, ScriptType, WireType
  <2>. QED BY <1>1, <1>4, <2>1, Unmoved DEF Ends, TypeOK
<1>. QED BY <1>2, <1>3, <1>4 DEF Loop

LEMMA StationTyped ==
  ASSUME IInv, TranslatorAssumption,
         StationTakes \/ Reboots \/ Wedges \/ Blips \/ MirrorCloses
  PROVE  TypeOK'
<1>1. /\ LoopType /\ LinkType /\ ScriptType /\ PictureType /\ HeardType /\ BusType
      /\ WireType /\ StationType /\ WorldType
  BY DEF IInv, TypeOK
<1>2. CASE StationTakes
  <2>1. toStation \in Seq(Commands) /\ toStation # <<>> /\ Head(toStation) \in Commands
        /\ Tail(toStation) \in Seq(Commands)
    BY <1>1, <1>2 DEF StationTakes, WireType
  <2>2. StationType'
    BY <1>1, <1>2, <2>1 DEF StationTakes, Commands, StationType
  <2>3. PictureType'
    BY <1>1, <1>2 DEF StationTakes, PictureType
  <2>4. WireType'
    <3>1. \/ toApp' = toApp
          \/ \E a \in {"held", "empty"} : toApp' = Append(toApp, a)
      BY <1>2 DEF StationTakes
    <3>2. toApp' \in Seq({"held", "empty"})
      <4>1. toApp \in Seq({"held", "empty"})
        BY <1>1 DEF WireType
      <4>2. \A a \in {"held", "empty"} : Append(toApp, a) \in Seq({"held", "empty"})
        BY <4>1
      <4>. QED BY <3>1, <4>1, <4>2
    <3>. QED BY <1>1, <1>2, <2>1, <3>2 DEF StationTakes, WireType
  <2>. QED BY <1>1, <1>2, <2>2, <2>3, <2>4, Unmoved DEF StationTakes, TypeOK
<1>3. CASE Reboots
  <2>1. WorldType'
    BY <1>1, <1>3, TroubleTyped DEF Reboots
  <2>2. StationType' /\ PictureType' /\ WireType'
    BY <1>1, <1>3 DEF Reboots, StationType, PictureType, WireType
  <2>. QED BY <1>1, <1>3, <2>1, <2>2, Unmoved DEF Reboots, TypeOK
<1>4. CASE Wedges
  <2>1. WorldType'
    BY <1>1, <1>4, TroubleTyped DEF Wedges
  <2>2. StationType' /\ WireType'
    BY <1>1, <1>4 DEF Wedges, StationType, WireType
  <2>. QED BY <1>1, <1>4, <2>1, <2>2, Unmoved DEF Wedges, TypeOK
<1>5. CASE Blips
  <2>1. WorldType'
    BY <1>1, <1>5, TroubleTyped DEF Blips
  <2>2. PICK n \in 1..Len(toStation) : toStation' = SubSeq(toStation, n + 1, Len(toStation))
    BY <1>5 DEF Blips
  <2>3. toStation' \in Seq(Commands)
    BY <1>1, <2>2 DEF WireType
  <2>4. PictureType' /\ WireType'
    BY <1>1, <1>5, <2>3 DEF Blips, PictureType, WireType
  <2>. QED BY <1>1, <1>5, <2>1, <2>4, Unmoved DEF Blips, TypeOK
<1>6. CASE MirrorCloses
  <2>1. WorldType'
    BY <1>1, <1>6, TroubleTyped DEF MirrorCloses
  <2>2. <<>> \in Seq(Commands) /\ <<>> \in Seq({"held", "empty"})
    OBVIOUS
  <2>3. WireType'
    BY <1>1, <1>6, <2>2 DEF MirrorCloses, WireType
  <2>. QED BY <1>1, <1>6, <2>1, <2>3, Unmoved DEF MirrorCloses, TypeOK
<1>. QED BY <1>2, <1>3, <1>4, <1>5, <1>6

-----------------------------------------------------------------------------
LEMMA TypeHolds ==
  ASSUME IInv, TranslatorAssumption, Next PROVE TypeOK' /\ ~signalled'
<1>1. TypeOK'
  BY BusTyped, LinkTyped, ScriptTyped, EndTyped, StationTyped DEF Next, World, Link
<1>. SUFFICES ~signalled'
  BY <1>1
<1>2. ~signalled
  BY DEF IInv
<1>3. CASE StationTakes \/ Poll \/ StandDown \/ Reboots \/ Blips \/ MirrorCloses
  BY <1>2, <1>3 DEF StationTakes, Poll, StandDown, Reboots, Blips, MirrorCloses, loopVars
<1>4. CASE Connects \/ Heard \/ Answered
  BY <1>2, <1>4 DEF Connects, Heard, Answered, loopVars
<1>5. CASE \/ \E d \in Devices, v \in Values : Wants(d, v)
           \/ \E p \in {"on", "off"} : WantsPower(p)
           \/ \E m \in Minutes : Ticks(m)
  BY <1>2, <1>5 DEF Wants, WantsPower, Ticks, loopVars
<1>6. CASE Elsewhere
  BY <1>2, <1>6, ElsewhereKeeps
<1>. QED
  BY <1>3, <1>4, <1>5, <1>6 DEF Next, World, Link, Loop, Following, Elsewhere

LEMMA StutterHolds == IInv /\ UNCHANGED vars => IInv'
<1>. SUFFICES ASSUME IInv, UNCHANGED vars PROVE IInv'
  OBVIOUS
<1>1. TypeOK' /\ ~signalled'
  BY Unmoved DEF IInv, TypeOK, vars, WireType, loopVars
<1>2. OneOfEach' /\ ClockIsTheBuss' /\ LetGoFirst' /\ OwedIsHeld'
  BY DEF IInv, OneOfEach, ClockIsTheBuss, LetGoFirst, OwedIsHeld, vars, loopVars, linkVars,
     pictureVars, busVars, stationVars
<1>3. MarkBrings' /\ MarkedHas'
  <2>1. /\ Promised' \subseteq Promised /\ (Driven' => Driven)
        /\ UNCHANGED <<toStation, marked, told, lossy>>
    BY DEF vars, loopVars, linkVars, scriptVars, pictureVars, busVars, stationVars, Promised,
       Due, Driven
  <2>. QED BY <2>1, PictureStays
<1>4. MovedIsCommanded'
  BY MovedByUnsent DEF vars, pictureVars, stationVars
<1>5. StoodStill'
  BY DEF IInv, StoodStill, Becomes, LastSays, NotAbout, vars, stationVars
<1>. QED BY <1>1, <1>2, <1>3, <1>4, <1>5 DEF IInv

LEMMA NextHolds == IInv /\ [Next]_vars => IInv'
<1>. SUFFICES ASSUME IInv, Next PROVE IInv'
  BY StutterHolds
<1>. QED
  BY TypeHolds, OneOfEachHolds, ClockHolds, PictureHolds, MovedHolds, LetGoHolds, OwedHolds,
     StoodHolds, TranslatorAssumption, NoneAssumption
  DEF IInv

LEMMA InitHolds == Init => IInv
<1>. SUFFICES ASSUME Init PROVE IInv
  OBVIOUS
<1>1. <<>> \in Seq(Commands) /\ <<>> \in Seq({"held", "empty"})
  OBVIOUS
<1>2. LoopType /\ LinkType /\ BusType /\ StationType /\ ~signalled
  BY DEF Init, LoopType, LinkType, BusType, StationType
<1>3. HeardType /\ WireType
  <2>1. HeardType
    <3>1. 0 \in 0..MissedPolls
      BY TranslatorAssumption DEF TranslatorAssumption
    <3>. QED BY <3>1 DEF Init, HeardType
  <2>2. WireType
    BY <1>1 DEF Init, WireType
  <2>. QED BY <2>1, <2>2
<1>4. ScriptType /\ WorldType
  <2>1. script \in Texts \cup {NoText, None} /\ WorldType
    BY TranslatorAssumption DEF Init, TranslatorAssumption, FirstAsk, WorldType
  <2>. QED BY <2>1 DEF Init, ScriptType
<1>5. PictureType /\ OneOfEach
  BY RetainedAssumption DEF Init, RetainedAssumption, PictureType, OneOfEach
<1>6. MovedIsCommanded
  BY <1>1 DEF Init, MovedIsCommanded, NotAbout, Kept, Devices
<1>7. ClockIsTheBuss /\ MarkBrings /\ MarkedHas /\ LetGoFirst /\ OwedIsHeld /\ StoodStill
  BY DEF Init, ClockIsTheBuss, MarkBrings, MarkedHas, LetGoFirst, OwedIsHeld, StoodStill,
         Driven
<1>. QED BY <1>2, <1>3, <1>4, <1>5, <1>6, <1>7 DEF IInv, TypeOK

\* The translator's inductive invariant.
THEOREM Invariance == Spec => []IInv
  BY InitHolds, NextHolds, PTL DEF Spec

\* A marked station has been told, or is about to be, every desired value, the
\* script's start and the clock as they stand: `_heard` need look for nothing
\* but the stash read back empty.
THEOREM MissesNothing == Spec => []NothingMissed
<1>1. IInv => NothingMissed
  <2>. SUFFICES ASSUME IInv, Driven, WillBeMarked, ~lossy, NEW due \in Due(script)
                PROVE  Becomes(due[1], due[2])
    BY DEF NothingMissed
  <2>1. due \in Promised
    BY DEF Promised
  <2>2. CASE marked
    BY <2>1, <2>2 DEF IInv, MarkedHas
  <2>3. CASE ~marked
    <3>1. PICK i \in DOMAIN toStation : toStation[i] = Mark
      BY <2>3 DEF WillBeMarked
    <3>2. LastSays(toStation, i, due[1], due[2])
      BY <2>1, <3>1 DEF IInv, MarkBrings
    <3>3. toStation \in Seq(Commands) /\ i \in Nat /\ 0 <= i
      BY DEF IInv, TypeOK, WireType
    <3>. QED BY <3>2, <3>3, SaysSooner DEF Becomes
  <2>. QED BY <2>2, <2>3
<1>. QED BY Invariance, <1>1, PTL

\* A process that ends with its link held leaves no locomotive moving and the
\* track off, whichever session moved it.
THEOREM StandsDown == Spec => []StoodDown
<1>1. IInv => StoodDown
  BY DEF IInv, StoodStill, StoodDown
<1>. QED BY Invariance, <1>1, PTL

\* Every variable of the translator stays in its type.
THEOREM TypeCorrect == Spec => []TypeOK
<1>1. IInv => TypeOK
  BY DEF IInv
<1>. QED BY Invariance, <1>1, PTL

-----------------------------------------------------------------------------
(* The link is what StationLink promises.                                  *)

\* Between two sessions the word is down.
DownBetween == link \in {"connecting", "backoff"} => row = FALSE

\* What leaves the link, what was heard and the word alone is seen by nobody.
LEMMA LinkUnseen ==
  ASSUME link' = link, answered' = answered, row' = row
  PROVE  UNCHANGED Said!linkVars /\ (DownBetween => DownBetween')
  BY DEF Said!linkVars, Session, Open, DownBetween

\* A cancellation of the link's task is its end, wherever it finds the task but
\* in a session, which it makes end first.
LEMMA LinkCancelled ==
  ASSUME CancelLink, answered' = answered, row' = row
  PROVE  /\ Said!LinkNext \/ UNCHANGED Said!linkVars
         /\ DownBetween => DownBetween'
<1>1. CASE Open
  <2>1. link' \in {"listening", "closing"}
    BY <1>1 DEF CancelLink, Open, linkVars
  <2>. QED BY <1>1, <2>1 DEF Said!linkVars, Session, Open, DownBetween
<1>2. CASE ~Open
  <2>1. link' = "ended"
    BY <1>2 DEF CancelLink, Open
  <2>2. CASE link \in {"connecting", "backoff", "closed"}
    BY <2>1, <2>2 DEF Said!LinkNext, Said!Ends, Session, Open, DownBetween
  <2>3. CASE link \notin {"connecting", "backoff", "closed"}
    BY <1>2, <2>1, <2>3 DEF Said!linkVars, Session, Open, DownBetween
  <2>. QED BY <2>2, <2>3
<1>. QED BY <1>1, <1>2

LEMMA LinkSteps ==
  ASSUME DownBetween, Link \/ ConnectFails \/ Poll
  PROVE  (Said!LinkNext \/ UNCHANGED Said!linkVars) /\ DownBetween'
<1>1. CASE Connects
  BY <1>1 DEF Connects, heardVars, Said!LinkNext, Said!Opens, Session, Open, DownBetween
<1>2. CASE Retries
  BY <1>2 DEF Retries, heardVars, Said!linkVars, Session, Open, DownBetween
<1>3. CASE Heard
  BY <1>3 DEF Heard, linkVars, Said!LinkNext, Said!Hears, Session, Open, DownBetween
<1>4. CASE ListenEnds
  BY <1>4 DEF ListenEnds, heardVars, Said!linkVars, Session, Open, DownBetween
<1>5. CASE PollGone
  BY <1>5 DEF PollGone, Forget, Said!LinkNext, Said!Leaves, Session, Open, DownBetween
<1>6. CASE Closed
  BY <1>6 DEF Closed, Said!LinkNext, Said!Closes, Session, Open, DownBetween
<1>7. CASE ConnectFails
  <2>1. row = FALSE /\ row' = FALSE
    BY <1>7 DEF ConnectFails, DownBetween
  <2>2. UNCHANGED answered /\ link = "connecting" /\ link' = "backoff"
    BY <1>7 DEF ConnectFails
  <2>. QED BY <2>1, <2>2 DEF Said!linkVars, Session, Open, DownBetween
<1>8. CASE Poll
  <2>1. link = "listening" /\ link' = link
    BY <1>8 DEF Poll, linkVars
  <2>2. CASE UNCHANGED <<answered, row>>
    BY <2>1, <2>2, LinkUnseen
  <2>3. CASE answered /\ Silent
    BY <2>1, <2>3 DEF Silent, Forget, Said!LinkNext, Said!FallsSilent, Session, Open,
                      DownBetween
  <2>. QED BY <1>8, <2>2, <2>3 DEF Poll, Silence, heardVars
<1>. QED BY <1>1, <1>2, <1>3, <1>4, <1>5, <1>6, <1>7, <1>8 DEF Link

LEMMA LinkBeside ==
  ASSUME DownBetween,
         \/ StandDown \/ Flushed \/ Ends \/ Following \/ StationTakes \/ Terminated
         \/ Reboots \/ Wedges \/ Blips \/ MirrorCloses \/ Unanswered
         \/ \E r \in Railroads \cup {None} : Names(r)
         \/ \E r \in Railroads, text \in Texts \cup Broken \cup {NoText} : Applied(r, text)
         \/ \E d \in Devices, v \in Values : Wants(d, v)
         \/ \E p \in {"on", "off"} : WantsPower(p)
         \/ Clears \/ \E m \in Minutes : Ticks(m)
  PROVE  (Said!LinkNext \/ UNCHANGED Said!linkVars) /\ DownBetween'
<1>1. CASE StandDown
  <2>1. (UNCHANGED linkVars \/ CancelLink) /\ UNCHANGED heardVars
    BY <1>1 DEF StandDown
  <2>. QED BY <2>1, LinkUnseen, LinkCancelled DEF linkVars, heardVars
<1>2. CASE Flushed \/ Terminated
  BY <1>2, LinkCancelled DEF Flushed, Terminated, heardVars
<1>3. CASE Following \/ Unanswered
  BY <1>3, LinkUnseen
  DEF Following, Asks, Unnamed, Answered, Unanswered, Nothing, linkVars, heardVars
<1>4. CASE \/ Ends \/ StationTakes \/ Reboots \/ Wedges \/ Blips \/ MirrorCloses \/ Clears
  BY <1>4, LinkUnseen
  DEF Ends, StationTakes, Reboots, Wedges, Blips, MirrorCloses, Clears, linkVars, heardVars
<1>5. ASSUME NEW r, NEW text, Names(r) \/ Applied(r, text)
      PROVE  (Said!LinkNext \/ UNCHANGED Said!linkVars) /\ DownBetween'
  BY <1>5, LinkUnseen DEF Names, Applied, linkVars, heardVars
<1>6. ASSUME NEW d, NEW v, Wants(d, v) \/ WantsPower(v) \/ Ticks(v)
      PROVE  (Said!LinkNext \/ UNCHANGED Said!linkVars) /\ DownBetween'
  BY <1>6, LinkUnseen DEF Wants, WantsPower, Ticks, linkVars, heardVars
<1>. QED BY <1>1, <1>2, <1>3, <1>4, <1>5, <1>6

\* The link goes up with an answer and down with a silence or its session,
\* however often and wherever its task is cancelled, by SIGTERM too.
THEOREM KeepsItsLink == SignalSpec => SaysItsLink
<1>1. Init => Said!LinkInit /\ DownBetween
  BY DEF Init, Said!LinkInit, Session, Open, DownBetween
<1>2. DownBetween /\ [Next \/ Terminated]_vars
        => DownBetween' /\ [Said!LinkNext]_(Said!linkVars)
  <2>. SUFFICES ASSUME DownBetween, [Next \/ Terminated]_vars
                PROVE  DownBetween' /\ (Said!LinkNext \/ UNCHANGED Said!linkVars)
    OBVIOUS
  <2>1. CASE UNCHANGED vars
    BY <2>1, LinkUnseen DEF vars, linkVars, heardVars
  <2>2. CASE Next \/ Terminated
    BY <2>2, LinkSteps, LinkBeside DEF Next, World, Link, Loop, Following
  <2>. QED BY <2>1, <2>2
<1>. QED BY <1>1, <1>2, PTL DEF SignalSpec, SaysItsLink, Said!LinkSpec

\* So a station that is said to be reached answers, or its session has ended and
\* is being closed; and an end says nothing more.
THEOREM WordIsTrue == SignalSpec => []Said!UpIsAnswering
<1>1. Said!LinkInit => Said!UpIsAnswering
  BY DEF Said!LinkInit, Said!UpIsAnswering
<1>2. Said!UpIsAnswering /\ [Said!LinkNext]_(Said!linkVars) => Said!UpIsAnswering'
  <2>. SUFFICES ASSUME Said!UpIsAnswering, Said!LinkNext \/ UNCHANGED Said!linkVars
       PROVE  /\ row' => answered' \/ Session' \in {"closing", "over"}
              /\ answered' => row' /\ Session' = "open"
    BY DEF Said!UpIsAnswering
  <2>1. /\ row => answered \/ Session \in {"closing", "over"}
        /\ answered => row /\ Session = "open"
    BY DEF Said!UpIsAnswering
  <2>2. CASE Said!Opens \/ UNCHANGED Said!linkVars
    BY <2>1, <2>2 DEF Said!Opens, Said!linkVars
  <2>3. CASE Said!Hears \/ Said!FallsSilent
    BY <2>3 DEF Said!Hears, Said!FallsSilent
  <2>4. CASE Said!Leaves \/ Said!Closes \/ Said!Ends
    BY <2>1, <2>4 DEF Said!Leaves, Said!Closes, Said!Ends
  <2>5. ~Said!Breaks /\ ~Said!Dies
    BY DEF Said!Breaks, Said!Dies
  <2>. QED BY <2>2, <2>3, <2>4, <2>5 DEF Said!LinkNext
<1>. QED BY <1>1, <1>2, KeepsItsLink, PTL DEF SaysItsLink, Said!LinkSpec
=============================================================================
