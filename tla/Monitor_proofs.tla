--------------------------- MODULE Monitor_proofs ---------------------------
(***************************************************************************)
(* That a stream leaves no client on the mirror's port and buffers no more *)
(* than asyncio's high water mark and a frame, for every mark, every limit *)
(* of the mirror's and whatever its other clients do: IInv (Monitor) is    *)
(* inductive.                                                              *)
(***************************************************************************)
EXTENDS Monitor, SequenceTheorems, TLAPS

-----------------------------------------------------------------------------
(* The fan-out by itself: a client of the mirror misses nothing and costs  *)
(* no more than the limit, for every number of clients, every limit and    *)
(* every length of what the device says.  MirrorIInv (FanOut) is           *)
(* inductive.                                                              *)

LEMMA InitInv == MirrorInit => MirrorIInv
  BY FanOutAssumption
  DEF FanOutAssumption, MirrorInit, MirrorIInv, MirrorTypeOK, NoGaps, OwesBounded,
      WhyIsTrue, OpenIsListed, SentWasSaid, CutIsMarked, Owes, Closing

\* What one write adds to what a client was written.
LEMMA Lengthened ==
  ASSUME NEW s \in Seq(1..MaxSaid), NEW n \in Nat, NEW pos \in Nat,
         MaxSaid \in Nat, pos + n <= MaxSaid,
         NEW t, t = s \o [i \in 1..n |-> pos + i]
  PROVE  /\ t \in Seq(1..MaxSaid) /\ Len(t) = Len(s) + n
         /\ \A i \in 1..Len(s) : t[i] = s[i]
         /\ \A i \in 1..n : t[Len(s) + i] = pos + i
<1>. DEFINE more == [i \in 1..n |-> pos + i]
<1>1. more \in Seq(1..MaxSaid) /\ Len(more) = n
  OBVIOUS
<1>2. \A i \in 1..n : more[i] = pos + i
  OBVIOUS
<1>. HIDE DEF more
<1>3. t = s \o more
  BY DEF more
<1>4. /\ t \in Seq(1..MaxSaid) /\ Len(t) = Len(s) + n
      /\ \A i \in 1..(Len(s) + n) :
            t[i] = IF i <= Len(s) THEN s[i] ELSE more[i - Len(s)]
  <2>1. /\ s \o more \in Seq(1..MaxSaid)
        /\ Len(s \o more) = Len(s) + Len(more)
        /\ \A i \in 1..(Len(s) + Len(more)) :
              (s \o more)[i] = IF i <= Len(s) THEN s[i] ELSE more[i - Len(s)]
    BY <1>1, ConcatProperties, ZenonT(30)
  <2>. QED BY <1>1, <1>3, <2>1, ZenonT(30)
<1>5. ASSUME NEW i \in 1..Len(s) PROVE t[i] = s[i]
  <2>1. Len(s) \in Nat /\ i \in 1..(Len(s) + n) /\ i <= Len(s)
    OBVIOUS
  <2>. QED BY <1>4, <2>1
<1>6. ASSUME NEW i \in 1..n PROVE t[Len(s) + i] = pos + i
  <2>1. /\ Len(s) \in Nat /\ Len(s) + i \in 1..(Len(s) + n)
        /\ ~(Len(s) + i <= Len(s)) /\ (Len(s) + i) - Len(s) = i
    OBVIOUS
  <2>2. t[Len(s) + i] = more[i]
    BY <1>4, <2>1
  <2>. QED BY <1>2, <2>2
<1>. QED BY <1>4, <1>5, <1>6

LEMMA FanOutInv ==
  ASSUME MirrorIInv, NEW n \in 1..ReadSize, FanOut(n) PROVE MirrorIInv'
<1>. DEFINE live == {c \in clients : ~Closing(c)}
            cut  == {c \in live : TooFar(c)}
            keep == live \ cut
<1>. n \in Nat /\ n <= ReadSize /\ ReadSize \in Nat /\ MaxSaid \in Nat
     /\ MaxOutstanding \in Nat
  BY FanOutAssumption DEF FanOutAssumption
<1>1. /\ said' = said + n /\ said + n <= MaxSaid
      /\ clients' = clients \ cut /\ behind' = behind \cup cut /\ slow' = slow \cup cut
      /\ conn' = [c \in Clients |-> IF c \in cut THEN "closing" ELSE conn[c]]
      /\ sent' = [c \in Clients |-> IF c \in keep
                    THEN sent[c] \o [i \in 1..n |-> said + i] ELSE sent[c]]
      /\ UNCHANGED <<from, taken, why>>
  BY DEF FanOut, CutOff
<1>2. said \in Nat /\ clients \subseteq Clients
  BY DEF MirrorIInv, MirrorTypeOK
<1>13. /\ said' = said + n /\ said + n <= MaxSaid /\ from' = from /\ taken' = taken
  BY <1>1
<1>3. /\ keep \subseteq clients /\ cut \subseteq clients /\ keep \cap cut = {}
      /\ \A c \in keep : conn[c] # "closing" /\ ~(Owes(c) > MaxOutstanding)
      /\ \A c \in cut : conn[c] # "closing"
      /\ \A c \in clients : c \notin keep => c \in cut \/ conn[c] = "closing"
  BY DEF Closing, TooFar
<1>. HIDE DEF live, cut, keep
<1>4. ASSUME NEW c \in Clients, c \in keep
      PROVE  /\ sent'[c] \in Seq(1..MaxSaid) /\ Len(sent'[c]) = Len(sent[c]) + n
             /\ \A i \in 1..Len(sent[c]) : sent'[c][i] = sent[c][i]
             /\ \A i \in 1..n : sent'[c][Len(sent[c]) + i] = said + i
  <2>1. sent'[c] = sent[c] \o [i \in 1..n |-> said + i]
    BY <1>1, <1>4
  <2>2. sent[c] \in Seq(1..MaxSaid) /\ said \in Nat /\ said + n <= MaxSaid
    BY <1>1, <1>2 DEF MirrorIInv, MirrorTypeOK
  <2>3. ASSUME NEW s \in Seq(1..MaxSaid), NEW pos \in Nat, pos + n <= MaxSaid,
               NEW t, t = s \o [i \in 1..n |-> pos + i]
        PROVE  /\ t \in Seq(1..MaxSaid) /\ Len(t) = Len(s) + n
               /\ \A i \in 1..Len(s) : t[i] = s[i]
               /\ \A i \in 1..n : t[Len(s) + i] = pos + i
    BY ONLY <2>3, Lengthened, n \in Nat, MaxSaid \in Nat, Z3
  <2>. QED BY ONLY <2>1, <2>2, <2>3, Zenon
<1>5. \A c \in Clients : c \notin keep => sent'[c] = sent[c]
  BY <1>1
<1>6. \A c \in Clients : /\ c \in cut => conn'[c] = "closing"
                         /\ c \notin cut => conn'[c] = conn[c]
  BY <1>1
<1>7. MirrorTypeOK'
  <2>1. sent' \in [Clients -> Seq(1..MaxSaid)]
    <3>1. \A c \in Clients : sent'[c] \in Seq(1..MaxSaid)
      BY <1>4, <1>5 DEF MirrorIInv, MirrorTypeOK
    <3>2. sent' = [c \in Clients |-> sent'[c]]
      BY <1>1
    <3>. QED BY <3>1, <3>2
  <2>2. conn' \in [Clients -> {"out", "open", "eof", "closing"}]
    BY <1>1 DEF MirrorIInv, MirrorTypeOK
  <2>3. clients' \subseteq Clients /\ behind' \subseteq Clients \ clients'
        /\ slow' \subseteq Clients
    BY <1>1, <1>2, <1>3 DEF MirrorIInv, MirrorTypeOK
  <2>4. said' \in 0..MaxSaid
    BY <1>1, <1>2
  <2>. QED BY <1>1, <2>1, <2>2, <2>3, <2>4 DEF MirrorIInv, MirrorTypeOK
<1>8. NoGaps' /\ SentWasSaid'
  <2>. SUFFICES ASSUME NEW c \in Clients
       PROVE  /\ \A i \in 1..Len(sent'[c]) : sent'[c][i] = from'[c] + i
              /\ taken'[c] <= Len(sent'[c])
              /\ c \in clients' /\ conn'[c] # "closing" =>
                   from'[c] + Len(sent'[c]) = said'
              /\ from'[c] + Len(sent'[c]) <= said'
    BY DEF NoGaps, SentWasSaid, Closing
  <2>1. /\ from'[c] = from[c] /\ taken'[c] = taken[c] /\ from[c] \in Nat
        /\ taken[c] \in Nat /\ Len(sent[c]) \in Nat /\ taken[c] <= Len(sent[c])
        /\ \A i \in 1..Len(sent[c]) : sent[c][i] = from[c] + i
        /\ c \in clients /\ conn[c] # "closing" => from[c] + Len(sent[c]) = said
        /\ from[c] + Len(sent[c]) <= said
    BY <1>1 DEF MirrorIInv, MirrorTypeOK, NoGaps, SentWasSaid, Closing
  <2>4. from'[c] = from[c] /\ from[c] \in Nat /\ Len(sent[c]) \in Nat
    BY <2>1
  <2>2. CASE c \in keep
    <3>1. from[c] + Len(sent[c]) = said
      BY <1>3, <2>1, <2>2
    <3>2. ASSUME NEW i \in 1..Len(sent'[c]) PROVE sent'[c][i] = from[c] + i
      <4>1. CASE i <= Len(sent[c])
        BY <1>4, <2>1, <2>2, <4>1
      <4>2. CASE i > Len(sent[c])
        <5>1. i - Len(sent[c]) \in 1..n /\ i = Len(sent[c]) + (i - Len(sent[c]))
          BY <1>4, <2>1, <2>2, <4>2
        <5>2. sent'[c][i] = said + (i - Len(sent[c]))
          BY <1>4, <2>2, <5>1
        <5>3. from[c] + Len(sent[c]) + (i - Len(sent[c])) = from[c] + i
          BY ONLY <2>4, i \in Nat
        <5>. QED BY <3>1, <5>2, <5>3
      <4>. QED BY <1>4, <2>1, <2>2, <4>1, <4>2
    <3>3. Len(sent'[c]) = Len(sent[c]) + n
      BY <1>4, <2>2
    <3>4. from'[c] + Len(sent'[c]) = said' /\ taken'[c] <= Len(sent'[c])
      <4>1. from'[c] + (Len(sent[c]) + n) = said + n
        <5>1. from'[c] + (Len(sent[c]) + n) = from[c] + Len(sent[c]) + n
          BY ONLY <2>4, n \in Nat
        <5>. QED BY <3>1, <5>1
      <4>2. taken'[c] <= Len(sent[c]) + n
        BY <2>1
      <4>. QED BY <1>13, <3>3, <4>1, <4>2
    <3>5. said' <= said'
      BY <1>13, <1>2
    <3>. QED BY <1>13, <3>2, <3>4, <3>5
  <2>3. CASE c \notin keep
    BY <1>1, <1>2, <1>3, <1>5, <1>6, <2>1, <2>3
  <2>. QED BY <2>2, <2>3
<1>9. OwesBounded'
  <2>. SUFFICES ASSUME NEW c \in Clients, conn'[c] \in {"open", "eof"}
       PROVE  Len(sent'[c]) - taken'[c] <= MaxOutstanding + ReadSize
    BY DEF OwesBounded, Owes
  <2>1. conn[c] \in {"open", "eof"} /\ c \in clients /\ c \notin cut /\ c \in keep
    BY <1>3, <1>6 DEF MirrorIInv, OpenIsListed
  <2>2. Len(sent[c]) - taken[c] <= MaxOutstanding
    BY <1>3, <2>1 DEF Owes, MirrorIInv, MirrorTypeOK
  <2>. QED BY <1>1, <1>4, <2>1, <2>2 DEF MirrorIInv, MirrorTypeOK
<1>10. OpenIsListed'
  BY <1>1, <1>6 DEF MirrorIInv, OpenIsListed
<1>11. CutIsMarked'
  <2>. SUFFICES ASSUME NEW c \in Clients
       PROVE  /\ c \in behind' => c \in slow' /\ conn'[c] = "closing"
              /\ c \in slow' /\ conn'[c] # "out" => c \in behind'
              /\ conn'[c] # "out" => why'[c] = "nothing"
    BY DEF CutIsMarked, Closing
  <2>1. /\ c \in behind => c \in slow /\ conn[c] = "closing"
        /\ c \in slow /\ conn[c] # "out" => c \in behind
        /\ conn[c] # "out" => why[c] = "nothing"
    BY DEF MirrorIInv, CutIsMarked, Closing
  <2>2. c \in cut => conn[c] # "out" /\ conn'[c] = "closing"
    <3>1. c \in cut => Owes(c) > MaxOutstanding
      BY DEF cut, TooFar
    <3>. QED BY <1>6, <3>1 DEF Owes
  <2>. QED BY <1>1, <1>6, <2>1, <2>2
<1>12. WhyIsTrue'
  <2>. SUFFICES ASSUME NEW c \in Clients
       PROVE  /\ why[c] = "behind" => c \in slow'
              /\ why[c] = "gone" => c \notin slow'
    BY <1>1 DEF WhyIsTrue
  <2>1. c \in cut => why[c] = "nothing"
    <3>1. c \in cut => Owes(c) > MaxOutstanding
      BY DEF cut, TooFar
    <3>. QED BY <3>1 DEF Owes, MirrorIInv, CutIsMarked
  <2>. QED BY <1>1, <2>1 DEF MirrorIInv, WhyIsTrue
<1>. QED
  BY <1>7, <1>8, <1>9, <1>10, <1>11, <1>12 DEF MirrorIInv

\* A step of one client leaves what the others have as it was.
LEMMA ClientInv ==
  ASSUME MirrorIInv, NEW c \in Clients, Client(c) PROVE MirrorIInv'
<1>. /\ ReadSize \in Nat /\ MaxSaid \in Nat /\ MaxOutstanding \in Nat
  BY FanOutAssumption DEF FanOutAssumption
<1>1. CASE Join(c)
  <2>1. /\ conn[c] = "out" /\ conn' = [conn EXCEPT ![c] = "open"]
        /\ clients' = clients \cup {c} /\ slow' = slow \ {c}
        /\ from' = [from EXCEPT ![c] = said] /\ sent' = [sent EXCEPT ![c] = <<>>]
        /\ taken' = [taken EXCEPT ![c] = 0] /\ why' = [why EXCEPT ![c] = "nothing"]
        /\ said' = said /\ behind' = behind
    BY <1>1 DEF Join
  <2>2. c \notin behind
    BY <2>1 DEF MirrorIInv, CutIsMarked, Closing
  <2>3. /\ from' \in [Clients -> 0..MaxSaid] /\ sent' \in [Clients -> Seq(1..MaxSaid)]
        /\ taken' \in [Clients -> Nat]
    BY <2>1 DEF MirrorIInv, MirrorTypeOK
  <2>4. MirrorTypeOK'
    BY <2>1, <2>2, <2>3 DEF MirrorIInv, MirrorTypeOK
  <2>5. NoGaps' /\ SentWasSaid'
    BY <2>1 DEF MirrorIInv, MirrorTypeOK, NoGaps, SentWasSaid, Closing
  <2>6. OwesBounded'
    BY <2>1 DEF MirrorIInv, MirrorTypeOK, OwesBounded, Owes
  <2>7. OpenIsListed' /\ CutIsMarked' /\ WhyIsTrue'
    BY <2>1, <2>2 DEF MirrorIInv, MirrorTypeOK, OpenIsListed, CutIsMarked, WhyIsTrue, Closing
  <2>. QED BY <2>4, <2>5, <2>6, <2>7 DEF MirrorIInv
<1>2. CASE HalfClose(c) \/ Lost(c)
  <2>. USE DEF HalfClose, Lost
  <2>1. MirrorTypeOK'
    BY <1>2 DEF MirrorIInv, MirrorTypeOK
  <2>2. NoGaps' /\ SentWasSaid'
    BY <1>2 DEF MirrorIInv, MirrorTypeOK, NoGaps, SentWasSaid, Closing
  <2>3. OwesBounded'
    <3>. SUFFICES ASSUME NEW d \in Clients, conn'[d] \in {"open", "eof"}
         PROVE  Len(sent[d]) - taken[d] <= MaxOutstanding + ReadSize
      BY <1>2 DEF OwesBounded, Owes
    <3>1. conn[d] \in {"open", "eof"}
      BY <1>2 DEF MirrorIInv, MirrorTypeOK
    <3>. QED BY <3>1 DEF MirrorIInv, OwesBounded, Owes
  <2>4. OpenIsListed' /\ CutIsMarked' /\ WhyIsTrue'
    BY <1>2 DEF MirrorIInv, MirrorTypeOK, OpenIsListed, CutIsMarked, WhyIsTrue, Closing
  <2>. QED BY <2>1, <2>2, <2>3, <2>4 DEF MirrorIInv
<1>3. CASE Leave(c)
  <2>. USE DEF Leave
  <2>1. MirrorTypeOK'
    BY <1>3 DEF MirrorIInv, MirrorTypeOK
  <2>2. NoGaps' /\ SentWasSaid'
    BY <1>3 DEF MirrorIInv, MirrorTypeOK, NoGaps, SentWasSaid, Closing
  <2>3. OwesBounded'
    BY <1>3 DEF MirrorIInv, MirrorTypeOK, OwesBounded, Owes
  <2>4. OpenIsListed' /\ CutIsMarked' /\ WhyIsTrue'
    BY <1>3 DEF MirrorIInv, MirrorTypeOK, OpenIsListed, CutIsMarked, WhyIsTrue, Closing
  <2>. QED BY <2>1, <2>2, <2>3, <2>4 DEF MirrorIInv
<1>4. ASSUME NEW n \in 1..MaxSaid, Takes(c, n) PROVE MirrorIInv'
  <2>1. /\ conn[c] \in {"open", "eof"} /\ n <= Len(sent[c]) - taken[c]
        /\ taken[c] \in Nat /\ Len(sent[c]) \in Nat /\ n \in Nat
        /\ taken' = [taken EXCEPT ![c] = @ + n]
        /\ UNCHANGED <<said, clients, behind, conn, from, sent, why, slow>>
    BY <1>4 DEF Takes, Owes, MirrorIInv, MirrorTypeOK
  <2>2. taken' \in [Clients -> Nat]
    BY <2>1 DEF MirrorIInv, MirrorTypeOK
  <2>6. MirrorTypeOK'
    BY <2>1, <2>2 DEF MirrorIInv, MirrorTypeOK
  <2>3. NoGaps' /\ SentWasSaid'
    <3>1. \A d \in Clients : taken'[d] <= Len(sent[d])
      BY <2>1 DEF MirrorIInv, MirrorTypeOK, NoGaps
    <3>. QED BY <2>1, <3>1 DEF MirrorIInv, NoGaps, SentWasSaid, Closing
  <2>4. OwesBounded'
    <3>. SUFFICES ASSUME NEW d \in Clients, conn[d] \in {"open", "eof"}
         PROVE  Len(sent[d]) - taken'[d] <= MaxOutstanding + ReadSize
      BY <2>1 DEF OwesBounded, Owes
    <3>1. /\ Len(sent[d]) - taken[d] <= MaxOutstanding + ReadSize
          /\ taken[d] \in Nat /\ Len(sent[d]) \in Nat
      BY DEF MirrorIInv, MirrorTypeOK, OwesBounded, Owes
    <3>2. taken'[d] = taken[d] \/ taken'[d] = taken[d] + n
      BY <2>1 DEF MirrorIInv, MirrorTypeOK
    <3>. QED BY <2>1, <3>1, <3>2
  <2>5. OpenIsListed' /\ CutIsMarked' /\ WhyIsTrue'
    BY <2>1 DEF MirrorIInv, OpenIsListed, CutIsMarked, WhyIsTrue, Closing
  <2>. QED BY <2>3, <2>4, <2>5, <2>6 DEF MirrorIInv
<1>. QED BY <1>1, <1>2, <1>3, <1>4 DEF Client

THEOREM Invariance == MirrorSpec => []MirrorIInv
<1>1. MirrorIInv /\ UNCHANGED mirrorVars => MirrorIInv'
  BY DEF mirrorVars, MirrorIInv, MirrorTypeOK, NoGaps, OwesBounded, WhyIsTrue,
     OpenIsListed, SentWasSaid, CutIsMarked, Owes, Closing
<1>2. MirrorIInv /\ MirrorNext => MirrorIInv'
  BY FanOutInv, ClientInv DEF MirrorNext
<1>. QED BY InitInv, <1>1, <1>2, PTL DEF MirrorSpec

\* A client is written every byte, in its place, from its joining to its end.
THEOREM NothingMissed == MirrorSpec => []NoGaps
<1>1. MirrorIInv => NoGaps  BY DEF MirrorIInv
<1>. QED BY Invariance, <1>1, PTL

\* No client costs the mirror more than the limit and one read.
THEOREM CostIsBounded == MirrorSpec => []OwesBounded
<1>1. MirrorIInv => OwesBounded  BY DEF MirrorIInv
<1>. QED BY Invariance, <1>1, PTL

\* The log tells a client cut off from one that went.
THEOREM LogIsTrue == MirrorSpec => []WhyIsTrue
<1>1. MirrorIInv => WhyIsTrue  BY DEF MirrorIInv
<1>. QED BY Invariance, <1>1, PTL

-----------------------------------------------------------------------------
(* The stream.                                                             *)

Frames == {"answer", "data", "pong", "bye"}
Lines  == {<<>>, <<"up">>, <<"down">>, <<"up", "down">>, <<"down", "up">>}

\* The half of the invariant that is of the stream and not of the mirror.
StreamInv ==
  /\ NothingBuffered /\ LineIsWhoSays /\ OnlyRidden /\ PastIsDraining /\ ClosedIsAnswered

-----------------------------------------------------------------------------
(* The mirror's half.                                                      *)

LEMMA MirrorStutters == MirrorIInv /\ UNCHANGED mirrorVars => MirrorIInv'
  BY DEF mirrorVars, MirrorIInv, MirrorTypeOK, NoGaps, OwesBounded, WhyIsTrue,
     OpenIsListed, SentWasSaid, CutIsMarked, Owes, Closing

\* What one read of the port takes is not more than the device has said.
LEMMA ReadIsAClients ==
  ASSUME MirrorIInv, NEW n \in 1..ReadSize, Takes(Page, n) PROVE Client(Page)
<1>1. Page \in Clients /\ MaxSaid \in Nat
  BY MonitorAssumption, FanOutAssumption DEF MonitorAssumption, FanOutAssumption
<1>2. /\ Len(sent[Page]) \in Nat /\ taken[Page] \in Nat /\ from[Page] \in Nat
      /\ said \in 0..MaxSaid /\ from[Page] + Len(sent[Page]) <= said
  BY <1>1 DEF MirrorIInv, MirrorTypeOK, SentWasSaid
<1>3. Owes(Page) \in Int /\ Owes(Page) <= MaxSaid
  BY <1>1, <1>2 DEF Owes
<1>4. n \in 1..MaxSaid
  BY <1>1, <1>3 DEF Takes
<1>. QED BY <1>4 DEF Client

\* Every step of the face's is one of the mirror's or leaves it alone.
LEMMA MirrorsStep ==
  ASSUME MirrorIInv, Next
  PROVE  /\ MirrorIInv'
         /\ Ported' => Ported \/ Joined
<1>. Page \in Clients
  BY MonitorAssumption DEF MonitorAssumption
<1>1. ASSUME UNCHANGED mirrorVars PROVE MirrorIInv' /\ (Ported' => Ported)
  BY <1>1, MirrorStutters DEF mirrorVars, Ported
<1>2. ASSUME Lost(Page) \/ Leave(Page) PROVE MirrorIInv' /\ (Ported' => Ported)
  <2>1. Client(Page)
    BY <1>2 DEF Client
  <2>. QED BY <1>2, <2>1, ClientInv DEF Lost, Leave, Ported, MirrorIInv, MirrorTypeOK
<1>3. CASE Mirrored
  <2>1. ASSUME NEW n \in 1..ReadSize, FanOut(n) PROVE MirrorIInv' /\ (Ported' => Ported)
    BY <2>1, FanOutInv DEF FanOut, CutOff, Ported
  <2>2. ASSUME NEW c \in Clients \ {Page}, Client(c) PROVE MirrorIInv' /\ (Ported' => Ported)
    <3>1. conn'[Page] = conn[Page]
      BY <2>2 DEF Client, Join, HalfClose, Lost, Leave, Takes, MirrorIInv, MirrorTypeOK
    <3>. QED BY <2>2, <3>1, ClientInv DEF Ported
  <2>. QED BY <1>2, <1>3, <2>1, <2>2 DEF Mirrored
<1>4. CASE Answered
  <2>1. CASE Joined
    BY <2>1, ClientInv DEF Joined, Client
  <2>. QED BY <1>1, <1>4, <2>1 DEF Answered
<1>5. CASE GivenUp
  BY <1>1, <1>2, <1>5 DEF GivenUp, LetGoOfPort
<1>6. CASE Hears
  <2>1. PICK n \in 1..ReadSize : Takes(Page, n)
    BY <1>6 DEF Hears
  <2>2. Client(Page)
    BY <2>1, ReadIsAClients
  <2>. QED BY <2>1, <2>2, ClientInv DEF Takes, Ported
<1>7. CASE RiddenEnds
  BY <1>1, <1>2, <1>7 DEF RiddenEnds, LetGoOfPort
<1>8. CASE \/ Caller \/ Detached \/ Begins \/ Requested \/ Taken \/ Handed
            \/ HearsNoMore \/ Ending
  BY <1>1, <1>8 DEF Caller, Connect, PageTakes, PageCloses, PageLost, Detached, Begins,
     Requested, Taken, Handed, HearsNoMore, Ending, FaceCloses, FaceClosed
<1>9. CASE \/ Reads \/ ReadsNoMore \/ PortTakes \/ PortGone
            \/ \E d \in Directions : Turn(d) \/ Drained(d)
  BY <1>1, <1>9 DEF Reads, ReadsNoMore, PortTakes, PortGone, Turn, Drained, Goes
<1>. QED BY <1>3, <1>4, <1>5, <1>6, <1>7, <1>8, <1>9
     DEF Next, Exchange, Stream, Impatient, Broken

-----------------------------------------------------------------------------
(* The line at the lock.                                                   *)

LEMMA TwoInLine == ASSUME NEW a, NEW b PROVE Append(<<a>>, b) = <<a, b>>
<1>. DEFINE S == {a, b}
<1>1. <<a>> \in Seq(S) /\ <<a, b>> \in Seq(S) /\ Len(<<a>>) = 1 /\ Len(<<a, b>>) = 2
  OBVIOUS
<1>2. Append(<<a>>, b) \in Seq(S) /\ Len(Append(<<a>>, b)) = 2
  BY <1>1
<1>3. \A i \in 1..2 : Append(<<a>>, b)[i] = <<a, b>>[i]
  <2>1. Append(<<a>>, b)[1] = a /\ Append(<<a>>, b)[2] = b
    BY <1>1
  <2>. QED BY <2>1
<1>. HIDE DEF S
<1>. QED BY ONLY <1>1, <1>2, <1>3, SeqEqual

\* Who is first, and who comes after.
LEMMA LineHeads ==
  ASSUME TypeOK, NEW d \in Directions, saying # <<>>
  PROVE  Head(saying) \in Directions /\ InLine(Head(saying))
  BY DEF TypeOK, Directions, InLine

\* Joining the end of the line.
LEMMA LineGrows ==
  ASSUME TypeOK, NEW d \in Directions, ~InLine(d), saying # <<>>, saying' = Append(saying, d)
  PROVE  /\ saying' \in Lines /\ saying' # <<>> /\ Head(saying') = Head(saying)
         /\ \A e \in Directions : InLine(e)'
<1>1. saying \in {<<"up">>, <<"down">>} /\ saying # <<d>>
  BY DEF TypeOK, Directions, InLine
<1>2. saying' \in {<<"up", "down">>, <<"down", "up">>} /\ Head(saying') = Head(saying)
  <2>1. CASE saying = <<"up">>
    <3>1. d = "down" /\ saying' = <<"up", "down">>
      BY <1>1, <2>1, TwoInLine DEF Directions
    <3>2. Head(saying) = "up" /\ Head(saying') = "up"
      BY <2>1, <3>1
    <3>. QED BY <3>1, <3>2
  <2>2. CASE saying = <<"down">>
    <3>1. d = "up" /\ saying' = <<"down", "up">>
      BY <1>1, <2>2, TwoInLine DEF Directions
    <3>2. Head(saying) = "down" /\ Head(saying') = "down"
      BY <2>2, <3>1
    <3>. QED BY <3>1, <3>2
  <2>. QED BY <1>1, <2>1, <2>2
<1>. QED BY <1>2 DEF Lines, InLine, Directions

\* The holder going on.
LEMMA LineShrinks ==
  ASSUME TypeOK, NEW d \in Directions, InLine(d) => Head(saying) = d, saying' = Behind(d)
  PROVE  /\ saying' \in Lines
         /\ \A e \in Directions : InLine(e)' <=> InLine(e) /\ e # d
         /\ ~InLine(d) => saying' = saying
<1>1. CASE saying = <<>>
  BY <1>1 DEF Lines, Directions, InLine, Behind, LockFree
<1>2. CASE saying \in {<<"up">>, <<"down">>}
  BY <1>2 DEF Lines, Directions, InLine, Behind, LockFree
<1>3. CASE saying = <<"up", "down">>
  <2>1. d = "up" /\ saying' = <<"down">>
    BY <1>3 DEF Directions, InLine, Behind, LockFree
  <2>. QED BY <1>3, <2>1 DEF Lines, Directions, InLine
<1>4. CASE saying = <<"down", "up">>
  <2>1. d = "down" /\ saying' = <<"up">>
    BY <1>4 DEF Directions, InLine, Behind, LockFree
  <2>. QED BY <1>4, <2>1 DEF Lines, Directions, InLine
<1>. QED BY <1>1, <1>2, <1>3, <1>4 DEF TypeOK

-----------------------------------------------------------------------------
(* The stream's half.                                                      *)

Ats == {"off", "reading", "writing", "waiting", "draining", "done"}

StreamType == frames \in Seq(Frames) /\ at \in [Directions -> Ats] /\ saying \in Lines

\* Nobody is in line where nobody is, and where somebody is the first is.
LEMMA LineIsTrue ==
  ASSUME IInv
  PROVE  /\ StreamType /\ HighWater \in Nat /\ LowWater \in Nat /\ LowWater <= HighWater
         /\ \A d \in Directions : saying = <<>> => at[d] \notin {"waiting", "draining"}
         /\ \A d \in Directions : at[d] # "off" => stage = "riding"
<1>1. StreamType
  BY DEF IInv, TypeOK, StreamType, Frames, Lines, Ats
<1>2. ASSUME NEW d \in Directions, saying = <<>> PROVE at[d] \notin {"waiting", "draining"}
  BY <1>2 DEF IInv, LineIsWhoSays, InLine
<1>3. \A d \in Directions : at[d] # "off" => stage = "riding"
  BY DEF IInv, OnlyRidden
<1>. QED BY <1>1, <1>2, <1>3, MonitorAssumption DEF MonitorAssumption

\* A frame is written with no more than the high water mark before it, as
\* whoever wrote past it has the lock and waits for the drain.
LEMMA WritesHold ==
  ASSUME IInv, NEW d \in Directions, NEW frame \in Frames, stage = "riding",
         LockFree \/ (at[d] = "waiting" /\ Head(saying) = d),
         Writes(d, frame), UNCHANGED <<browser, stage>>
  PROVE  StreamType' /\ StreamInv'
<1>1. /\ StreamType /\ HighWater \in Nat
      /\ \A e \in Directions : saying = <<>> => at[e] \notin {"waiting", "draining"}
  BY LineIsTrue
<1>2. Len(frames) \in Nat /\ Len(frames) <= HighWater
  <2>1. saying # <<>> => at[Head(saying)] = "waiting"
    BY DEF LockFree
  <2>. QED BY <1>1, <2>1 DEF StreamType, IInv, PastIsDraining
<1>3. /\ frames' \in Seq(Frames) /\ Len(frames') <= HighWater + 1
      /\ Len(frames') > HighWater => Written(frame) = "draining"
      /\ browser = "lost" => frames' = <<>>
  <2>1. CASE Writable
    <3>1. frames' = Append(frames, frame) /\ browser # "lost"
      BY <2>1 DEF Writes, Writable
    <3>2. frames' \in Seq(Frames) /\ Len(frames') = Len(frames) + 1
      BY <1>1, <3>1 DEF StreamType
    <3>. QED BY <1>1, <1>2, <2>1, <3>1, <3>2 DEF Written
  <2>2. CASE ~Writable
    BY <1>1, <1>2, <2>2 DEF Writes, StreamType, IInv, ClosedIsAnswered
  <2>. QED BY <2>1, <2>2
<1>4. at' \in [Directions -> Ats] /\ at' = [at EXCEPT ![d] = Written(frame)]
      /\ Written(frame) \in {"done", "draining", "reading"}
  BY <1>1 DEF Writes, StreamType, Written, After, Ats
<1>5. InLine(d) => Head(saying) = d
  BY <1>1 DEF LockFree, InLine
<1>6. /\ saying' \in Lines
      /\ \A e \in Directions : e # d => (InLine(e)' <=> InLine(e))
      /\ InLine(d)' <=> Written(frame) = "draining"
      /\ Written(frame) = "draining" => saying' # <<>> /\ Head(saying') = d
  <2>1. CASE Written(frame) # "draining"
    <3>1. saying' = Behind(d)
      BY <2>1 DEF Writes
    <3>. QED BY <1>5, <2>1, <3>1, LineShrinks DEF IInv
  <2>2. CASE Written(frame) = "draining" /\ LockFree
    <3>1. saying' = <<d>> /\ saying = <<>>
      BY <2>2 DEF Writes, LockFree
    <3>. QED BY <2>2, <3>1 DEF Lines, InLine, Directions
  <2>3. CASE Written(frame) = "draining" /\ ~LockFree
    <3>1. saying' = saying /\ saying # <<>> /\ Head(saying) = d
      BY <2>3 DEF Writes, LockFree
    <3>2. InLine(d)
      BY <3>1, LineHeads DEF IInv
    <3>. QED BY <1>1, <2>3, <3>1, <3>2 DEF StreamType, InLine
  <2>. QED BY <2>1, <2>2, <2>3
<1>7. LineIsWhoSays'
  <2>. SUFFICES ASSUME NEW e \in Directions
       PROVE  /\ InLine(e)' <=> at'[e] \in {"waiting", "draining"}
              /\ at'[e] = "draining" => Head(saying') = e
    BY DEF LineIsWhoSays
  <2>1. CASE e = d
    BY <1>1, <1>4, <1>6, <2>1 DEF StreamType
  <2>2. CASE e # d
    <3>1. at'[e] = at[e] /\ at[e] # "draining"
      BY <1>1, <1>4, <2>2 DEF StreamType, IInv, LineIsWhoSays, LockFree
    <3>. QED BY <1>6, <2>2, <3>1 DEF IInv, LineIsWhoSays
  <2>. QED BY <2>1, <2>2
<1>8. PastIsDraining'
  BY <1>1, <1>3, <1>4, <1>6 DEF PastIsDraining, StreamType
<1>9. NothingBuffered' /\ OnlyRidden' /\ ClosedIsAnswered'
  BY <1>3 DEF NothingBuffered, OnlyRidden, ClosedIsAnswered, IInv
<1>. QED BY <1>3, <1>4, <1>6, <1>7, <1>8, <1>9 DEF StreamType, StreamInv

\* A direction says a frame, or joins the line to.
LEMMA SayHolds ==
  ASSUME IInv, NEW d \in Directions, NEW frame \in Frames, at[d] = "reading", Say(d, frame)
  PROVE  StreamType' /\ StreamInv'
<1>1. /\ StreamType /\ stage = "riding" /\ UNCHANGED <<browser, stage>>
      /\ \A e \in Directions : saying = <<>> => at[e] \notin {"waiting", "draining"}
  BY LineIsTrue DEF Say
<1>2. CASE LockFree
  BY <1>1, <1>2, WritesHold DEF Say
<1>3. CASE ~LockFree
  <2>1. /\ at' = [at EXCEPT ![d] = "waiting"] /\ saying' = Append(saying, d)
        /\ saying # <<>> /\ frames' = frames
    BY <1>3 DEF Say, LockFree
  <2>2. ~InLine(d)
    BY <1>1 DEF IInv, LineIsWhoSays
  <2>3. /\ saying' \in Lines /\ saying' # <<>> /\ Head(saying') = Head(saying)
        /\ \A e \in Directions : InLine(e)'
    BY <2>1, <2>2, LineGrows DEF IInv
  <2>4. Head(saying) \in Directions /\ InLine(Head(saying))
    BY <2>1, LineHeads DEF IInv
  <2>5. at' \in [Directions -> Ats]
    BY <1>1, <2>1 DEF StreamType, Ats
  <2>6. LineIsWhoSays'
    <3>. SUFFICES ASSUME NEW e \in Directions
         PROVE  at'[e] \in {"waiting", "draining"} /\ (at'[e] = "draining" => Head(saying) = e)
      BY <2>3 DEF LineIsWhoSays
    <3>1. CASE e = d
      BY <1>1, <2>1, <3>1 DEF StreamType
    <3>2. CASE e # d
      <4>1. at'[e] = at[e]
        BY <1>1, <2>1, <3>2 DEF StreamType
      <4>2. InLine(e)
        <5>1. Head(saying) = e
          BY <2>2, <2>4, <3>2 DEF Directions
        <5>. QED BY <2>4, <5>1
      <4>. QED BY <4>1, <4>2 DEF IInv, LineIsWhoSays
    <3>. QED BY <3>1, <3>2
  <2>7. PastIsDraining'
    <3>1. Head(saying) # d
      BY <2>2, <2>4
    <3>. QED BY <1>1, <2>1, <2>3, <2>4, <3>1 DEF IInv, PastIsDraining, StreamType
  <2>. QED BY <1>1, <2>1, <2>3, <2>5, <2>6, <2>7
       DEF StreamType, StreamInv, NothingBuffered, OnlyRidden, ClosedIsAnswered, IInv
<1>. QED BY <1>2, <1>3

\* A wait that is over: of the holder no more than the low water mark is left.
LEMMA GoesHolds ==
  ASSUME IInv, NEW d \in Directions, NEW on \in {"reading", "writing", "done"}, Goes(d, on),
         \/ at[d] \in {"reading", "writing"}
         \/ at[d] = "draining" /\ (Len(frames) <= LowWater \/ browser = "lost")
  PROVE  StreamType' /\ StreamInv'
<1>1. /\ StreamType /\ stage = "riding" /\ UNCHANGED <<browser, stage, frames>>
      /\ at' = [at EXCEPT ![d] = on] /\ saying' = Behind(d)
      /\ HighWater \in Nat /\ LowWater \in Nat /\ LowWater <= HighWater
  BY LineIsTrue DEF Goes, pageVars
<1>2. InLine(d) => Head(saying) = d /\ at[d] = "draining"
  BY DEF IInv, LineIsWhoSays
<1>3. /\ saying' \in Lines
      /\ \A e \in Directions : InLine(e)' <=> InLine(e) /\ e # d
      /\ ~InLine(d) => saying' = saying
  BY <1>1, <1>2, LineShrinks DEF IInv
<1>4. at' \in [Directions -> Ats]
  BY <1>1 DEF StreamType, Ats
<1>5. LineIsWhoSays'
  <2>. SUFFICES ASSUME NEW e \in Directions
       PROVE  /\ InLine(e)' <=> at'[e] \in {"waiting", "draining"}
              /\ at'[e] = "draining" => Head(saying') = e
    BY DEF LineIsWhoSays
  <2>1. CASE e = d
    BY <1>1, <1>3, <2>1 DEF StreamType
  <2>2. CASE e # d
    <3>1. at'[e] = at[e]
      BY <1>1, <2>2 DEF StreamType
    <3>2. at[e] = "draining" => ~InLine(d)
      BY <1>2, <2>2 DEF IInv, LineIsWhoSays
    <3>. QED BY <1>3, <2>2, <3>1, <3>2 DEF IInv, LineIsWhoSays
  <2>. QED BY <2>1, <2>2
<1>6. PastIsDraining'
  <2>1. CASE InLine(d)
    <3>1. Len(frames) <= HighWater
      <4>1. CASE browser = "lost"
        <5>1. frames = <<>>
          BY <4>1 DEF IInv, ClosedIsAnswered
        <5>. QED BY <1>1, <5>1
      <4>. QED BY <1>1, <1>2, <2>1, <4>1 DEF StreamType
    <3>. QED BY <1>1, <3>1 DEF PastIsDraining, StreamType
  <2>2. CASE ~InLine(d)
    <3>1. saying # <<>> => Head(saying) # d /\ Head(saying) \in Directions
      BY <2>2, LineHeads DEF IInv
    <3>. QED BY <1>1, <1>3, <2>2, <3>1 DEF IInv, PastIsDraining, StreamType
  <2>. QED BY <2>1, <2>2
<1>. QED BY <1>1, <1>3, <1>4, <1>5, <1>6
     DEF StreamType, StreamInv, NothingBuffered, OnlyRidden, ClosedIsAnswered, IInv

\* What the stream's half reads is left alone, or only taken from.
LEMMA RestHolds ==
  ASSUME IInv, UNCHANGED <<at, saying>>, frames' \in Seq(Frames), Len(frames') <= Len(frames),
         stage' = stage \/ (saying = <<>> /\ \A d \in Directions : at[d] = "off"),
         stage' = "riding" => stage = "riding",
         browser' = "closing" => stage' = "none",
         browser' = "lost" => frames' = <<>>
  PROVE  StreamType' /\ StreamInv'
<1>1. StreamType /\ HighWater \in Nat
  BY LineIsTrue
<1>2. Len(frames) \in Nat /\ Len(frames') \in Nat /\ Len(frames) <= HighWater + 1
  BY <1>1 DEF StreamType, IInv, NothingBuffered
<1>3. LineIsWhoSays'
  BY DEF LineIsWhoSays, InLine, IInv
<1>4. PastIsDraining'
  BY <1>1, <1>2 DEF PastIsDraining, IInv
<1>5. OnlyRidden' /\ ClosedIsAnswered' /\ NothingBuffered'
  BY <1>1, <1>2 DEF OnlyRidden, ClosedIsAnswered, NothingBuffered, IInv
<1>. QED BY <1>1, <1>3, <1>4, <1>5 DEF StreamType, StreamInv

LEMMA CallerHolds == ASSUME IInv, Caller \/ Detached PROVE StreamType' /\ StreamInv'
<1>. USE DEF streamVars
<1>1. StreamType
  BY LineIsTrue
<1>2. CASE Connect
  BY <1>1, <1>2, RestHolds DEF Connect, StreamType, IInv, OnlyRidden, ClosedIsAnswered
<1>3. CASE PageTakes
  <2>1. frames' \in Seq(Frames) /\ Len(frames') <= Len(frames)
    BY <1>1, <1>3 DEF PageTakes, StreamType
  <2>2. browser # "lost"
    BY <1>3 DEF PageTakes, IInv, ClosedIsAnswered
  <2>. QED BY <1>3, <2>1, <2>2, RestHolds DEF PageTakes, IInv, ClosedIsAnswered
<1>4. CASE PageCloses
  BY <1>1, <1>4, RestHolds DEF PageCloses, StreamType, IInv, ClosedIsAnswered
<1>5. CASE PageLost
  <2>1. frames' \in Seq(Frames) /\ Len(frames') <= Len(frames)
    BY <1>1, <1>5 DEF PageLost, StreamType
  <2>. QED BY <1>5, <2>1, RestHolds DEF PageLost
<1>6. CASE Detached
  BY <1>1, <1>6, RestHolds DEF Detached, StreamType, IInv, ClosedIsAnswered
<1>. QED BY <1>2, <1>3, <1>4, <1>5, <1>6 DEF Caller

\* Both sides of an exchange that goes no further are aborted.
LEMMA GivenUpHolds ==
  ASSUME IInv, stage \in {"asked", "taking", "handing"}, GivenUp
  PROVE  StreamType' /\ StreamInv' /\ NoClientLeft'
<1>. USE DEF streamVars
<1>1. StreamType /\ frames' = <<>>
  BY LineIsTrue DEF GivenUp
<1>2. frames' \in Seq(Frames) /\ Len(frames') <= Len(frames)
  BY <1>1 DEF StreamType
<1>3. StreamType' /\ StreamInv'
  BY <1>2, RestHolds DEF GivenUp, IInv, OnlyRidden
<1>4. ~Ported'
  <2>1. CASE stage = "handing"
    BY <2>1, MonitorAssumption DEF GivenUp, LetGoOfPort, Lost, Ported, IInv, MirrorIInv,
       MirrorTypeOK, MonitorAssumption, mirrorVars
  <2>2. CASE stage # "handing"
    BY <2>2 DEF GivenUp, mirrorVars, Ported, IInv, NoClientLeft
  <2>. QED BY <2>1, <2>2
<1>. QED BY <1>3, <1>4 DEF NoClientLeft, Ported

LEMMA ExchangeHolds ==
  ASSUME IInv, Exchange PROVE StreamType' /\ StreamInv' /\ (NoClientLeft' \/ Answered)
<1>. USE DEF streamVars, pageVars
<1>1. StreamType /\ HighWater \in Nat
  BY LineIsTrue
<1>2. CASE Begins \/ Requested
  <2>1. StreamType' /\ StreamInv'
    BY <1>1, <1>2, RestHolds
    DEF Begins, Requested, StreamType, IInv, OnlyRidden, ClosedIsAnswered
  <2>. QED BY <1>2, <2>1 DEF Begins, Requested, mirrorVars, NoClientLeft, Ported, IInv
<1>3. CASE Answered
  <2>1. /\ frames' = (IF Writable THEN <<"answer">> ELSE frames)
        /\ UNCHANGED <<browser, at, saying>> /\ browser # "closing"
        /\ stage # "riding" /\ stage' # "riding"
    BY <1>3 DEF Answered, Joined, IInv, ClosedIsAnswered
  <2>2. <<"answer">> \in Seq(Frames) /\ Len(<<"answer">>) = 1
    BY DEF Frames
  <2>3. /\ frames' \in Seq(Frames) /\ Len(frames') <= HighWater + 1
        /\ browser = "lost" => frames' = <<>>
    BY <1>1, <2>1, <2>2 DEF Writable, StreamType, IInv, NothingBuffered, ClosedIsAnswered
  <2>4. LineIsWhoSays'
    BY <2>1 DEF LineIsWhoSays, InLine, IInv
  <2>5. OnlyRidden' /\ PastIsDraining' /\ ClosedIsAnswered' /\ NothingBuffered'
    BY <1>1, <2>1, <2>3 DEF OnlyRidden, PastIsDraining, ClosedIsAnswered, NothingBuffered, IInv
  <2>. QED BY <1>1, <1>3, <2>1, <2>3, <2>4, <2>5 DEF StreamType, StreamInv
<1>4. CASE Taken
  <2>1. StreamType' /\ StreamInv'
    BY <1>1, <1>4, RestHolds DEF Taken, Writable, StreamType, IInv, OnlyRidden
  <2>. QED BY <1>4, <2>1 DEF Taken, mirrorVars, NoClientLeft, Ported, IInv
<1>5. CASE Handed
  <2>1. /\ at' = [d \in Directions |-> "reading"] /\ UNCHANGED <<browser, frames, saying>>
        /\ stage = "handing" /\ stage' = "riding" /\ Len(frames) <= HighWater
        /\ saying = <<>>
    BY <1>5 DEF Handed, IInv, OnlyRidden
  <2>2. at' \in [Directions -> Ats] /\ LineIsWhoSays'
    BY <2>1 DEF Ats, LineIsWhoSays, InLine
  <2>3. OnlyRidden' /\ PastIsDraining' /\ ClosedIsAnswered' /\ NothingBuffered'
    BY <1>1, <2>1 DEF OnlyRidden, PastIsDraining, ClosedIsAnswered, NothingBuffered, IInv,
       StreamType
  <2>. QED BY <1>1, <2>1, <2>2, <2>3 DEF StreamType, StreamInv, NoClientLeft
<1>6. CASE Impatient \/ Broken
  BY <1>6, GivenUpHolds DEF Impatient, Broken
<1>. QED BY <1>2, <1>3, <1>4, <1>5, <1>6 DEF Exchange

\* The stream's end takes both directions off the lock and lets go of the port.
LEMMA RiddenEndsHolds ==
  ASSUME IInv, RiddenEnds PROVE StreamType' /\ StreamInv' /\ NoClientLeft'
<1>1. StreamType /\ HighWater \in Nat
  BY LineIsTrue
<1>2. /\ at' = [d \in Directions |-> "off"] /\ saying' = <<>> /\ frames' = frames
      /\ stage' = "none" /\ browser' = IF Writable THEN "closing" ELSE browser
  BY DEF RiddenEnds
<1>3. at' \in [Directions -> Ats] /\ LineIsWhoSays'
  BY <1>2 DEF Ats, LineIsWhoSays, InLine
<1>4. OnlyRidden' /\ PastIsDraining' /\ ClosedIsAnswered' /\ NothingBuffered'
  BY <1>1, <1>2 DEF OnlyRidden, PastIsDraining, ClosedIsAnswered, NothingBuffered, IInv
<1>5. ~Ported'
  BY MonitorAssumption DEF RiddenEnds, LetGoOfPort, Lost, Ported, IInv, MirrorIInv,
     MirrorTypeOK, MonitorAssumption, mirrorVars
<1>. QED BY <1>1, <1>2, <1>3, <1>4, <1>5
     DEF StreamType, StreamInv, NoClientLeft, Ported, Lines

LEMMA StreamHolds ==
  ASSUME IInv, Stream PROVE StreamType' /\ StreamInv'
<1>. "up" \in Directions /\ "down" \in Directions
  BY DEF Directions
<1>. {"data", "pong", "bye"} \subseteq Frames
  BY DEF Frames
<1>1. CASE Hears \/ HearsNoMore
  BY <1>1, SayHolds DEF Hears, HearsNoMore
<1>2. CASE Reads
  BY <1>2, SayHolds, GoesHolds DEF Reads
<1>3. CASE ReadsNoMore \/ PortTakes \/ PortGone
  BY <1>3, GoesHolds DEF ReadsNoMore, PortTakes, PortGone
<1>4. ASSUME NEW d \in Directions, Turn(d) PROVE StreamType' /\ StreamInv'
  <2>1. at[d] = "waiting" /\ stage = "riding"
    BY <1>4, LineIsTrue DEF Turn
  <2>2. says[d] \in Frames
    BY <2>1 DEF IInv, TypeOK, Frames, WaitsToSay
  <2>. QED BY <1>4, <2>1, <2>2, WritesHold DEF Turn
<1>5. ASSUME NEW d \in Directions, Drained(d) PROVE StreamType' /\ StreamInv'
  BY <1>5, GoesHolds DEF Drained, After
<1>6. CASE RiddenEnds
  BY <1>6, RiddenEndsHolds
<1>. QED BY <1>1, <1>2, <1>3, <1>4, <1>5, <1>6 DEF Stream

-----------------------------------------------------------------------------
(* All of it.                                                              *)

\* What is left of the types, and what waits to be said.
SaysType ==
  /\ browser \in {"none", "open", "left", "lost", "closing"}
  /\ stage \in {"none", "accepted", "asked", "answering", "taking", "handing", "riding"}
  /\ says \in [Directions -> {"none", "data", "pong", "bye"}]
  /\ face \in {"up", "closing", "closed"} /\ missed \in BOOLEAN

LEMMA SaysHolds == ASSUME IInv, Next PROVE SaysType' /\ WaitsToSay'
<1>. USE DEF streamVars, pageVars, faceVars
<1>1. SaysType /\ WaitsToSay /\ at \in [Directions -> Ats]
  BY LineIsTrue DEF IInv, TypeOK, SaysType, StreamType
<1>2. ASSUME UNCHANGED <<at, says>> PROVE WaitsToSay'
  BY <1>1, <1>2 DEF WaitsToSay
<1>3. CASE Mirrored
  BY <1>1, <1>2, <1>3 DEF Mirrored, SaysType
<1>4. CASE Caller \/ Detached \/ Ending
  BY <1>1, <1>2, <1>4 DEF Caller, Detached, Ending, Connect, PageTakes, PageCloses, PageLost,
     FaceCloses, FaceClosed, SaysType
<1>5. CASE Exchange
  <2>1. CASE Handed
    BY <1>1, <2>1 DEF Handed, SaysType, WaitsToSay
  <2>2. CASE ~Handed
    BY <1>1, <1>2, <1>5, <2>2 DEF Exchange, Begins, Requested, Answered, Joined, Taken, Impatient, Broken,
       GivenUp, SaysType
  <2>. QED BY <2>1, <2>2
<1>6. ASSUME NEW d \in Directions, NEW frame \in {"data", "pong", "bye"}, Say(d, frame)
      PROVE  SaysType' /\ WaitsToSay'
  <2>1. /\ says' = [says EXCEPT ![d] = frame] /\ UNCHANGED <<browser, stage, face, missed>>
        /\ \E on : at' = [at EXCEPT ![d] = on]
    BY <1>6 DEF Say, Writes
  <2>. QED BY <1>1, <2>1 DEF SaysType, WaitsToSay
<1>7. ASSUME NEW d \in Directions, NEW on, on # "waiting", at' = [at EXCEPT ![d] = on],
             UNCHANGED <<says, browser, stage, face, missed>>
      PROVE  SaysType' /\ WaitsToSay'
  BY <1>1, <1>7 DEF SaysType, WaitsToSay
<1>8. CASE Stream
  <2>. "up" \in Directions /\ "down" \in Directions
    BY DEF Directions
  <2>1. CASE Hears \/ HearsNoMore
    BY <1>6, <2>1 DEF Hears, HearsNoMore
  <2>2. ASSUME NEW d \in Directions, NEW on \in {"reading", "writing", "done"}, Goes(d, on)
        PROVE  SaysType' /\ WaitsToSay'
    BY <1>7, <2>2 DEF Goes
  <2>3. CASE Reads \/ ReadsNoMore \/ PortTakes \/ PortGone
    BY <1>6, <2>2, <2>3 DEF Reads, ReadsNoMore, PortTakes, PortGone
  <2>4. ASSUME NEW d \in Directions, Turn(d) PROVE SaysType' /\ WaitsToSay'
    <3>1. Written(says[d]) # "waiting"
      BY DEF Written, After
    <3>. QED BY <1>7, <2>4, <3>1 DEF Turn, Writes
  <2>5. ASSUME NEW d \in Directions, Drained(d) PROVE SaysType' /\ WaitsToSay'
    BY <2>2, <2>5 DEF Drained, After
  <2>6. CASE RiddenEnds
    BY <1>1, <2>6 DEF RiddenEnds, SaysType, WaitsToSay
  <2>. QED BY <1>8, <2>1, <2>3, <2>4, <2>5, <2>6 DEF Stream
<1>. QED BY <1>3, <1>4, <1>5, <1>8 DEF Next

LEMMA EndingHolds == ASSUME IInv, Ending PROVE StreamType' /\ StreamInv'
<1>. USE DEF streamVars, pageVars
<1>1. StreamType
  BY LineIsTrue
<1>2. CASE FaceClosed
  BY <1>1, <1>2, RestHolds DEF FaceClosed, StreamType, IInv, ClosedIsAnswered
<1>3. CASE FaceCloses
  <2>1. /\ UNCHANGED <<at, saying, stage>>
        /\ \/ UNCHANGED <<browser, frames>>
           \/ browser' = "lost" /\ frames' = <<>>
    BY <1>3 DEF FaceCloses
  <2>2. CASE UNCHANGED <<browser, frames>>
    BY <1>1, <2>1, <2>2, RestHolds DEF StreamType, IInv, ClosedIsAnswered
  <2>3. CASE browser' = "lost" /\ frames' = <<>>
    <3>1. frames' \in Seq(Frames) /\ Len(frames') <= Len(frames)
      BY <1>1, <2>3 DEF StreamType
    <3>. QED BY <2>1, <2>3, <3>1, RestHolds
  <2>. QED BY <2>1, <2>2, <2>3
<1>. QED BY <1>2, <1>3 DEF Ending

\* A client of the port is one that has just joined, or is handed on or ridden.
LEMMA PortHolds == ASSUME IInv, Next PROVE NoClientLeft'
<1>1. Ported' => Ported \/ Joined
  BY MirrorsStep DEF IInv
<1>2. CASE Joined
  BY <1>2 DEF Joined, NoClientLeft
<1>3. ASSUME ~Joined, stage' = stage PROVE NoClientLeft'
  BY <1>1, <1>3 DEF IInv, NoClientLeft
<1>4. ASSUME ~Joined, stage \notin {"handing", "riding"} PROVE NoClientLeft'
  BY <1>1, <1>4 DEF IInv, NoClientLeft
<1>5. CASE Mirrored \/ Caller \/ Detached \/ Ending
  BY <1>2, <1>3, <1>4, <1>5 DEF Mirrored, Caller, Connect, PageTakes, PageCloses,
     PageLost, Detached, Ending, FaceCloses, FaceClosed
<1>6. CASE Exchange
  BY <1>2, <1>4, <1>6, ExchangeHolds DEF Answered
<1>7. CASE Stream
  <2>1. RiddenEnds \/ stage' = stage
    BY <1>7 DEF Stream, Hears, HearsNoMore, Reads, ReadsNoMore, PortTakes, PortGone, Say,
       Turn, Drained, Goes
  <2>. QED BY <1>2, <1>3, <2>1, RiddenEndsHolds
<1>. QED BY <1>5, <1>6, <1>7 DEF Next

LEMMA NextHolds == ASSUME IInv, Next PROVE IInv'
<1>1. MirrorIInv' /\ SaysType' /\ WaitsToSay' /\ NoClientLeft'
  BY MirrorsStep, SaysHolds, PortHolds DEF IInv
<1>2. StreamType' /\ StreamInv'
  <2>1. CASE Mirrored
    <3>1. UNCHANGED <<frames, at, saying, stage, browser>>
      BY <2>1 DEF Mirrored, pageVars, streamVars
    <3>2. StreamType
      BY LineIsTrue
    <3>. QED BY <3>1, <3>2, RestHolds DEF StreamType, IInv, ClosedIsAnswered
  <2>. QED BY <2>1, CallerHolds, ExchangeHolds, StreamHolds, EndingHolds DEF Next
<1>3. TypeOK'
  BY <1>1, <1>2 DEF TypeOK, SaysType, StreamType, MirrorIInv, Frames, Ats, Lines
<1>. QED BY <1>1, <1>2, <1>3 DEF IInv, StreamInv

LEMMA StutterHolds == ASSUME IInv, UNCHANGED monitorVars PROVE IInv'
<1>1. MirrorIInv'
  BY MirrorStutters DEF IInv, monitorVars
<1>2. TypeOK'
  BY <1>1 DEF IInv, TypeOK, MirrorIInv, monitorVars, pageVars, streamVars, faceVars
<1>3. NoClientLeft'
  BY DEF IInv, NoClientLeft, Ported, monitorVars, mirrorVars
<1>4. StreamInv' /\ WaitsToSay'
  BY DEF IInv, StreamInv, NothingBuffered, LineIsWhoSays, InLine, OnlyRidden, PastIsDraining,
     ClosedIsAnswered, WaitsToSay, monitorVars, pageVars, streamVars
<1>. QED BY <1>1, <1>2, <1>3, <1>4 DEF IInv, StreamInv

LEMMA BeginsWell == Init => IInv
<1>. SUFFICES ASSUME Init PROVE IInv
  OBVIOUS
<1>1. MirrorIInv
  BY InitInv DEF Init
<1>2. TypeOK
  <2>1. MirrorTypeOK
    BY <1>1 DEF MirrorIInv
  <2>2. frames \in Seq({"answer", "data", "pong", "bye"})
    BY DEF Init
  <2>3. /\ at \in [Directions ->
                  {"off", "reading", "writing", "waiting", "draining", "done"}]
        /\ says \in [Directions -> {"none", "data", "pong", "bye"}]
    BY DEF Init
  <2>. QED BY <2>1, <2>2, <2>3 DEF Init, TypeOK
<1>3. NoClientLeft
  BY MonitorAssumption DEF Init, MirrorInit, NoClientLeft, Ported, MonitorAssumption
<1>4. HighWater \in Nat
  BY MonitorAssumption DEF MonitorAssumption
<1>5. NothingBuffered
  BY <1>4 DEF Init, NothingBuffered
<1>6. LineIsWhoSays /\ WaitsToSay
  BY DEF Init, LineIsWhoSays, InLine, WaitsToSay
<1>7. OnlyRidden /\ PastIsDraining /\ ClosedIsAnswered
  BY DEF Init, OnlyRidden, PastIsDraining, ClosedIsAnswered
<1>. QED BY <1>1, <1>2, <1>3, <1>5, <1>6, <1>7 DEF IInv

\* The invariant holds of everything the face, the page and the mirror can do:
\* the lock's line, who drains and what waits for the browser all agree.
THEOREM StreamInvariance == Spec => []IInv
  BY BeginsWell, NextHolds, StutterHolds, PTL DEF Spec

\* Every variable stays in its type, for any marks and any clients.
THEOREM StreamTypeCorrect == Spec => []TypeOK
<1>1. IInv => TypeOK  BY DEF IInv
<1>. QED BY <1>1, StreamInvariance, PTL

\* No exchange or stream ends, in whatever way, with its client left on the
\* mirror's port (face.py:1430-1432).
THEOREM NobodyLeft == Spec => []NoClientLeft
<1>1. IInv => NoClientLeft  BY DEF IInv
<1>. QED BY <1>1, StreamInvariance, PTL

\* What waits for a browser is the high water mark and one frame, for any mark,
\* though two directions write (face.py:1207-1212).
THEOREM NoBuffer == Spec => []NothingBuffered
<1>1. IInv => NothingBuffered  BY DEF IInv
<1>. QED BY <1>1, StreamInvariance, PTL

\* A monitor is a client like any other: it misses nothing until it is cut off,
\* and costs the mirror no more than the limit and one read.
THEOREM MonitorIsAClient == Spec => [](NoGaps /\ OwesBounded)
<1>1. IInv => NoGaps /\ OwesBounded  BY DEF IInv, MirrorIInv
<1>. QED BY <1>1, StreamInvariance, PTL
=============================================================================
