--------------------------- MODULE Journal_proofs ---------------------------
(***************************************************************************)
(* That a trim loses no district's power and nothing but the oldest lines, *)
(* and that a page's log has nothing missing, for every size, every way of *)
(* cutting a file down to it, every number of lines and every moment the   *)
(* process may end: IInv (Journal) is inductive.                           *)
(***************************************************************************)
EXTENDS Journal, SequenceTheorems, WellFoundedInduction, TLAPS

-----------------------------------------------------------------------------
(* Induction, as a fact about sets: the least number outside of one.       *)

LEMMA Induction ==
  ASSUME NEW S, 0 \in S, \A n \in Nat : n \in S => n + 1 \in S
  PROVE  \A n \in Nat : n \in S
<1>. SUFFICES ASSUME NEW m \in Nat, m \notin S PROVE FALSE
  OBVIOUS
<1>. DEFINE out == Nat \ S
            less == OpToRel(<, Nat)
<1>1. IsWellFoundedOn(less, Nat)
  BY NatLessThanWellFounded
<1>2. \A i, j \in Nat : i < j => <<i, j>> \in less
  BY DEF OpToRel
<1>. HIDE DEF less
<1>3. out \subseteq Nat /\ out # {}
  OBVIOUS
<1>4. PICK n \in out : \A k \in out : ~(<<k, n>> \in less)
  BY <1>1, <1>3, WFMin
<1>5. n # 0 /\ n - 1 \in Nat /\ n - 1 \notin S
  BY ONLY n \in out, 0 \in S, \A k \in Nat : k \in S => k + 1 \in S
<1>6. <<n - 1, n>> \in less
  BY <1>2, <1>5
<1>. QED BY <1>4, <1>5, <1>6

-----------------------------------------------------------------------------
(* FlattenSeq, by the sequences so far.                                    *)

\* `f` is the recursive function FlattenSeq takes the last value of.
Flattens(f, s) ==
  f = [i \in 1..Len(s) |-> IF i = 1 THEN s[i] ELSE f[i - 1] \o s[i]]

LEMMA FlattensStep ==
  ASSUME NEW s, NEW f, Flattens(f, s), NEW i \in 1..Len(s)
  PROVE  f[i] = IF i = 1 THEN s[i] ELSE f[i - 1] \o s[i]
  BY Zenon DEF Flattens

\* There is one, and it is of sequences.
LEMMA FlattensIs ==
  ASSUME NEW T
  PROVE  \A s \in Seq(Seq(T)) : \E f \in [1..Len(s) -> Seq(T)] : Flattens(f, s)
<1>. DEFINE P == {n \in Nat : \A s \in Seq(Seq(T)) :
                    Len(s) = n => \E f \in [1..Len(s) -> Seq(T)] : Flattens(f, s)}
<1>1. 0 \in P
  <2>. SUFFICES ASSUME NEW s \in Seq(Seq(T)), Len(s) = 0
                PROVE  \E f \in [1..Len(s) -> Seq(T)] : Flattens(f, s)
    OBVIOUS
  <2>. DEFINE f == [i \in 1..Len(s) |-> <<>>]
  <2>1. f \in [1..Len(s) -> Seq(T)] /\ 1..Len(s) = {}
    OBVIOUS
  <2>2. f = [i \in 1..Len(s) |-> IF i = 1 THEN s[i] ELSE f[i - 1] \o s[i]]
    BY <2>1
  <2>. QED BY <2>1, <2>2 DEF Flattens
<1>2. ASSUME NEW n \in Nat, n \in P PROVE n + 1 \in P
  <2>. SUFFICES ASSUME NEW s \in Seq(Seq(T)), Len(s) = n + 1
                PROVE  \E f \in [1..Len(s) -> Seq(T)] : Flattens(f, s)
    OBVIOUS
  <2>. DEFINE r == SubSeq(s, 1, n)
  <2>1. r \in Seq(Seq(T)) /\ Len(r) = n /\ \A i \in 1..n : r[i] = s[i]
    OBVIOUS
  <2>. HIDE DEF r
  <2>2. PICK g \in [1..n -> Seq(T)] : Flattens(g, r)
    BY <1>2, <2>1
  <2>3. \A i \in 1..n : g[i] = IF i = 1 THEN s[i] ELSE g[i - 1] \o s[i]
    BY <2>1, <2>2 DEF Flattens
  <2>. DEFINE last == IF n = 0 THEN s[n + 1] ELSE g[n] \o s[n + 1]
              f == [i \in 1..n + 1 |-> IF i = n + 1 THEN last ELSE g[i]]
  <2>4. last \in Seq(T)
    <3>1. s[n + 1] \in Seq(T)
      OBVIOUS
    <3>2. n # 0 => g[n] \in Seq(T)
      OBVIOUS
    <3>. QED BY <3>1, <3>2
  <2>. HIDE DEF last
  <2>5. f \in [1..n + 1 -> Seq(T)]
    BY <2>4
  <2>6. \A i \in 1..n + 1 : f[i] = IF i = 1 THEN s[i] ELSE f[i - 1] \o s[i]
    <3>. TAKE i \in 1..n + 1
    <3>1. CASE i = n + 1
      <4>1. f[i] = last /\ (n # 0 => f[n] = g[n])
        BY <3>1
      <4>. QED BY <3>1, <4>1 DEF last
    <3>2. CASE i # n + 1
      <4>1. i \in 1..n /\ f[i] = g[i] /\ (i # 1 => i - 1 \in 1..n /\ f[i - 1] = g[i - 1])
        BY <3>2
      <4>. QED BY <2>3, <4>1
    <3>. QED BY <3>1, <3>2
  <2>7. Flattens(f, s)
    <3>1. f = [i \in 1..n + 1 |-> f[i]]
      OBVIOUS
    <3>. HIDE DEF f
    <3>2. f = [i \in 1..n + 1 |-> IF i = 1 THEN s[i] ELSE f[i - 1] \o s[i]]
      BY <2>6, <3>1, Zenon
    <3>. QED BY <3>2 DEF Flattens
  <2>. HIDE DEF f
  <2>. QED BY <2>5, <2>7
<1>. HIDE DEF P
<1>3. \A n \in Nat : n \in P
  BY <1>1, <1>2, Induction
<1>. QED BY <1>3 DEF P

\* Two that are the same as far as the first goes.
Agree(s, t) == \A i \in 1..Len(s) : s[i] = t[i]

\* Where two agree up to a place, so do what they come to.
LEMMA FlattensAgree ==
  ASSUME NEW T, NEW s \in Seq(Seq(T)), NEW t \in Seq(Seq(T)), NEW f, NEW g,
         Flattens(f, s), Flattens(g, t), Len(s) <= Len(t), Agree(s, t)
  PROVE  \A i \in 1..Len(s) : f[i] = g[i]
<1>0. PICK m \in Nat : m = Len(s)
  OBVIOUS
<1>. DEFINE P == {n \in Nat : n \in 1..m => f[n] = g[n]}
<1>1. 0 \in P
  OBVIOUS
<1>2. ASSUME NEW n \in Nat, n \in P PROVE n + 1 \in P
  <2>. SUFFICES ASSUME n + 1 \in 1..m PROVE f[n + 1] = g[n + 1]
    OBVIOUS
  <2>1. /\ f[n + 1] = IF n + 1 = 1 THEN s[n + 1] ELSE f[n] \o s[n + 1]
        /\ g[n + 1] = IF n + 1 = 1 THEN t[n + 1] ELSE g[n] \o t[n + 1]
    <3>1. n + 1 \in 1..Len(s) /\ n + 1 \in 1..Len(t) /\ (n + 1) - 1 = n
      BY <1>0
    <3>2. f[n + 1] = IF n + 1 = 1 THEN s[n + 1] ELSE f[(n + 1) - 1] \o s[n + 1]
      BY <3>1, FlattensStep
    <3>3. g[n + 1] = IF n + 1 = 1 THEN t[n + 1] ELSE g[(n + 1) - 1] \o t[n + 1]
      BY <3>1, FlattensStep
    <3>. QED BY <3>1, <3>2, <3>3
  <2>2. s[n + 1] = t[n + 1] /\ (n # 0 => f[n] = g[n])
    BY <1>0, <1>2 DEF Agree
  <2>. QED BY <2>1, <2>2
<1>. HIDE DEF P
<1>3. \A n \in Nat : n \in P
  BY <1>1, <1>2, Induction
<1>. QED BY <1>0, <1>3 DEF P

LEMMA FlattenNone == FlattenSeq(<<>>) = <<>>
  BY DEF FlattenSeq

LEMMA FlattenIs ==
  ASSUME NEW T, NEW s \in Seq(Seq(T)), Len(s) # 0, NEW f, Flattens(f, s)
  PROVE  FlattenSeq(s) = f[Len(s)]
<1>1. \A g : Flattens(g, s) => g = f
  <2>. SUFFICES ASSUME NEW g, Flattens(g, s) PROVE g = f
    OBVIOUS
  <2>1. \A i \in 1..Len(s) : g[i] = f[i]
    <3>1. Len(s) <= Len(s) /\ Agree(s, s)
      BY DEF Agree
    <3>. QED BY <3>1, FlattensAgree
  <2>2. g = [i \in 1..Len(s) |-> g[i]] /\ f = [i \in 1..Len(s) |-> f[i]]
    BY DEF Flattens
  <2>. QED BY <2>1, <2>2, Zenon
<1>2. f = CHOOSE g : Flattens(g, s)
  BY <1>1
<1>3. Flattens(CHOOSE g : Flattens(g, s), s)
  BY <1>2
<1>. QED
  BY <1>2, <1>3, Zenon DEF FlattenSeq, Flattens

\* What is flattened of typed sequences is one of the type.
LEMMA FlattenTyped ==
  ASSUME NEW T, NEW s \in Seq(Seq(T)) PROVE FlattenSeq(s) \in Seq(T)
<1>1. CASE Len(s) = 0
  <2>1. s = <<>> /\ <<>> \in Seq(T)
    BY <1>1
  <2>. QED BY <2>1, FlattenNone, Zenon
<1>2. CASE Len(s) # 0
  <2>1. PICK f \in [1..Len(s) -> Seq(T)] : Flattens(f, s)
    BY FlattensIs
  <2>2. FlattenSeq(s) = f[Len(s)]
    BY <1>2, <2>1, FlattenIs
  <2>3. Len(s) \in 1..Len(s)
    BY <1>2
  <2>. QED BY <2>1, <2>2, <2>3
<1>. QED BY <1>1, <1>2

\* One more sequence goes behind.
LEMMA FlattenMore ==
  ASSUME NEW T, NEW s \in Seq(Seq(T)), NEW t \in Seq(Seq(T)),
         Len(t) = Len(s) + 1, \A i \in 1..Len(s) : s[i] = t[i]
  PROVE  FlattenSeq(t) = FlattenSeq(s) \o t[Len(t)]
<1>1. PICK g : Flattens(g, t)
  BY FlattensIs
<1>2. Len(t) # 0 /\ Len(t) \in 1..Len(t) /\ Len(s) <= Len(t)
  OBVIOUS
<1>3. FlattenSeq(t) = g[Len(t)]
  BY <1>1, <1>2, FlattenIs
<1>4. g[Len(t)] = IF Len(t) = 1 THEN t[Len(t)] ELSE g[Len(t) - 1] \o t[Len(t)]
  BY <1>1, <1>2, FlattensStep
<1>5. CASE Len(s) = 0
  <2>1. s = <<>> /\ <<>> \o t[Len(t)] = t[Len(t)]
    BY <1>5
  <2>2. FlattenSeq(s) \o t[Len(t)] = t[Len(t)]
    BY <2>1, FlattenNone
  <2>. QED BY <1>3, <1>4, <1>5, <2>2
<1>6. CASE Len(s) # 0
  <2>1. PICK f : Flattens(f, s)
    BY FlattensIs
  <2>2. FlattenSeq(s) = f[Len(s)]
    BY <1>6, <2>1, FlattenIs
  <2>3. \A i \in 1..Len(s) : f[i] = g[i]
    <3>1. Agree(s, t)
      BY DEF Agree
    <3>2. /\ s \in Seq(Seq(T)) /\ t \in Seq(Seq(T)) /\ Len(s) <= Len(t) /\ Agree(s, t)
          /\ Flattens(f, s) /\ Flattens(g, t)
      BY <1>1, <1>2, <2>1, <3>1
    <3>. QED BY ONLY <3>2, FlattensAgree
  <2>4. Len(t) # 1 /\ Len(t) - 1 = Len(s) /\ Len(s) \in 1..Len(s)
    BY <1>6
  <2>. QED BY <1>3, <1>4, <2>2, <2>3, <2>4
<1>. QED BY <1>5, <1>6

-----------------------------------------------------------------------------
(* The bytes of a file, line by line.                                      *)

Marks == Nat \X Nat
LineBytes(lines, n) == [b \in 1..lines[n].size |-> <<n, b>>]
Parts(lines, f, k) == [n \in 1..k |-> IF n \in f THEN LineBytes(lines, n) ELSE <<>>]
Up(lines, f, k) == FlattenSeq(Parts(lines, f, k))

LEMMA PartsAre ==
  ASSUME NEW lines \in Seq(Lines), NEW f, NEW k \in Nat, k <= Len(lines)
  PROVE  /\ Parts(lines, f, k) \in Seq(Seq(Marks)) /\ Len(Parts(lines, f, k)) = k
         /\ \A n \in 1..k :
              Parts(lines, f, k)[n] = IF n \in f THEN LineBytes(lines, n) ELSE <<>>
<1>1. ASSUME NEW n \in 1..k
      PROVE  (IF n \in f THEN LineBytes(lines, n) ELSE <<>>) \in Seq(Marks)
  <2>1. lines[n] \in Lines
    OBVIOUS
  <2>2. lines[n].size \in Nat
    BY <2>1, JournalAssumption DEF JournalAssumption
  <2>3. LineBytes(lines, n) \in Seq(Marks)
    BY <2>2 DEF LineBytes, Marks
  <2>. QED BY <2>3
<1>. QED BY <1>1 DEF Parts

\* Line by line.
LEMMA UpNext ==
  ASSUME NEW lines \in Seq(Lines), NEW f, NEW k \in Nat, k + 1 <= Len(lines)
  PROVE  Up(lines, f, k + 1) =
           Up(lines, f, k) \o IF k + 1 \in f THEN LineBytes(lines, k + 1) ELSE <<>>
<1>1. /\ Parts(lines, f, k) \in Seq(Seq(Marks)) /\ Len(Parts(lines, f, k)) = k
      /\ \A n \in 1..k :
           Parts(lines, f, k)[n] = IF n \in f THEN LineBytes(lines, n) ELSE <<>>
  BY PartsAre
<1>2. /\ Parts(lines, f, k + 1) \in Seq(Seq(Marks)) /\ Len(Parts(lines, f, k + 1)) = k + 1
      /\ \A n \in 1..(k + 1) :
           Parts(lines, f, k + 1)[n] = IF n \in f THEN LineBytes(lines, n) ELSE <<>>
  BY PartsAre
<1>3. /\ Len(Parts(lines, f, k + 1)) = Len(Parts(lines, f, k)) + 1
      /\ \A n \in 1..Len(Parts(lines, f, k)) : Parts(lines, f, k)[n] = Parts(lines, f, k + 1)[n]
  BY <1>1, <1>2
<1>4. FlattenSeq(Parts(lines, f, k + 1)) =
        FlattenSeq(Parts(lines, f, k)) \o Parts(lines, f, k + 1)[k + 1]
  BY <1>1, <1>2, <1>3, FlattenMore
<1>5. Parts(lines, f, k + 1)[k + 1] =
        IF k + 1 \in f THEN LineBytes(lines, k + 1) ELSE <<>>
  BY <1>2
<1>. QED BY <1>4, <1>5, Zenon DEF Up

LEMMA UpTyped ==
  ASSUME NEW lines \in Seq(Lines), NEW f, NEW k \in Nat, k <= Len(lines)
  PROVE  Up(lines, f, k) \in Seq(Marks)
BY PartsAre, FlattenTyped DEF Up

LEMMA UpZero == ASSUME NEW lines, NEW f PROVE Up(lines, f, 0) = <<>>
<1>1. Parts(lines, f, 0) = <<>>
  BY DEF Parts
<1>. QED BY <1>1, FlattenNone DEF Up

\* Only the lines that are in it count.
LEMMA UpSame ==
  ASSUME NEW lines \in Seq(Lines), NEW more \in Seq(Lines), NEW f, NEW g, NEW k \in Nat,
         \A n \in 1..k : more[n] = lines[n] /\ (n \in f <=> n \in g)
  PROVE  Up(lines, f, k) = Up(more, g, k)
<1>1. \A n \in 1..k : LineBytes(lines, n) = LineBytes(more, n)
  BY DEF LineBytes
<1>2. Parts(lines, f, k) = Parts(more, g, k)
  BY <1>1 DEF Parts
<1>. QED BY <1>2 DEF Up

LEMMA UpNone ==
  ASSUME NEW lines \in Seq(Lines), NEW f
  PROVE  \A k \in 0..Len(lines) : f \cap (1..k) = {} => Up(lines, f, k) = <<>>
<1>. DEFINE P == {k \in Nat : k \in 0..Len(lines) /\ f \cap (1..k) = {} => Up(lines, f, k) = <<>>}
<1>1. 0 \in P
  BY UpZero
<1>2. ASSUME NEW k \in Nat, k \in P PROVE k + 1 \in P
  <2>. SUFFICES ASSUME k + 1 \in 0..Len(lines), f \cap (1..(k + 1)) = {}
                PROVE  Up(lines, f, k + 1) = <<>>
    OBVIOUS
  <2>1. Up(lines, f, k) = <<>>
    BY <1>2
  <2>2. k + 1 \notin f
    OBVIOUS
  <2>. QED BY <2>1, <2>2, UpNext
<1>. HIDE DEF P
<1>3. \A k \in Nat : k \in P
  BY <1>1, <1>2, Induction
<1>. QED BY <1>3 DEF P

Older(f, g) == \A n \in f, m \in g : n < m
Apart(lines, f, g, k) == Up(lines, f \cup g, k) = Up(lines, f, k) \o Up(lines, g, k)

\* What is all older lies in front.
LEMMA UpApart ==
  ASSUME NEW lines \in Seq(Lines), NEW f, NEW g, Older(f, g),
         f \subseteq Nat, g \subseteq Nat
  PROVE  \A k \in 0..Len(lines) : Apart(lines, f, g, k)
<1>. DEFINE P == {k \in Nat : k \in 0..Len(lines) => Apart(lines, f, g, k)}
<1>1. 0 \in P
  <2>1. <<>> \o <<>> = <<>>
    OBVIOUS
  <2>. QED BY <2>1, UpZero DEF Apart
<1>2. ASSUME NEW k \in Nat, k \in P PROVE k + 1 \in P
  <2>. SUFFICES ASSUME k + 1 \in 0..Len(lines) PROVE Apart(lines, f, g, k + 1)
    OBVIOUS
  <2>. DEFINE x == LineBytes(lines, k + 1)
              F == Up(lines, f, k)
              G == Up(lines, g, k)
  <2>0. k \in 0..Len(lines) /\ k <= Len(lines) /\ k + 1 <= Len(lines)
    OBVIOUS
  <2>1. /\ Up(lines, f \cup g, k) = F \o G
        /\ F \in Seq(Marks) /\ G \in Seq(Marks)
    <3>1. Apart(lines, f, g, k)
      BY <1>2, <2>0
    <3>2. F \in Seq(Marks) /\ G \in Seq(Marks)
      BY <2>0, UpTyped
    <3>. QED BY <3>1, <3>2 DEF Apart
  <2>2. x \in Seq(Marks)
    <3>1. lines[k + 1] \in Lines
      OBVIOUS
    <3>2. lines[k + 1].size \in Nat
      BY <3>1, JournalAssumption DEF JournalAssumption
    <3>. QED BY <3>2 DEF LineBytes, Marks
  <2>3. /\ Up(lines, f \cup g, k + 1) = (F \o G) \o (IF k + 1 \in f \cup g THEN x ELSE <<>>)
        /\ Up(lines, f, k + 1) = F \o (IF k + 1 \in f THEN x ELSE <<>>)
        /\ Up(lines, g, k + 1) = G \o (IF k + 1 \in g THEN x ELSE <<>>)
    <3>1. Up(lines, f \cup g, k + 1) =
            Up(lines, f \cup g, k) \o (IF k + 1 \in f \cup g THEN x ELSE <<>>)
      BY <2>0, UpNext
    <3>2. /\ Up(lines, f, k + 1) = F \o (IF k + 1 \in f THEN x ELSE <<>>)
          /\ Up(lines, g, k + 1) = G \o (IF k + 1 \in g THEN x ELSE <<>>)
      BY <2>0, UpNext
    <3>. QED BY <2>1, <3>1, <3>2, Zenon
  <2>4. k + 1 \in f => G = <<>> /\ k + 1 \notin g
    <3>. SUFFICES ASSUME k + 1 \in f PROVE G = <<>> /\ k + 1 \notin g
      OBVIOUS
    <3>1. g \cap (1..k) = {} /\ k + 1 \notin g /\ k \in 0..Len(lines)
      BY DEF Older
    <3>. QED BY <3>1, UpNone
  <2>. HIDE DEF x, F, G
  <2>. DEFINE Goal == (F \o G) \o (IF k + 1 \in f \cup g THEN x ELSE <<>>) =
                        (F \o (IF k + 1 \in f THEN x ELSE <<>>))
                          \o (G \o (IF k + 1 \in g THEN x ELSE <<>>))
  <2>5. ASSUME k + 1 \in f PROVE Goal
    <3>1. (F \o <<>>) \o x = (F \o x) \o (<<>> \o <<>>)
      BY <2>1, <2>2
    <3>. QED BY <2>4, <2>5, <3>1
  <2>6. ASSUME k + 1 \notin f, k + 1 \in g PROVE Goal
    <3>1. F \o <<>> = F
      BY <2>1
    <3>2. (F \o G) \o x = F \o (G \o x)
      BY <2>1, <2>2
    <3>. QED BY <2>6, <3>1, <3>2
  <2>7. ASSUME k + 1 \notin f, k + 1 \notin g PROVE Goal
    <3>1. (F \o G) \o <<>> = (F \o <<>>) \o (G \o <<>>)
      BY <2>1
    <3>. QED BY <2>7, <3>1
  <2>8. Goal
    BY <2>5, <2>6, <2>7
  <2>. QED BY <2>3, <2>8, Zenon DEF Apart
<1>. HIDE DEF P
<1>3. \A k \in Nat : k \in P
  BY <1>1, <1>2, Induction
<1>. QED BY <1>3 DEF P

LEMMA BytesAre ==
  ASSUME said \in Seq(Lines), NEW f
  PROVE  Bytes(f) = Up(said, f, Len(said)) /\ Bytes(f) \in Seq(Marks)
<1>1. Bytes(f) = Up(said, f, Len(said))
  <2>1. DOMAIN said = 1..Len(said)
    OBVIOUS
  <2>. QED BY <2>1 DEF Bytes, BytesOf, Up, Parts, LineBytes
<1>. QED BY <1>1, UpTyped

\* What is newer than all of a file lies behind it.
LEMMA AllApart ==
  ASSUME NEW lines \in Seq(Lines), NEW f, NEW g, f \subseteq DOMAIN lines,
         g \subseteq DOMAIN lines, Older(f, g)
  PROVE  Up(lines, f \cup g, Len(lines)) = Up(lines, f, Len(lines)) \o Up(lines, g, Len(lines))
<1>1. lines \in Seq(Lines) /\ Older(f, g) /\ f \subseteq Nat /\ g \subseteq Nat
  OBVIOUS
<1>2. \A k \in 0..Len(lines) : Apart(lines, f, g, k)
  BY <1>1, UpApart
<1>3. Len(lines) \in 0..Len(lines)
  OBVIOUS
<1>. QED BY <1>2, <1>3 DEF Apart

\* A line that is said leaves what stood as it was.
LEMMA AllSaid ==
  ASSUME NEW lines \in Seq(Lines), NEW more \in Seq(Lines), Len(more) = Len(lines) + 1,
         \A n \in 1..Len(lines) : more[n] = lines[n], NEW f, f \subseteq DOMAIN lines
  PROVE  Up(more, f, Len(more)) = Up(lines, f, Len(lines))
<1>1. /\ Len(lines) \in Nat /\ Len(lines) + 1 \notin f
      /\ \A n \in 1..Len(lines) : more[n] = lines[n] /\ (n \in f <=> n \in f)
  OBVIOUS
<1>2. Up(lines, f, Len(lines)) = Up(more, f, Len(lines))
  BY <1>1, UpSame
<1>3. Up(more, f, Len(lines) + 1) = Up(more, f, Len(lines)) \o <<>>
  <2>1. Len(lines) + 1 <= Len(more)
    BY <1>1
  <2>2. Up(more, f, Len(lines) + 1) =
          Up(more, f, Len(lines))
            \o IF Len(lines) + 1 \in f THEN LineBytes(more, Len(lines) + 1) ELSE <<>>
    BY <1>1, <2>1, UpNext
  <2>. QED BY <1>1, <2>2
<1>4. Up(more, f, Len(lines)) \in Seq(Marks)
  BY <1>1, UpTyped
<1>5. Up(more, f, Len(lines)) \o <<>> = Up(more, f, Len(lines))
  BY <1>4
<1>. QED BY <1>2, <1>3, <1>5

-----------------------------------------------------------------------------
(* A run of a sequence.                                                    *)

RunIn(run, all) ==
  \E i \in 0..(Len(all) - Len(run)) : run = SubSeq(all, i + 1, i + Len(run))

LEMMA RunMore ==
  ASSUME NEW T, NEW run \in Seq(T), NEW all \in Seq(T), NEW more \in Seq(T), RunIn(run, all)
  PROVE  RunIn(run, all \o more)
<1>1. PICK i \in 0..(Len(all) - Len(run)) : run = SubSeq(all, i + 1, i + Len(run))
  BY DEF RunIn
<1>2. i \in 0..(Len(all \o more) - Len(run)) /\ i + Len(run) <= Len(all)
  OBVIOUS
<1>3. SubSeq(all \o more, i + 1, i + Len(run)) = SubSeq(all, i + 1, i + Len(run))
  BY <1>2
<1>. QED BY <1>1, <1>2, <1>3 DEF RunIn

LEMMA RunBehind ==
  ASSUME NEW T, NEW first \in Seq(T), NEW run \in Seq(T)
  PROVE  RunIn(run, first \o run)
<1>1. Len(first) \in 0..(Len(first \o run) - Len(run))
  OBVIOUS
<1>2. run = SubSeq(first \o run, Len(first) + 1, Len(first) + Len(run))
  OBVIOUS
<1>. QED BY <1>1, <1>2 DEF RunIn

LEMMA PrefixMore ==
  ASSUME NEW T, NEW run \in Seq(T), NEW all \in Seq(T), NEW more \in Seq(T), IsPrefix(run, all)
  PROVE  IsPrefix(run, all \o more)
<1>1. Len(run) <= Len(all) /\ SubSeq(run, 1, Len(run)) = SubSeq(all, 1, Len(run))
  BY DEF IsPrefix
<1>2. SubSeq(all \o more, 1, Len(run)) = SubSeq(all, 1, Len(run))
  BY <1>1
<1>3. Len(run) <= Len(all \o more)
  BY <1>1
<1>. QED BY <1>1, <1>2, <1>3 DEF IsPrefix

\* Which the rest of it makes whole.
LEMMA PrefixWhole ==
  ASSUME NEW T, NEW run \in Seq(T), NEW all \in Seq(T), IsPrefix(run, all)
  PROVE  run \o SubSeq(all, Len(run) + 1, Len(all)) = all
<1>1. Len(run) <= Len(all) /\ SubSeq(run, 1, Len(run)) = SubSeq(all, 1, Len(run))
  BY DEF IsPrefix
<1>2. run = SubSeq(run, 1, Len(run))
  OBVIOUS
<1>3. all = SubSeq(all, 1, Len(run)) \o SubSeq(all, Len(run) + 1, Len(all))
  <2>1. /\ 1 \in 1..Len(all) + 1 /\ Len(run) \in 1 - 1..Len(all)
        /\ Len(all) \in Len(run)..Len(all)
    BY <1>1
  <2>2. SubSeq(all, 1, Len(run)) \o SubSeq(all, Len(run) + 1, Len(all))
          = SubSeq(all, 1, Len(all))
    BY <2>1, ConcatAdjacentSubSeq
  <2>. QED BY <2>2, SubSeqFull
<1>. QED BY <1>1, <1>2, <1>3

LEMMA NoneRuns ==
  ASSUME NEW T, NEW all \in Seq(T) PROVE RunIn(<<>>, all) /\ IsPrefix(<<>>, all)
<1>1. 0 \in 0..(Len(all) - Len(<<>>)) /\ <<>> = SubSeq(all, 0 + 1, 0 + Len(<<>>))
  OBVIOUS
<1>2. 0 <= Len(all) /\ SubSeq(<<>>, 1, 0) = SubSeq(all, 1, 0) /\ Len(<<>>) = 0
  OBVIOUS
<1>. QED BY <1>1, <1>2 DEF RunIn, IsPrefix


-----------------------------------------------------------------------------
(* What stands, and its bytes.                                             *)

\* The bytes of a file that gets newer lines begin with those it had.
LEMMA BytesGrow ==
  ASSUME TypeOK, NEW line \in Lines, said' = Append(said, line),
         NEW f, f \subseteq DOMAIN said, NEW g, g \subseteq DOMAIN said', Older(f, g)
  PROVE  \E more \in Seq(Marks) : Up(said', f \cup g, Len(said')) = Bytes(f) \o more
<1>1. /\ said \in Seq(Lines) /\ said' \in Seq(Lines) /\ Len(said') = Len(said) + 1
      /\ \A n \in 1..Len(said) : said'[n] = said[n]
      /\ f \subseteq DOMAIN said' /\ Len(said') \in Nat /\ Len(said') <= Len(said')
  BY DEF TypeOK
<1>2. Up(said', f, Len(said')) = Bytes(f)
  <2>1. Up(said', f, Len(said')) = Up(said, f, Len(said))
    BY <1>1, AllSaid
  <2>. QED BY <1>1, <2>1, BytesAre
<1>3. Up(said', f \cup g, Len(said')) = Up(said', f, Len(said')) \o Up(said', g, Len(said'))
  BY <1>1, AllApart
<1>4. Up(said', g, Len(said')) \in Seq(Marks)
  BY <1>1, UpTyped
<1>. QED BY <1>2, <1>3, <1>4

LEMMA WritesTail ==
  ASSUME IInv, NEW line \in Lines, Writes(line)
  PROVE  TailIsWhole' /\ ReadSoFar' /\ ReadPast'
<1>. DEFINE new == IF full THEN {} ELSE buffered \cup {Len(said) + 1}
<1>1. /\ TypeOK /\ said' = Append(said, line)
      /\ UNCHANGED <<which, page, trimmed>> /\ (~misled' => ~misled)
      /\ file' = file \cup new /\ reached' = reached \cup new
  BY DEF IInv, Writes, pageVars
<1>2. /\ said \in Seq(Lines) /\ said' \in Seq(Lines) /\ Len(said') = Len(said) + 1
      /\ file \subseteq DOMAIN said /\ reached \subseteq DOMAIN said /\ page \in Seq(Marks)
      /\ DOMAIN said' = 1..Len(said')
  BY <1>1 DEF TypeOK, Marks
<1>3. new \subseteq DOMAIN said' /\ Older(file, new) /\ Older(reached, new)
  <2>1. new \subseteq DOMAIN said'
    BY <1>1, <1>2 DEF TypeOK
  <2>2. Older(reached, new)
    BY <1>1, <1>2 DEF IInv, Older
  <2>3. file \subseteq reached
    BY <1>1 DEF TypeOK
  <2>. QED BY <2>1, <2>2, <2>3 DEF Older
<1>. HIDE DEF new
<1>4. PICK more \in Seq(Marks) : Up(said', file', Len(said')) = Bytes(file) \o more
  BY <1>1, <1>2, <1>3, BytesGrow
<1>5. PICK rest \in Seq(Marks) : Up(said', reached', Len(said')) = Bytes(reached) \o rest
  BY <1>1, <1>2, <1>3, BytesGrow
<1>6. /\ Bytes(file)' = Up(said', file', Len(said'))
      /\ Bytes(reached)' = Up(said', reached', Len(said'))
  BY <1>2 DEF Bytes, BytesOf, Up, Parts, LineBytes
<1>7. Bytes(file) \in Seq(Marks) /\ Bytes(reached) \in Seq(Marks)
  BY <1>2, BytesAre
<1>8. TailIsWhole'
  <2>1. RunIn(page, Bytes(reached)) => RunIn(page, Bytes(reached) \o rest)
    BY <1>2, <1>5, <1>7, RunMore
  <2>2. which = "log" /\ ~misled => RunIn(page, Bytes(reached))
    BY DEF IInv, TailIsWhole, RunIn
  <2>3. which' = "log" /\ ~misled' => RunIn(page', Bytes(reached)')
    BY <1>1, <1>5, <1>6, <2>1, <2>2
  <2>. QED BY <2>3 DEF TailIsWhole, RunIn
<1>9. ReadSoFar'
  <2>1. IsPrefix(page, Bytes(file)) => IsPrefix(page, Bytes(file) \o more)
    BY <1>2, <1>4, <1>7, PrefixMore
  <2>2. which = "log" /\ ~misled /\ ~trimmed => IsPrefix(page, Bytes(file))
    BY DEF IInv, ReadSoFar
  <2>3. which' = "log" /\ ~misled' /\ ~trimmed' => IsPrefix(page', Bytes(file)')
    BY <1>1, <1>4, <1>6, <2>1, <2>2
  <2>. QED BY <2>3 DEF ReadSoFar
<1>10. ReadPast'
  <2>. SUFFICES ASSUME which' = "log", ~misled', trimmed', page' # <<>>
                PROVE  Len(page') > Len(Bytes(file)')
    BY DEF ReadPast, Size
  <2>1. CASE full
    <3>1. file' = file
      BY <1>1, <2>1 DEF Writes
    <3>2. Bytes(file)' = Bytes(file)
      <4>1. \A k \in 1..Len(said) : said'[k] = said[k]
        BY <1>1, <1>2
      <4>2. Up(said', file, Len(said')) = Up(said, file, Len(said))
        BY <1>2, <4>1, AllSaid
      <4>. QED BY <1>2, <1>6, <3>1, <4>2, BytesAre
    <3>3. Len(page) > Len(Bytes(file))
      BY <1>1 DEF IInv, ReadPast, Size
    <3>. QED BY <1>1, <3>2, <3>3
  <2>2. CASE ~full
    <3>1. misled' = (misled \/ (trimmed /\ Len(page) \in 1..Len(Bytes(file)')))
      BY <2>2 DEF Writes, Size
    <3>2. Bytes(file)' \in Seq(Marks)
      BY <1>4, <1>6, <1>7
    <3>3. Len(page) \in Nat /\ Len(page) >= 1 /\ Len(Bytes(file)') \in Nat
      BY <1>1, <1>2, <3>2
    <3>4. Len(page) \notin 1..Len(Bytes(file)')
      BY <1>1, <3>1
    <3>. QED BY <1>1, <3>3, <3>4
  <2>. QED BY <2>1, <2>2
<1>. QED BY <1>8, <1>9, <1>10

\* A page that asks has the file whole, which is the newest of what was written.
LEMMA AsksTail ==
  ASSUME IInv, AsksLog PROVE TailIsWhole' /\ ReadSoFar' /\ ReadPast'
<1>1. /\ TypeOK /\ which = "log" /\ UNCHANGED <<which, said, reached, file>>
      /\ said \in Seq(Lines) /\ page \in Seq(Marks)
      /\ file \subseteq reached /\ reached \subseteq DOMAIN said
  BY DEF IInv, TypeOK, AsksLog, Marks
<1>2. Bytes(file) \in Seq(Marks) /\ Bytes(reached) \in Seq(Marks)
  BY <1>1, BytesAre
<1>3. Bytes(file)' = Bytes(file) /\ Bytes(reached)' = Bytes(reached)
  BY <1>1 DEF Bytes, BytesOf
<1>4. page' = <<>> \/ (~misled' => page' = Bytes(file))
  <2>1. CASE Len(page) > Len(Bytes(file))
    BY <2>1 DEF AsksLog
  <2>2. CASE ~(Len(page) > Len(Bytes(file)))
    <3>1. /\ page' = page \o SubSeq(Bytes(file), Len(page) + 1, Len(Bytes(file)))
          /\ misled' = misled
      BY <2>2 DEF AsksLog
    <3>2. CASE page = <<>>
      <4>1. <<>> \o SubSeq(Bytes(file), 1, Len(Bytes(file))) = Bytes(file) /\ Len(page) + 1 = 1
        BY <1>2, <3>2
      <4>. QED BY <3>1, <3>2, <4>1
    <3>3. CASE page # <<>> /\ ~misled'
      <4>1. ~misled /\ ~trimmed
        BY <1>1, <2>2, <3>1, <3>3 DEF IInv, ReadPast, Size
      <4>2. IsPrefix(page, Bytes(file))
        BY <1>1, <4>1 DEF IInv, ReadSoFar
      <4>. QED BY <1>1, <1>2, <3>1, <4>2, PrefixWhole
    <3>. QED BY <3>2, <3>3
  <2>. QED BY <2>1, <2>2
<1>5. \E first \in Seq(Marks) : Bytes(reached) = first \o Bytes(file)
  <2>1. Older(reached \ file, file)
    <3>. SUFFICES ASSUME NEW gone \in reached \ file, NEW n \in file PROVE gone < n
      BY DEF Older
    <3>1. ~(n < gone)
      BY <1>1 DEF IInv, OnlyOldestGo
    <3>2. gone \in Nat /\ n \in Nat /\ gone # n
      BY <1>1
    <3>. QED BY <3>1, <3>2
  <2>2. /\ reached \ file \subseteq DOMAIN said /\ file \subseteq DOMAIN said
        /\ reached = (reached \ file) \cup file
    BY <1>1
  <2>3. Up(said, (reached \ file) \cup file, Len(said)) =
          Up(said, reached \ file, Len(said)) \o Up(said, file, Len(said))
    BY <1>1, <2>1, <2>2, AllApart
  <2>4. /\ Bytes(reached) = Up(said, reached, Len(said))
        /\ Bytes(file) = Up(said, file, Len(said))
        /\ Bytes(reached \ file) = Up(said, reached \ file, Len(said))
        /\ Bytes(reached \ file) \in Seq(Marks)
    BY <1>1, BytesAre
  <2>. QED BY <2>2, <2>3, <2>4, Zenon
<1>6. RunIn(Bytes(file), Bytes(reached)) /\ IsPrefix(Bytes(file), Bytes(file))
  <2>1. RunIn(Bytes(file), Bytes(reached))
    BY <1>2, <1>5, RunBehind
  <2>. QED BY <1>2, <2>1 DEF IsPrefix
<1>7. RunIn(<<>>, Bytes(reached)) /\ IsPrefix(<<>>, Bytes(file))
  BY <1>2, NoneRuns
<1>8. ~misled' => RunIn(page', Bytes(reached)') /\ IsPrefix(page', Bytes(file)')
  BY <1>3, <1>4, <1>6, <1>7
<1>9. ReadPast'
  BY DEF AsksLog, ReadPast
<1>. QED BY <1>8, <1>9 DEF TailIsWhole, RunIn, ReadSoFar

-----------------------------------------------------------------------------
LEMMA InitInv == Init => IInv
<1>. SUFFICES ASSUME Init PROVE IInv
  OBVIOUS
<1>1. said \in Seq(Lines)
  BY DEF Init
<1>2. TypeOK
  <2>1. troubles \in 0..MaxTroubles
    BY JournalAssumption DEF JournalAssumption, Init
  <2>2. full \in BOOLEAN /\ trimmed \in BOOLEAN /\ misled \in BOOLEAN
    BY DEF Init
  <2>. QED BY <1>1, <2>1, <2>2 DEF Init, TypeOK
<1>3. KeepsThePower /\ OnlyOldestGo
  BY DEF Init, KeepsThePower, OnlyOldestGo, LastPower
<1>4. TailIsWhole /\ ReadSoFar
  <2>1. page = <<>> /\ Bytes(file) \in Seq(Marks) /\ Bytes(reached) \in Seq(Marks)
    BY <1>1, BytesAre DEF Init
  <2>2. RunIn(<<>>, Bytes(reached)) /\ IsPrefix(<<>>, Bytes(file))
    BY <2>1, NoneRuns
  <2>. QED BY <2>1, <2>2 DEF TailIsWhole, RunIn, ReadSoFar
<1>5. ReadPast
  BY DEF Init, ReadPast
<1>. QED BY <1>2, <1>3, <1>4, <1>5 DEF Init, IInv

\* A trim takes from the file, keeps the last power line of each district it
\* has where it is the journal, and takes no line newer than one of the rest.
LEMMA TrimmedKeeps ==
  ASSUME NEW f, f \subseteq Nat
  PROVE  /\ Trimmed(f) \subseteq f
         /\ which = "journal" => LastPower(f) \subseteq Trimmed(f)
         /\ \A gone \in f \ Trimmed(f), n \in Trimmed(f) :
              n < gone => /\ which = "journal" /\ said[n].of # None
                          /\ \A m \in f : n < m /\ m <= gone => said[m].of # said[n].of
<1>1. \A n \in Newest(f), m \in f : m >= n => m \in Newest(f)
  BY DEF Newest
<1>2. Newest(f) \subseteq f
  BY DEF Newest
<1>3. Trimmed(f) \subseteq f
  BY <1>2 DEF Trimmed, LastPower
<1>4. which = "journal" => LastPower(f) \subseteq Trimmed(f)
  BY <1>2 DEF Trimmed, LastPower
<1>5. ASSUME NEW gone \in f \ Trimmed(f), NEW n \in Trimmed(f), n < gone
      PROVE  /\ which = "journal" /\ said[n].of # None
             /\ \A m \in f : n < m /\ m <= gone => said[m].of # said[n].of
  <2>1. gone \notin Newest(f)
    BY <1>5 DEF Trimmed
  <2>2. n \notin Newest(f)
    <3>1. n \in Nat /\ gone \in f /\ gone \in Nat
      BY <1>3, <1>5
    <3>2. gone >= n
      BY <1>5, <3>1
    <3>. QED BY <1>1, <2>1, <3>1, <3>2
  <2>3. which = "journal" /\ n \in LastPower(f \ Newest(f))
    BY <1>5, <2>2 DEF Trimmed
  <2>4. ASSUME NEW m \in f, n < m, m <= gone PROVE m \notin Newest(f)
    BY <1>1, <2>1, <2>4
  <2>. QED
    BY <2>3, <2>4 DEF LastPower
<1>. QED BY <1>3, <1>4, <1>5

\* And leaves no more of the log than it is trimmed to.
LEMMA TrimmedFits ==
  ASSUME TypeOK, which = "log", NEW f, f \subseteq Nat PROVE Size(Trimmed(f)) <= To
<1>. DEFINE new  == Newest(f)
            less == OpToRel(<, Nat)
<1>1. Trimmed(f) = new /\ To \in Nat
  BY JournalAssumption DEF Trimmed, JournalAssumption
<1>2. CASE new = {}
  <2>1. said \in Seq(Lines) /\ Len(said) \in 0..Len(said) /\ {} \cap (1..Len(said)) = {}
    BY DEF TypeOK
  <2>2. Up(said, {}, Len(said)) = <<>>
    BY <2>1, UpNone
  <2>3. Bytes({}) = <<>>
    BY <2>1, <2>2, BytesAre
  <2>4. Len(<<>>) = 0
    OBVIOUS
  <2>. QED BY <1>1, <1>2, <2>3, <2>4 DEF Size
<1>3. CASE new # {}
  <2>1. IsWellFoundedOn(less, Nat) /\ new \subseteq Nat
    BY NatLessThanWellFounded DEF Newest
  <2>2. \A i, j \in Nat : i < j => <<i, j>> \in less
    BY DEF OpToRel
  <2>. HIDE DEF less, new
  <2>3. PICK n \in new : \A k \in new : ~(<<k, n>> \in less)
    BY <1>3, <2>1, WFMin
  <2>4. ASSUME NEW k \in new PROVE n \in Nat /\ k \in Nat /\ k >= n
    <3>1. n \in Nat /\ k \in Nat
      BY <2>1
    <3>2. ~(k < n)
      BY <2>2, <2>3, <3>1
    <3>. QED BY <3>1, <3>2
  <2>5. n \in f /\ n \in Nat /\ Size({k \in f : k >= n}) <= To
    BY <2>1, <2>3 DEF new, Newest
  <2>6. \A k \in f : k >= n => k \in new
    BY <2>3, <2>5 DEF new, Newest
  <2>7. new \subseteq f
    BY DEF new, Newest
  <2>8. new = {k \in f : k >= n}
    BY <2>4, <2>6, <2>7
  <2>. QED BY <1>1, <2>5, <2>8
<1>. QED BY <1>2, <1>3

\* A line that is said is the last there is, and changes no other.
LEMMA Said ==
  ASSUME TypeOK, NEW line \in Lines, said' = Append(said, line)
  PROVE  /\ said' \in Seq(Lines) /\ DOMAIN said' = DOMAIN said \cup {Len(said) + 1}
         /\ \A n \in DOMAIN said : said'[n] = said[n] /\ n < Len(said) + 1 /\ n \in Nat
         /\ Len(said) + 1 \in Nat
BY DEF TypeOK

LEMMA WritesInv ==
  ASSUME IInv, NEW line \in Lines, Writes(line) PROVE IInv'
<1>. DEFINE n == Len(said) + 1
<1>1. TypeOK /\ said' = Append(said, line) /\ writer = "idle"
  BY DEF IInv, Writes
<1>2. /\ said' \in Seq(Lines) /\ DOMAIN said' = DOMAIN said \cup {n}
      /\ \A m \in DOMAIN said : said'[m] = said[m] /\ m < n /\ m \in Nat
      /\ n \in Nat
  BY <1>1, Said
<1>. HIDE DEF n
<1>5. TailIsWhole' /\ ReadSoFar' /\ ReadPast'
  BY WritesTail
<1>3. CASE full
  <2>1. buffered' = buffered \cup {n} /\ UNCHANGED <<which, reached, file, beside, writer, full, troubles, pageVars>>
    BY <1>3 DEF Writes, n, pageVars
  <2>2. TypeOK'
    BY <1>1, <1>2, <2>1 DEF TypeOK, pageVars
  <2>3. KeepsThePower' /\ OnlyOldestGo'
    BY <1>1, <1>2, <2>1 DEF IInv, TypeOK, KeepsThePower, OnlyOldestGo, LastPower
  <2>. QED
    BY <1>1, <1>2, <1>5, <2>1, <2>2, <2>3 DEF IInv, TypeOK
<1>4. CASE ~full
  <2>1. /\ file' = file \cup buffered \cup {n} /\ reached' = reached \cup buffered \cup {n}
        /\ buffered' = {} /\ writer' \in {"idle", "over"} /\ misled' \in BOOLEAN
        /\ UNCHANGED <<which, beside, full, troubles, page, trimmed>>
    BY <1>4 DEF Writes, n, Checked
  <2>2. TypeOK'
    BY <1>1, <1>2, <2>1 DEF TypeOK, pageVars
  <2>3. \A m \in reached, k \in buffered \cup {n} : m < k
    BY <1>1, <1>2 DEF IInv, TypeOK
  <2>4. KeepsThePower'
    BY <1>1, <1>2, <2>1, <2>3 DEF IInv, TypeOK, KeepsThePower, LastPower
  <2>5. OnlyOldestGo'
    BY <1>1, <1>2, <2>1, <2>3 DEF IInv, TypeOK, OnlyOldestGo
  <2>. QED
    BY <1>5, <2>1, <2>2, <2>4, <2>5 DEF IInv
<1>. QED BY <1>3, <1>4

\* The rename: what is gone since is what the trim took, or was gone before.
LEMMA RenamesInv ==
  ASSUME IInv, Renames PROVE IInv'
<1>1. file' = Trimmed(file) /\ beside' = None /\ writer' = "idle"
  BY DEF IInv, Renames
<1>2. /\ UNCHANGED <<which, said, reached, buffered, full, troubles, page>>
      /\ trimmed' = TRUE /\ misled' = (misled \/ Len(page) \in 1..To)
  BY DEF Renames
<1>3. file \subseteq reached /\ reached \subseteq Nat
  BY DEF IInv, TypeOK
<1>4. file' \subseteq file
  BY <1>1, <1>3, TrimmedKeeps
<1>5. TypeOK'
  BY <1>1, <1>2, <1>4 DEF IInv, TypeOK
<1>6. KeepsThePower'
  <2>1. which = "journal" => LastPower(file) \subseteq file'
    BY <1>1, <1>3, TrimmedKeeps
  <2>2. which = "journal" => LastPower(reached) \subseteq LastPower(file)
    BY <1>3 DEF IInv, KeepsThePower, LastPower
  <2>. QED BY <1>2, <2>1, <2>2 DEF KeepsThePower, LastPower
<1>7. OnlyOldestGo'
  <2>. SUFFICES ASSUME NEW gone \in reached \ file', NEW n \in file', n < gone
                PROVE  /\ which = "journal" /\ said[n].of # None
                       /\ \A m \in reached : n < m /\ m <= gone => said[m].of # said[n].of
    BY <1>2 DEF OnlyOldestGo
  <2>1. CASE gone \notin file
    BY <1>4, <2>1 DEF IInv, OnlyOldestGo
  <2>2. CASE gone \in file
    <3>1. /\ which = "journal" /\ said[n].of # None
          /\ \A m \in file : n < m /\ m <= gone => said[m].of # said[n].of
      BY <1>1, <1>3, <2>2, TrimmedKeeps
    <3>2. ASSUME NEW m \in reached \ file, n < m PROVE said[m].of # said[n].of
      BY <1>3, <1>4, <3>2 DEF IInv, OnlyOldestGo
    <3>. QED BY <3>1, <3>2
  <2>. QED BY <2>1, <2>2
<1>8. TailIsWhole' /\ ReadSoFar'
  BY <1>2 DEF IInv, TailIsWhole, ReadSoFar, Bytes, BytesOf
<1>9. ReadPast'
  <2>. SUFFICES ASSUME which = "log", ~misled', page # <<>> PROVE Len(page) > Size(file)'
    BY <1>2 DEF ReadPast
  <2>1. Size(file)' = Size(Trimmed(file)) /\ Size(Trimmed(file)) \in Nat
    <3>1. Size(file)' = Size(Trimmed(file))
      BY <1>1, <1>2 DEF Size, Bytes, BytesOf
    <3>2. Bytes(Trimmed(file)) \in Seq(Marks)
      BY BytesAre DEF IInv, TypeOK
    <3>. QED BY <3>1, <3>2 DEF Size
  <2>2. Size(Trimmed(file)) <= To /\ To \in Nat
    <3>1. TypeOK /\ file \subseteq Nat
      BY <1>3 DEF IInv
    <3>. QED BY <3>1, TrimmedFits, JournalAssumption DEF JournalAssumption
  <2>3. Len(page) \in Nat /\ Len(page) >= 1
    BY DEF IInv, TypeOK
  <2>4. Len(page) \notin 1..To
    BY <1>2
  <2>5. Len(page) > To
    BY <2>2, <2>3, <2>4
  <2>. QED BY <2>1, <2>2, <2>3, <2>5
<1>. QED BY <1>1, <1>2, <1>5, <1>6, <1>7, <1>8, <1>9 DEF IInv

\* No other step takes a line away.
LEMMA RestInv ==
  ASSUME IInv, WritesBeside \/ TrimFails \/ Ends \/ ComesUp \/ Disk \/ AsksLog PROVE IInv'
<1>1. UNCHANGED <<which, said, reached, file>>
  BY DEF WritesBeside, TrimFails, Ends, ComesUp, Disk, AsksLog
<1>2. KeepsThePower' /\ OnlyOldestGo'
  BY <1>1 DEF IInv, KeepsThePower, OnlyOldestGo, LastPower
<1>3. Trimmed(file)' = Trimmed(file)
  BY <1>1 DEF Trimmed, Newest, LastPower, Size, Bytes, BytesOf
<1>4. TypeOK'
  <2>1. ASSUME WritesBeside PROVE TypeOK'
    <3>1. Trimmed(file) \subseteq file
      BY TrimmedKeeps DEF IInv, TypeOK
    <3>. QED BY <2>1, <3>1 DEF IInv, TypeOK, WritesBeside, pageVars
  <2>2. ASSUME TrimFails \/ Ends \/ ComesUp PROVE TypeOK'
    <3>1. troubles' \in 0..MaxTroubles
      BY <2>2, JournalAssumption
      DEF JournalAssumption, IInv, TypeOK, TrimFails, Ends, ComesUp
    <3>. QED BY <2>2, <3>1 DEF IInv, TypeOK, TrimFails, Ends, ComesUp, Checked, pageVars
  <2>3. ASSUME Disk \/ AsksLog PROVE TypeOK'
    <3>1. troubles' \in 0..MaxTroubles
      BY <2>3, JournalAssumption DEF JournalAssumption, IInv, TypeOK, Disk, AsksLog
    <3>2. full' \in BOOLEAN /\ trimmed' \in BOOLEAN /\ misled' \in BOOLEAN
      BY <2>3 DEF IInv, TypeOK, Disk, AsksLog, pageVars
    <3>3. page' \in Seq(Nat \X Nat)
      <4>1. said \in Seq(Lines) /\ page \in Seq(Nat \X Nat)
        BY DEF IInv, TypeOK
      <4>2. Bytes(file) \in Seq(Nat \X Nat)
        BY <4>1, BytesAre DEF Marks
      <4>3. SubSeq(Bytes(file), Len(page) + 1, Len(Bytes(file))) \in Seq(Nat \X Nat)
        BY <4>1, <4>2
      <4>4. page \o SubSeq(Bytes(file), Len(page) + 1, Len(Bytes(file))) \in Seq(Nat \X Nat)
        BY <4>1, <4>3
      <4>5. <<>> \in Seq(Nat \X Nat)
        OBVIOUS
      <4>. QED BY <2>3, <4>1, <4>4, <4>5 DEF Disk, AsksLog, pageVars
    <3>. QED BY <2>3, <3>1, <3>2, <3>3 DEF IInv, TypeOK, Disk, AsksLog, pageVars
  <2>. QED BY <2>1, <2>2, <2>3
<1>5. (\A n \in reached, m \in buffered : n < m)'
  BY <1>1 DEF IInv, WritesBeside, TrimFails, Ends, ComesUp, Disk, AsksLog
<1>6. (writer = "beside" => beside = Trimmed(file))'
  BY <1>3 DEF IInv, WritesBeside, TrimFails, Ends, ComesUp, Disk, AsksLog, Checked
<1>7. TailIsWhole' /\ ReadSoFar' /\ ReadPast'
  <2>1. CASE AsksLog
    BY <2>1, AsksTail
  <2>2. CASE ~AsksLog
    <3>1. UNCHANGED pageVars
      BY <2>2 DEF WritesBeside, TrimFails, Ends, ComesUp, Disk
    <3>. QED BY <1>1, <3>1
         DEF IInv, TailIsWhole, ReadSoFar, ReadPast, Size, Bytes, BytesOf, pageVars
  <2>. QED BY <2>1, <2>2
<1>. QED BY <1>2, <1>4, <1>5, <1>6, <1>7 DEF IInv

THEOREM Inductive == Spec => []IInv
<1>1. IInv /\ [Next]_vars => IInv'
  <2>. SUFFICES ASSUME IInv, [Next]_vars PROVE IInv'
    OBVIOUS
  <2>1. ASSUME NEW line \in Lines, Writes(line) PROVE IInv'
    BY <2>1, WritesInv
  <2>2. CASE Renames
    BY <2>2, RenamesInv
  <2>3. CASE WritesBeside \/ TrimFails \/ Ends \/ ComesUp \/ Disk \/ AsksLog
    BY <2>3, RestInv
  <2>4. CASE UNCHANGED vars
    <3>1. TypeOK' /\ KeepsThePower' /\ OnlyOldestGo'
      BY <2>4 DEF vars, IInv, TypeOK, KeepsThePower, OnlyOldestGo, LastPower
    <3>2. TailIsWhole' /\ ReadSoFar' /\ ReadPast'
      BY <2>4 DEF vars, IInv, TailIsWhole, ReadSoFar, ReadPast, Size, Bytes, BytesOf
    <3>3. Trimmed(file)' = Trimmed(file) /\ UNCHANGED <<reached, buffered, writer, beside>>
      BY <2>4 DEF vars, Trimmed, Newest, LastPower, Size, Bytes, BytesOf
    <3>. QED BY <3>1, <3>2, <3>3 DEF IInv
  <2>. QED BY <2>1, <2>2, <2>3, <2>4 DEF Next
<1>. QED BY <1>1, InitInv, PTL DEF Spec

\* Types, for either file (`journal.Journal`, `log.Log`).
THEOREM Typed == Spec => []TypeOK
<1>1. IInv => TypeOK
  BY DEF IInv
<1>. QED BY <1>1, Inductive, PTL

\* However often the journal is trimmed (`Journal._trimmed`), and wherever the
\* process ends, the file says the last that was written of each district's
\* power.
THEOREM SafePower == Spec => []KeepsThePower
<1>1. IInv => KeepsThePower
  BY DEF IInv
<1>. QED BY <1>1, Inductive, PTL

\* And nothing else that is kept is older than a line that is gone.
THEOREM SafeOrder == Spec => []OnlyOldestGo
<1>1. IInv => OnlyOldestGo
  BY DEF IInv
<1>. QED BY <1>1, Inductive, PTL

\* What a page that follows the log has is a run of what was written (`_logged`,
\* `log.Log`), of a page that had read further than a trim leaves and asks before
\* the file has grown back to what it had read: that a trim leaves no more than
\* it says (TrimmedFits) is what makes the `416` tell it.
THEOREM SafeTail == Spec => []TailIsWhole
<1>1. IInv => TailIsWhole
  BY DEF IInv
<1>. QED BY <1>1, Inductive, PTL
=============================================================================
