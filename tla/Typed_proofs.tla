---------------------------- MODULE Typed_proofs ----------------------------
(***************************************************************************)
(* Proofs about Framing and Typed: whatever is typed and however its bytes *)
(* are cut, what reaches the device is every message of it, and what       *)
(* reaches the port is every frame.                                        *)
(***************************************************************************)
EXTENDS Typed, SequenceTheorems, FiniteSetTheorems, WellFoundedInduction, TLAPS

-----------------------------------------------------------------------------
(* Induction, as a fact about sets: the least number outside of one.       *)

LEMMA Induction ==
  ASSUME NEW S, 0 \in S, \A n \in Nat : n \in S => n + 1 \in S
  PROVE  \A n \in Nat : n \in S
<1>. SUFFICES ASSUME NEW m \in Nat, m \notin S PROVE FALSE
  OBVIOUS
<1>. DEFINE out == Nat \ S
            less == OpToRel(<, Nat)
<1>1. IsWellFoundedOn(less, Nat)
  BY NatLessThanWellFounded
<1>2. \A i, j \in Nat : i < j => <<i, j>> \in less
  BY DEF OpToRel
<1>. HIDE DEF less
<1>3. out \subseteq Nat /\ out # {}
  OBVIOUS
<1>4. PICK n \in out : \A k \in out : ~(<<k, n>> \in less)
  BY <1>1, <1>3, WFMin
<1>5. n # 0 /\ n - 1 \in Nat /\ n - 1 \notin S
  BY ONLY n \in out, 0 \in S, \A k \in Nat : k \in S => k + 1 \in S
<1>6. <<n - 1, n>> \in less
  BY <1>2, <1>5
<1>. QED BY <1>4, <1>5, <1>6

-----------------------------------------------------------------------------
(* FlattenSeq, by the sequences so far.                                    *)

\* `f` is the recursive function FlattenSeq takes the last value of.
Flattens(f, s) ==
  f = [i \in 1..Len(s) |-> IF i = 1 THEN s[i] ELSE f[i - 1] \o s[i]]

LEMMA FlattensStep ==
  ASSUME NEW s, NEW f, Flattens(f, s), NEW i \in 1..Len(s)
  PROVE  f[i] = IF i = 1 THEN s[i] ELSE f[i - 1] \o s[i]
  BY Zenon DEF Flattens

\* There is one, and it is of sequences.
LEMMA FlattensIs ==
  ASSUME NEW T
  PROVE  \A s \in Seq(Seq(T)) : \E f \in [1..Len(s) -> Seq(T)] : Flattens(f, s)
<1>. DEFINE P == {n \in Nat : \A s \in Seq(Seq(T)) :
                    Len(s) = n => \E f \in [1..Len(s) -> Seq(T)] : Flattens(f, s)}
<1>1. 0 \in P
  <2>. SUFFICES ASSUME NEW s \in Seq(Seq(T)), Len(s) = 0
                PROVE  \E f \in [1..Len(s) -> Seq(T)] : Flattens(f, s)
    OBVIOUS
  <2>. DEFINE f == [i \in 1..Len(s) |-> <<>>]
  <2>1. f \in [1..Len(s) -> Seq(T)] /\ 1..Len(s) = {}
    OBVIOUS
  <2>2. f = [i \in 1..Len(s) |-> IF i = 1 THEN s[i] ELSE f[i - 1] \o s[i]]
    BY <2>1
  <2>. QED BY <2>1, <2>2 DEF Flattens
<1>2. ASSUME NEW n \in Nat, n \in P PROVE n + 1 \in P
  <2>. SUFFICES ASSUME NEW s \in Seq(Seq(T)), Len(s) = n + 1
                PROVE  \E f \in [1..Len(s) -> Seq(T)] : Flattens(f, s)
    OBVIOUS
  <2>. DEFINE r == SubSeq(s, 1, n)
  <2>1. r \in Seq(Seq(T)) /\ Len(r) = n /\ \A i \in 1..n : r[i] = s[i]
    OBVIOUS
  <2>. HIDE DEF r
  <2>2. PICK g \in [1..n -> Seq(T)] : Flattens(g, r)
    BY <1>2, <2>1
  <2>3. \A i \in 1..n : g[i] = IF i = 1 THEN s[i] ELSE g[i - 1] \o s[i]
    BY <2>1, <2>2 DEF Flattens
  <2>. DEFINE last == IF n = 0 THEN s[n + 1] ELSE g[n] \o s[n + 1]
              f == [i \in 1..n + 1 |-> IF i = n + 1 THEN last ELSE g[i]]
  <2>4. last \in Seq(T)
    <3>1. s[n + 1] \in Seq(T)
      OBVIOUS
    <3>2. n # 0 => g[n] \in Seq(T)
      OBVIOUS
    <3>. QED BY <3>1, <3>2
  <2>. HIDE DEF last
  <2>5. f \in [1..n + 1 -> Seq(T)]
    BY <2>4
  <2>6. \A i \in 1..n + 1 : f[i] = IF i = 1 THEN s[i] ELSE f[i - 1] \o s[i]
    <3>. TAKE i \in 1..n + 1
    <3>1. CASE i = n + 1
      <4>1. f[i] = last /\ (n # 0 => f[n] = g[n])
        BY <3>1
      <4>. QED BY <3>1, <4>1 DEF last
    <3>2. CASE i # n + 1
      <4>1. i \in 1..n /\ f[i] = g[i] /\ (i # 1 => i - 1 \in 1..n /\ f[i - 1] = g[i - 1])
        BY <3>2
      <4>. QED BY <2>3, <4>1
    <3>. QED BY <3>1, <3>2
  <2>7. Flattens(f, s)
    <3>1. f = [i \in 1..n + 1 |-> f[i]]
      OBVIOUS
    <3>. HIDE DEF f
    <3>2. f = [i \in 1..n + 1 |-> IF i = 1 THEN s[i] ELSE f[i - 1] \o s[i]]
      BY <2>6, <3>1, Zenon
    <3>. QED BY <3>2 DEF Flattens
  <2>. HIDE DEF f
  <2>. QED BY <2>5, <2>7
<1>. HIDE DEF P
<1>3. \A n \in Nat : n \in P
  BY <1>1, <1>2, Induction
<1>. QED BY <1>3 DEF P

\* Two that are the same as far as the first goes.
Agree(s, t) == \A i \in 1..Len(s) : s[i] = t[i]

\* Where two agree up to a place, so do what they come to.
LEMMA FlattensAgree ==
  ASSUME NEW T, NEW s \in Seq(Seq(T)), NEW t \in Seq(Seq(T)), NEW f, NEW g,
         Flattens(f, s), Flattens(g, t), Len(s) <= Len(t), Agree(s, t)
  PROVE  \A i \in 1..Len(s) : f[i] = g[i]
<1>0. PICK m \in Nat : m = Len(s)
  OBVIOUS
<1>. DEFINE P == {n \in Nat : n \in 1..m => f[n] = g[n]}
<1>1. 0 \in P
  OBVIOUS
<1>2. ASSUME NEW n \in Nat, n \in P PROVE n + 1 \in P
  <2>. SUFFICES ASSUME n + 1 \in 1..m PROVE f[n + 1] = g[n + 1]
    OBVIOUS
  <2>1. /\ f[n + 1] = IF n + 1 = 1 THEN s[n + 1] ELSE f[n] \o s[n + 1]
        /\ g[n + 1] = IF n + 1 = 1 THEN t[n + 1] ELSE g[n] \o t[n + 1]
    <3>1. n + 1 \in 1..Len(s) /\ n + 1 \in 1..Len(t) /\ (n + 1) - 1 = n
      BY <1>0
    <3>2. f[n + 1] = IF n + 1 = 1 THEN s[n + 1] ELSE f[(n + 1) - 1] \o s[n + 1]
      BY <3>1, FlattensStep
    <3>3. g[n + 1] = IF n + 1 = 1 THEN t[n + 1] ELSE g[(n + 1) - 1] \o t[n + 1]
      BY <3>1, FlattensStep
    <3>. QED BY <3>1, <3>2, <3>3
  <2>2. s[n + 1] = t[n + 1] /\ (n # 0 => f[n] = g[n])
    BY <1>0, <1>2 DEF Agree
  <2>. QED BY <2>1, <2>2
<1>. HIDE DEF P
<1>3. \A n \in Nat : n \in P
  BY <1>1, <1>2, Induction
<1>. QED BY <1>0, <1>3 DEF P

LEMMA FlattenNone == FlattenSeq(<<>>) = <<>>
  BY DEF FlattenSeq

LEMMA FlattenIs ==
  ASSUME NEW T, NEW s \in Seq(Seq(T)), Len(s) # 0, NEW f, Flattens(f, s)
  PROVE  FlattenSeq(s) = f[Len(s)]
<1>1. \A g : Flattens(g, s) => g = f
  <2>. SUFFICES ASSUME NEW g, Flattens(g, s) PROVE g = f
    OBVIOUS
  <2>1. \A i \in 1..Len(s) : g[i] = f[i]
    <3>1. Len(s) <= Len(s) /\ Agree(s, s)
      BY DEF Agree
    <3>. QED BY <3>1, FlattensAgree
  <2>2. g = [i \in 1..Len(s) |-> g[i]] /\ f = [i \in 1..Len(s) |-> f[i]]
    BY DEF Flattens
  <2>. QED BY <2>1, <2>2, Zenon
<1>2. f = CHOOSE g : Flattens(g, s)
  BY <1>1
<1>3. Flattens(CHOOSE g : Flattens(g, s), s)
  BY <1>2
<1>. QED
  BY <1>2, <1>3, Zenon DEF FlattenSeq, Flattens

\* What is flattened of typed sequences is one of the type.
LEMMA FlattenTyped ==
  ASSUME NEW T, NEW s \in Seq(Seq(T)) PROVE FlattenSeq(s) \in Seq(T)
<1>1. CASE Len(s) = 0
  <2>1. s = <<>> /\ <<>> \in Seq(T)
    BY <1>1
  <2>. QED BY <2>1, FlattenNone, Zenon
<1>2. CASE Len(s) # 0
  <2>1. PICK f \in [1..Len(s) -> Seq(T)] : Flattens(f, s)
    BY FlattensIs
  <2>2. FlattenSeq(s) = f[Len(s)]
    BY <1>2, <2>1, FlattenIs
  <2>3. Len(s) \in 1..Len(s)
    BY <1>2
  <2>. QED BY <2>1, <2>2, <2>3
<1>. QED BY <1>1, <1>2

\* One more sequence goes behind.
LEMMA FlattenMore ==
  ASSUME NEW T, NEW s \in Seq(Seq(T)), NEW t \in Seq(Seq(T)),
         Len(t) = Len(s) + 1, \A i \in 1..Len(s) : s[i] = t[i]
  PROVE  FlattenSeq(t) = FlattenSeq(s) \o t[Len(t)]
<1>1. PICK g : Flattens(g, t)
  BY FlattensIs
<1>2. Len(t) # 0 /\ Len(t) \in 1..Len(t) /\ Len(s) <= Len(t)
  OBVIOUS
<1>3. FlattenSeq(t) = g[Len(t)]
  BY <1>1, <1>2, FlattenIs
<1>4. g[Len(t)] = IF Len(t) = 1 THEN t[Len(t)] ELSE g[Len(t) - 1] \o t[Len(t)]
  BY <1>1, <1>2, FlattensStep
<1>5. CASE Len(s) = 0
  <2>1. s = <<>> /\ <<>> \o t[Len(t)] = t[Len(t)]
    BY <1>5
  <2>2. FlattenSeq(s) \o t[Len(t)] = t[Len(t)]
    BY <2>1, FlattenNone
  <2>. QED BY <1>3, <1>4, <1>5, <2>2
<1>6. CASE Len(s) # 0
  <2>1. PICK f : Flattens(f, s)
    BY FlattensIs
  <2>2. FlattenSeq(s) = f[Len(s)]
    BY <1>6, <2>1, FlattenIs
  <2>3. \A i \in 1..Len(s) : f[i] = g[i]
    <3>1. Agree(s, t)
      BY DEF Agree
    <3>2. /\ s \in Seq(Seq(T)) /\ t \in Seq(Seq(T)) /\ Len(s) <= Len(t) /\ Agree(s, t)
          /\ Flattens(f, s) /\ Flattens(g, t)
      BY <1>1, <1>2, <2>1, <3>1
    <3>. QED BY ONLY <3>2, FlattensAgree
  <2>4. Len(t) # 1 /\ Len(t) - 1 = Len(s) /\ Len(s) \in 1..Len(s)
    BY <1>6
  <2>. QED BY <1>3, <1>4, <2>2, <2>3, <2>4
<1>. QED BY <1>5, <1>6

-----------------------------------------------------------------------------
(* The messages of a client's bytes, as one more byte comes.               *)

USE FramingAssumption DEF IInv

LEMMA EndingTyped ==
  ASSUME NEW bytes \in Seq(Bytes), NEW j \in 1..Len(bytes)
  PROVE  EndingAt(bytes, j) \in Seq(Seq(Bytes))
<1>1. CASE Beginnings(bytes, j) = {}
  BY <1>1 DEF EndingAt
<1>2. CASE Beginnings(bytes, j) # {}
  <2>1. (CHOOSE i \in Beginnings(bytes, j) : TRUE) \in Beginnings(bytes, j)
    BY <1>2
  <2>2. PICK k \in 1..(j - 1) : k = CHOOSE i \in Beginnings(bytes, j) : TRUE
    BY <2>1 DEF Beginnings
  <2>3. SubSeq(bytes, k, j) \in Seq(Bytes)
    OBVIOUS
  <2>. QED BY <1>2, <2>2, <2>3 DEF EndingAt
<1>. QED BY <1>1, <1>2

\* A byte more changes no message that ended before it.
LEMMA EndingStays ==
  ASSUME NEW bytes \in Seq(Bytes), NEW more \in Seq(Bytes), Len(more) = Len(bytes) + 1,
         \A k \in 1..Len(bytes) : more[k] = bytes[k], NEW j \in 1..Len(bytes)
  PROVE  EndingAt(more, j) = EndingAt(bytes, j)
<1>1. Beginnings(more, j) = Beginnings(bytes, j)
  <2>1. ASSUME NEW i \in 1..(j - 1) PROVE Opened(more, i, j - 1) <=> Opened(bytes, i, j - 1)
    <3>1. more[i] = bytes[i] /\ \A k \in i+1..(j - 1) : more[k] = bytes[k]
      OBVIOUS
    <3>. QED BY <3>1 DEF Opened
  <2>2. more[j] = bytes[j]
    OBVIOUS
  <2>. QED BY <2>1, <2>2 DEF Beginnings
<1>2. ASSUME NEW i \in 1..(j - 1) PROVE SubSeq(more, i, j) = SubSeq(bytes, i, j)
  <2>1. /\ SubSeq(more, i, j) \in Seq(Bytes) /\ SubSeq(bytes, i, j) \in Seq(Bytes)
        /\ Len(SubSeq(more, i, j)) = j - i + 1 /\ Len(SubSeq(bytes, i, j)) = j - i + 1
        /\ \A k \in 1..(j - i + 1) : /\ SubSeq(more, i, j)[k] = more[i + k - 1]
                                     /\ SubSeq(bytes, i, j)[k] = bytes[i + k - 1]
    OBVIOUS
  <2>2. \A k \in 1..(j - i + 1) : i + k - 1 \in 1..Len(bytes)
    OBVIOUS
  <2>. QED BY <2>1, <2>2, SeqEqual
<1>3. CASE Beginnings(bytes, j) = {}
  BY <1>1, <1>3 DEF EndingAt
<1>4. CASE Beginnings(bytes, j) # {}
  <2>1. (CHOOSE i \in Beginnings(bytes, j) : TRUE) \in Beginnings(bytes, j)
    BY <1>4
  <2>2. (CHOOSE i \in Beginnings(bytes, j) : TRUE) \in 1..(j - 1)
    BY <2>1 DEF Beginnings
  <2>. DEFINE c == CHOOSE i \in Beginnings(bytes, j) : TRUE
  <2>3. SubSeq(more, c, j) = SubSeq(bytes, c, j)
    BY <1>2, <2>2
  <2>4. EndingAt(more, j) = <<SubSeq(more, c, j)>> /\ EndingAt(bytes, j) = <<SubSeq(bytes, c, j)>>
    BY <1>1, <1>4, Zenon DEF EndingAt
  <2>. QED BY <2>3, <2>4
<1>. QED BY <1>3, <1>4

\* What ends at it goes behind them.
LEMMA OneMoreByte ==
  ASSUME NEW bytes \in Seq(Bytes), NEW more \in Seq(Bytes), Len(more) = Len(bytes) + 1,
         \A k \in 1..Len(bytes) : more[k] = bytes[k]
  PROVE  Messages(more) = Messages(bytes) \o EndingAt(more, Len(more))
<1>. DEFINE before == [j \in DOMAIN bytes |-> EndingAt(bytes, j)]
            after == [j \in DOMAIN more |-> EndingAt(more, j)]
<1>1. /\ DOMAIN bytes = 1..Len(bytes) /\ DOMAIN more = 1..Len(more)
      /\ Len(bytes) \in Nat /\ Len(more) \in 1..Len(more)
  OBVIOUS
<1>2. /\ \A j \in 1..Len(bytes) : EndingAt(bytes, j) \in Seq(Seq(Bytes))
      /\ \A j \in 1..Len(more) : EndingAt(more, j) \in Seq(Seq(Bytes))
  BY EndingTyped
<1>3. \A j \in 1..Len(bytes) : EndingAt(more, j) = EndingAt(bytes, j)
  BY EndingStays
<1>5. before \in Seq(Seq(Seq(Bytes))) /\ Len(before) = Len(bytes)
  BY <1>1, <1>2
<1>6. after \in Seq(Seq(Seq(Bytes))) /\ Len(after) = Len(more)
  BY <1>1, <1>2
<1>7. \A j \in 1..Len(before) : before[j] = after[j]
  <2>. SUFFICES ASSUME NEW j \in 1..Len(bytes) PROVE before[j] = after[j]
    BY <1>5
  <2>1. j \in 1..Len(more)
    OBVIOUS
  <2>. QED BY <1>1, <1>3, <2>1, Zenon
<1>8. after[Len(more)] = EndingAt(more, Len(more))
  BY <1>1
<1>. HIDE DEF before, after
<1>9. FlattenSeq(after) = FlattenSeq(before) \o after[Len(after)]
  BY <1>5, <1>6, <1>7, FlattenMore
<1>. QED BY <1>6, <1>8, <1>9 DEF before, after, Messages

\* One message at most is open.
LEMMA OneIsOpen ==
  ASSUME NEW bytes, NEW n \in Nat, NEW i \in 1..n, NEW j \in 1..n,
         Opened(bytes, i, n), Opened(bytes, j, n)
  PROVE  i = j
<1>1. bytes[i] \in Delimiters /\ bytes[j] \in Delimiters
  BY DEF Opened, Delimiters
<1>2. CASE i < j
  <2>1. j \in i+1..n
    BY <1>2
  <2>. QED BY <1>1, <2>1 DEF Opened
<1>3. CASE j < i
  <2>1. i \in j+1..n
    BY <1>3
  <2>. QED BY <1>1, <2>1 DEF Opened
<1>. QED BY <1>2, <1>3

\* What is held is of the message that is open.
LEMMA HeldIsOpen ==
  ASSUME TypeOK, Begun, Held, partial # <<>>
  PROVE  \E from \in 1..Len(given) :
           /\ Opened(given, from, Len(given)) /\ Len(given) - from + 1 = Len(partial)
           /\ partial = SubSeq(given, from, Len(given))
<1>1. /\ partial \in Seq(Bytes) /\ given \in Seq(Bytes) /\ Len(partial) \in 1..Len(given)
      /\ Len(given) \in Nat
  BY DEF TypeOK, Held
<1>2. PICK from \in 1..Len(given) : from = Len(given) - Len(partial) + 1
  <2>1. ASSUME NEW n \in Nat, NEW m \in 1..n PROVE n - m + 1 \in 1..n
    OBVIOUS
  <2>2. Len(given) - Len(partial) + 1 \in 1..Len(given)
    BY <1>1, <2>1
  <2>. QED BY <2>2
<1>3. partial = SubSeq(given, from, Len(given))
  BY <1>2 DEF Held
<1>4. ASSUME NEW k \in from..Len(given) PROVE given[k] = partial[k - from + 1]
  BY <1>1, <1>3
<1>5. given[from] = Start
  <2>1. from \in from..Len(given) /\ from - from + 1 = 1
    BY <1>1
  <2>. QED BY <1>4, <2>1 DEF Begun
<1>6. ASSUME NEW k \in from+1..Len(given) PROVE given[k] \notin Delimiters
  <2>1. k \in from..Len(given) /\ k - from + 1 \in 2..Len(partial)
    BY <1>1, <1>2
  <2>. QED BY <1>4, <2>1 DEF Begun
<1>7. Len(given) - from + 1 = Len(partial)
  BY <1>1, <1>2
<1>. QED BY <1>3, <1>5, <1>6, <1>7 DEF Opened

\* Nothing ends at a byte that is no end, or where none is open that is short
\* enough.
LEMMA NothingEnds ==
  ASSUME NEW bytes \in Seq(Bytes), NEW more \in Seq(Bytes), Len(more) = Len(bytes) + 1,
         \A k \in 1..Len(bytes) : more[k] = bytes[k],
         \/ more[Len(more)] # End
         \/ \A i \in 1..Len(bytes) : Opened(bytes, i, Len(bytes)) => Len(bytes) - i >= MaxMessage
  PROVE  EndingAt(more, Len(more)) = <<>>
<1>. SUFFICES ASSUME NEW i \in Beginnings(more, Len(more)) PROVE FALSE
  BY DEF EndingAt
<1>1. /\ i \in 1..Len(bytes) /\ Len(more) - i <= MaxMessage /\ more[Len(more)] = End
      /\ Opened(more, i, Len(bytes)) /\ Len(bytes) \in Nat /\ Len(more) - 1 = Len(bytes)
  BY DEF Beginnings
<1>2. Opened(bytes, i, Len(bytes))
  BY <1>1 DEF Opened
<1>3. ~(Len(bytes) - i >= MaxMessage)
  BY <1>1
<1>. QED BY <1>1, <1>2, <1>3

\* An end ends the one that is open.
LEMMA TheOpenEnds ==
  ASSUME NEW bytes \in Seq(Bytes), NEW more \in Seq(Bytes), Len(more) = Len(bytes) + 1,
         \A k \in 1..Len(bytes) : more[k] = bytes[k], more[Len(more)] = End,
         NEW from \in 1..Len(bytes), Opened(bytes, from, Len(bytes)),
         Len(bytes) - from < MaxMessage
  PROVE  EndingAt(more, Len(more)) = <<SubSeq(more, from, Len(more))>>
<1>1. \A i \in 1..Len(bytes) : Opened(more, i, Len(bytes)) <=> Opened(bytes, i, Len(bytes))
  BY DEF Opened
<1>2. Len(more) - 1 = Len(bytes) /\ Len(bytes) \in Nat
  OBVIOUS
<1>3. \A i \in Beginnings(more, Len(more)) : i = from
  <2>. SUFFICES ASSUME NEW i \in Beginnings(more, Len(more)) PROVE i = from
    OBVIOUS
  <2>1. i \in 1..Len(bytes) /\ Opened(bytes, i, Len(bytes))
    BY <1>1, <1>2 DEF Beginnings
  <2>. QED BY <1>2, <2>1, OneIsOpen
<1>4. from \in Beginnings(more, Len(more))
  BY <1>1, <1>2 DEF Beginnings
<1>5. Beginnings(more, Len(more)) = {from}
  BY <1>3, <1>4
<1>. QED BY <1>5 DEF EndingAt

LEMMA SubSeqMore ==
  ASSUME NEW s \in Seq(Bytes), NEW t \in Seq(Bytes), Len(t) = Len(s) + 1,
         \A k \in 1..Len(s) : t[k] = s[k], NEW i \in 1..Len(t)
  PROVE  SubSeq(t, i, Len(t)) = Append(SubSeq(s, i, Len(s)), t[Len(t)])
<1>1. SubSeq(t, i, Len(t)) = SubSeq(t, i, Len(t) - 1) \o <<t[Len(t)]>>
  <2>1. Len(t) \in i..Len(t)
    OBVIOUS
  <2>. QED BY <2>1, SubSeqRecursiveSecond
<1>2. SubSeq(t, i, Len(t) - 1) = SubSeq(s, i, Len(s)) /\ SubSeq(s, i, Len(s)) \in Seq(Bytes)
  OBVIOUS
<1>3. t[Len(t)] \in Bytes
  OBVIOUS
<1>. QED BY <1>1, <1>2, <1>3, AppendIsConcat

\* What was folded in makes the messages there are, and what is held is the
\* rest of it.
LEMMA FoldsAll == ASSUME IInv, Folds PROVE EveryMessage' /\ Held'
<1>. DEFINE byte == Head(arrived)
            n == Len(given)
<1>1. /\ given \in Seq(Bytes) /\ given' \in Seq(Bytes) /\ Len(given') = n + 1
      /\ \A k \in 1..n : given'[k] = given[k]
      /\ given'[n + 1] = byte /\ byte \in Bytes /\ n \in Nat
  BY DEF TypeOK, Folds, Takes
<1>2. whole \in Seq(Seq(Bytes)) /\ partial \in Seq(Bytes) /\ Len(partial) <= MaxMessage
  BY DEF TypeOK
<1>3. Messages(given') = whole \o EndingAt(given', n + 1)
  BY <1>1, OneMoreByte DEF EveryMessage
<1>4. (byte # End \/ partial = <<>>) => EndingAt(given', n + 1) = <<>>
  <2>1. partial = <<>> => \A i \in 1..n : Opened(given, i, n) => n - i >= MaxMessage
    BY DEF Held
  <2>. QED BY <1>1, <2>1, NothingEnds
<1>5. whole \o <<>> = whole
  BY <1>2
<1>6. ASSUME NEW i \in 1..(n + 1), Opened(given', i, n + 1)
      PROVE  /\ byte # End /\ (byte # Start => i \in 1..n /\ Opened(given, i, n))
             /\ given'[i] = Start
  <2>1. given'[i] = Start /\ \A k \in i+1..n + 1 : given'[k] \notin Delimiters
    BY <1>6 DEF Opened
  <2>2. CASE i = n + 1
    BY <1>1, <2>1, <2>2
  <2>3. CASE i # n + 1
    <3>1. i \in 1..n /\ n + 1 \in i+1..n + 1
      BY <1>1, <2>3
    <3>2. byte \notin Delimiters
      BY <1>1, <2>1, <3>1
    <3>3. given[i] = Start /\ \A k \in i+1..n : given[k] \notin Delimiters
      BY <1>1, <2>1, <3>1
    <3>. QED BY <2>1, <3>1, <3>2, <3>3 DEF Opened, Delimiters
  <2>. QED BY <2>2, <2>3
<1>7. CASE byte = Start /\ Starts
  <2>1. partial' = <<Start>> /\ whole' = whole /\ byte # End
    BY <1>7 DEF Starts
  <2>2. EveryMessage'
    BY <1>3, <1>4, <1>5, <2>1 DEF EveryMessage
  <2>3. SubSeq(given', n + 1, n + 1) = <<Start>> /\ Len(<<Start>>) = 1 /\ <<Start>> # <<>>
    <3>1. SubSeq(given', n + 1, n + 1) = Append(SubSeq(given, n + 1, n), byte)
      BY <1>1, SubSeqMore
    <3>2. SubSeq(given, n + 1, n) = <<>>
      BY <1>1
    <3>3. Append(<<>>, byte) = <<Start>> /\ Len(<<Start>>) = 1 /\ <<Start>> # <<>>
      BY <1>7
    <3>. QED BY <3>1, <3>2, <3>3
  <2>4. Len(given') - Len(<<Start>>) + 1 = n + 1 /\ Len(<<Start>>) <= Len(given')
    BY <1>1, <2>3
  <2>. QED BY <1>1, <2>1, <2>2, <2>3, <2>4 DEF Held
<1>8. CASE byte # Start /\ partial = <<>> /\ Dropped
  <2>1. partial' = <<>> /\ whole' = whole
    BY <1>8 DEF Dropped
  <2>2. EveryMessage'
    BY <1>3, <1>4, <1>5, <1>8, <2>1 DEF EveryMessage
  <2>3. \A i \in 1..n + 1 : Opened(given', i, n + 1) => (n + 1) - i >= MaxMessage
    <3>. SUFFICES ASSUME NEW i \in 1..n + 1, Opened(given', i, n + 1)
                  PROVE  (n + 1) - i >= MaxMessage
      OBVIOUS
    <3>1. i \in 1..n /\ Opened(given, i, n)
      BY <1>6, <1>8
    <3>2. n - i >= MaxMessage
      BY <1>8, <3>1 DEF Held
    <3>. QED BY <1>1, <3>1, <3>2
  <2>. QED BY <1>1, <2>1, <2>2, <2>3 DEF Held
<1>9. CASE byte = End /\ partial # <<>> /\ Ends
  <2>1. partial' = <<>> /\ whole' = Append(whole, Append(partial, End))
    BY <1>9 DEF Ends
  <2>2. PICK from \in 1..n : /\ Opened(given, from, n) /\ n - from + 1 = Len(partial)
                             /\ partial = SubSeq(given, from, n)
    BY <1>9, HeldIsOpen
  <2>3. n - from < MaxMessage
    BY <1>1, <1>2, <2>2
  <2>4. EndingAt(given', n + 1) = <<SubSeq(given', from, n + 1)>>
    BY <1>1, <1>9, <2>2, <2>3, TheOpenEnds
  <2>5. SubSeq(given', from, n + 1) = Append(SubSeq(given, from, n), End)
    BY <1>1, <1>9
  <2>6. Append(whole, Append(partial, End)) = whole \o <<Append(partial, End)>>
    <3>1. Append(partial, End) \in Seq(Bytes)
      BY <1>2
    <3>. QED BY <1>2, <3>1, AppendIsConcat
  <2>7. EveryMessage'
    BY <1>3, <2>1, <2>2, <2>4, <2>5, <2>6 DEF EveryMessage
  <2>8. \A i \in 1..n + 1 : ~Opened(given', i, n + 1)
    BY <1>6, <1>9
  <2>. QED BY <1>1, <2>1, <2>7, <2>8 DEF Held
<1>10. CASE byte \notin {Start, End} /\ partial # <<>> /\ Grows(byte)
  <2>. DEFINE longer == Append(partial, byte)
  <2>1. /\ longer \in Seq(Bytes) /\ Len(longer) = Len(partial) + 1 /\ longer # <<>>
        /\ Len(partial) \in Nat
    <3>1. \A q \in Seq(Bytes) : \A x \in Bytes :
            /\ Append(q, x) \in Seq(Bytes) /\ Len(Append(q, x)) = Len(q) + 1
            /\ Append(q, x) # <<>> /\ Len(q) \in Nat
      OBVIOUS
    <3>. QED BY ONLY <1>1, <1>2, <3>1
  <2>2. whole' = whole /\ partial' = IF Len(longer) > MaxMessage THEN <<>> ELSE longer
    BY <1>10 DEF Grows, TooLong
  <2>3. EveryMessage'
    BY <1>3, <1>4, <1>5, <1>10, <2>2 DEF EveryMessage
  <2>4. PICK from \in 1..n : /\ Opened(given, from, n) /\ n - from + 1 = Len(partial)
                             /\ partial = SubSeq(given, from, n)
    BY <1>10, HeldIsOpen
  <2>5. SubSeq(given', from, n + 1) = longer
    <3>1. SubSeq(given', from, n + 1) = Append(SubSeq(given, from, n), byte)
      <4>1. from \in 1..Len(given') /\ Len(given') = Len(given) + 1
        BY <1>1
      <4>. QED BY <1>1, <4>1, SubSeqMore
    <3>. QED BY <2>4, <3>1
  <2>6. Len(longer) <= n + 1 /\ (n + 1) - Len(longer) + 1 = from
    BY <1>1, <2>1, <2>4
  <2>. HIDE DEF longer, n, byte
  <2>7. CASE Len(longer) > MaxMessage
    <3>1. partial' = <<>>
      BY <2>2, <2>7
    <3>2. ASSUME NEW i \in 1..n + 1, Opened(given', i, n + 1) PROVE (n + 1) - i >= MaxMessage
      <4>1. i \in 1..n /\ Opened(given, i, n)
        BY <1>6, <1>10, <3>2
      <4>2. i = from
        BY <1>1, <2>4, <4>1, OneIsOpen
      <4>. QED BY <1>1, <2>1, <2>4, <2>7, <4>2
    <3>. QED BY <1>1, <2>3, <3>1, <3>2 DEF Held
  <2>8. CASE ~(Len(longer) > MaxMessage)
    <3>1. partial' = longer
      BY <2>2, <2>8
    <3>. QED BY <1>1, <2>1, <2>3, <2>5, <2>6, <3>1 DEF Held
  <2>. QED BY <2>7, <2>8
<1>. QED BY <1>7, <1>8, <1>9, <1>10 DEF Folds
-----------------------------------------------------------------------------

\* Taking a byte of the chunk leaves a chunk and adds to what was given.
LEMMA TakesIsTyped ==
  ASSUME TypeOK, arrived # <<>>, Takes
  PROVE  /\ arrived' \in Seq(Bytes) /\ given' \in Seq(Bytes)
         /\ Head(arrived) \in Bytes
  BY DEF TypeOK, Takes

\* Adding a whole message to the messages leaves messages.
LEMMA OneMoreMessage ==
  ASSUME TypeOK, OnlyMessages, NEW m \in Seq(Bytes), IsMessage(m),
         whole' = Append(whole, m)
  PROVE  whole' \in Seq(Seq(Bytes)) /\ OnlyMessages'
<1>1. whole \in Seq(Seq(Bytes))
  BY DEF TypeOK
<1>2. /\ whole' \in Seq(Seq(Bytes)) /\ Len(whole') = Len(whole) + 1
      /\ \A k \in 1..Len(whole) : whole'[k] = whole[k]
      /\ whole'[Len(whole) + 1] = m
  BY <1>1
<1>3. \A k \in 1..Len(whole') : IsMessage(whole'[k])
  BY <1>1, <1>2 DEF OnlyMessages
<1> QED
  BY <1>2, <1>3 DEF OnlyMessages, IsMessage

\* Ending a partial message makes a message of it.
LEMMA EndMakesAMessage ==
  ASSUME TypeOK, Begun, partial # <<>>
  PROVE  Append(partial, End) \in Seq(Bytes) /\ IsMessage(Append(partial, End))
<1> DEFINE m == Append(partial, End)
<1>1. partial \in Seq(Bytes) /\ Len(partial) \in 1..MaxMessage
  BY DEF TypeOK
<1>2. /\ m \in Seq(Bytes) /\ Len(m) = Len(partial) + 1 /\ m[Len(m)] = End
      /\ \A k \in 1..Len(partial) : m[k] = partial[k]
  BY <1>1
<1> QED
  BY <1>1, <1>2 DEF IsMessage, Begun

\* The invariant is kept by every step.
LEMMA Inductive ==
  ASSUME IInv, [Next]_vars
  PROVE  IInv'
<1>1. CASE Arrives
  <2>1. arrived' \in Seq(Bytes)
    BY <1>1 DEF Arrives
  <2> QED
    BY <1>1, <2>1
    DEF Arrives, TypeOK, OnlyMessages, IsMessage, EveryMessage, Messages, EndingAt, Beginnings,
        Opened, Begun, Held
<1>2. CASE Folds
  <2> DEFINE byte == Head(arrived)
  <2>1. arrived' \in Seq(Bytes) /\ given' \in Seq(Bytes) /\ byte \in Bytes
    BY <1>2, TakesIsTyped DEF Folds
  <2>2. partial \in Seq(Bytes) /\ Len(partial) <= MaxMessage /\ whole \in Seq(Seq(Bytes))
    BY DEF TypeOK
  <2>7. EveryMessage' /\ Held'
    BY <1>2, FoldsAll
  <2>3. CASE Starts
    BY <2>1, <2>2, <2>3, <2>7 DEF Starts, TypeOK, OnlyMessages, IsMessage, Begun
  <2>4. CASE Dropped
    BY <2>1, <2>2, <2>4, <2>7 DEF Dropped, TypeOK, OnlyMessages, IsMessage, Begun
  <2>5. CASE partial # <<>> /\ Ends
    <3>1. whole' \in Seq(Seq(Bytes)) /\ OnlyMessages'
      BY <2>5, EndMakesAMessage, OneMoreMessage DEF Ends
    <3> QED
      BY <2>1, <2>5, <2>7, <3>1 DEF Ends, TypeOK, Begun
  <2>6. CASE byte \notin {Start, End} /\ partial # <<>> /\ Grows(byte)
    <3> DEFINE longer == Append(partial, byte)
    <3>1. /\ longer \in Seq(Bytes) /\ Len(longer) = Len(partial) + 1
          /\ longer[Len(partial) + 1] = byte
          /\ \A k \in 1..Len(partial) : longer[k] = partial[k]
      BY <2>1, <2>2
    <3>2. whole' = whole /\ partial' = IF Len(longer) > MaxMessage THEN <<>> ELSE longer
      BY <2>6 DEF Grows, TooLong
    <3>3. byte \notin {Start, End} /\ Len(partial) \in Nat \ {0}
      BY <2>2, <2>6
    <3> HIDE DEF longer, byte
    <3>4. longer # <<>> /\ longer[1] = Start
      BY <2>6, <3>1, <3>3 DEF Begun
    <3>5. \A k \in 2..Len(longer) : longer[k] \notin Delimiters
      BY <2>6, <3>1, <3>3 DEF Begun, Delimiters
    <3>6. Begun'
      BY <3>2, <3>4, <3>5 DEF Begun, Delimiters
    <3>7. partial' \in Seq(Bytes) /\ Len(partial') <= MaxMessage
      BY <3>1, <3>2
    <3>8. TypeOK'
      BY <2>1, <2>2, <3>2, <3>7 DEF TypeOK, byte
    <3> QED
      BY <2>7, <3>2, <3>6, <3>8 DEF OnlyMessages, IsMessage
  <2> QED
    BY <1>2, <2>3, <2>4, <2>5, <2>6 DEF Folds
<1>3. CASE UNCHANGED vars
  BY <1>3
  DEF vars, TypeOK, OnlyMessages, IsMessage, EveryMessage, Messages, EndingAt, Beginnings,
      Opened, Begun, Held
<1> QED
  BY <1>1, <1>2, <1>3 DEF Next

LEMMA InitInv == Init => IInv
<1>. SUFFICES ASSUME Init PROVE IInv
  OBVIOUS
<1>1. TypeOK /\ OnlyMessages /\ Begun /\ Held
  BY DEF Init, TypeOK, OnlyMessages, Begun, Held
<1>2. Messages(<<>>) = <<>>
  <2>1. [j \in DOMAIN <<>> |-> EndingAt(<<>>, j)] = <<>>
    OBVIOUS
  <2>. QED BY <2>1, FlattenNone DEF Messages
<1>. QED BY <1>1, <1>2 DEF Init, EveryMessage

\* The inductive invariant holds throughout: it is there at the start and no
\* byte folded in disturbs it (framing.py:27, frame).
THEOREM Invariance == Spec => []IInv
<1>1. Init => IInv
  BY InitInv
<1>2. IInv /\ [Next]_vars => IInv'
  BY Inductive
<1> QED
  BY <1>1, <1>2, PTL DEF Spec

\* What is held for a client never passes the limit (framing.py:14-16).
THEOREM TypeCorrect == Spec => []TypeOK
<1>1. IInv => TypeOK
  OBVIOUS
<1> QED
  BY <1>1, Invariance, PTL

\* Nothing but a message reaches the device (framing.py:5-7).
THEOREM MessagesOnly == Spec => []OnlyMessages
<1>1. IInv => OnlyMessages
  OBVIOUS
<1> QED
  BY <1>1, Invariance, PTL

\* And every message that was typed does, once, in order and as it was typed,
\* whatever chunks its bytes came in (framing.py:27, frame).
THEOREM MessagesAll == Spec => []EveryMessage
<1>1. IInv => EveryMessage
  OBVIOUS
<1> QED
  BY <1>1, Invariance, PTL

\* What is in a chunk is no part of the invariant but for its type.
LEMMA ArrivesOnly ==
  ASSUME IInv, arrived' \in Seq(Bytes), UNCHANGED <<partial, whole, given>>
  PROVE  IInv'
BY DEF TypeOK, OnlyMessages, IsMessage, EveryMessage, Messages, EndingAt, Beginnings,
       Opened, Begun, Held

HIDE FramingAssumption DEF IInv

-----------------------------------------------------------------------------
(* A size, its digits and back.                                            *)

LEMMA Quotient ==
  ASSUME NEW x \in Nat, NEW p \in Nat, p > 0, NEW q \in Nat, q * p <= x, x < q * p + p
  PROVE  x \div p = q
<1>. DEFINE d == x \div p
<1>1. d \in Nat /\ d * p <= x /\ x < d * p + p
  OBVIOUS
<1>. HIDE DEF d
<1>2. ASSUME NEW a \in Nat, NEW b \in Nat, a < b, b * p <= x PROVE ~(x < a * p + p)
  <2>1. b * p >= (a + 1) * p
    BY <1>2
  <2>. QED BY <1>2, <2>1
<1>3. ~(d < q) /\ ~(q < d)
  BY <1>1, <1>2
<1>. QED BY <1>1, <1>3 DEF d

\* What two divisions come to is one by the product.
LEMMA DivTwice ==
  ASSUME NEW x \in Nat, NEW p \in Nat, p > 0, NEW b \in Nat, b > 0
  PROVE  x \div (b * p) = (x \div p) \div b
<1>. DEFINE d == x \div p
            q == d \div b
<1>1. d \in Nat /\ d * p <= x /\ x < d * p + p
  OBVIOUS
<1>. HIDE DEF d
<1>2. q \in Nat /\ q * b <= d /\ d < q * b + b
  BY <1>1
<1>. HIDE DEF q
<1>3. b * p \in Nat /\ b * p > 0
  OBVIOUS
<1>4. q * (b * p) <= x
  <2>1. (q * b) * p <= d * p
    BY <1>1, <1>2
  <2>. QED BY <1>1, <1>2, <2>1
<1>5. x < q * (b * p) + b * p
  <2>1. (d + 1) * p <= (q * b + b) * p
    BY <1>1, <1>2
  <2>. QED BY <1>1, <1>2, <2>1
<1>. QED BY <1>2, <1>3, <1>4, <1>5, Quotient DEF q, d

LEMMA DivMod ==
  ASSUME NEW x \in Nat, NEW b \in Nat, b > 0
  PROVE  b * (x \div b) + (x % b) = x /\ x \div b \in Nat
OBVIOUS

LEMMA Weights == \A k \in 0..Widths[2] : Weight[k] \in Nat /\ Weight[k] > 0
<1>. DEFINE P == {k \in Nat : k \in 0..Widths[2] => Weight[k] \in Nat /\ Weight[k] > 0}
<1>1. /\ Base \in Nat /\ Base > 1 /\ Widths[2] \in Nat /\ Weight[0] = 1
      /\ \A k \in 1..Widths[2] : Weight[k] = Base * Weight[k - 1]
  BY TypedAssumption DEF TypedAssumption
<1>2. 0 \in P
  BY <1>1
<1>3. ASSUME NEW k \in Nat, k \in P PROVE k + 1 \in P
  <2>. SUFFICES ASSUME k + 1 \in 0..Widths[2] PROVE Weight[k + 1] \in Nat /\ Weight[k + 1] > 0
    OBVIOUS
  <2>1. k \in 0..Widths[2] /\ k + 1 \in 1..Widths[2] /\ (k + 1) - 1 = k
    BY <1>1
  <2>2. Weight[k] \in Nat /\ Weight[k] > 0
    BY <1>3, <2>1
  <2>3. Weight[k + 1] = Base * Weight[k]
    BY <1>1, <2>1
  <2>. QED BY <1>1, <2>2, <2>3
<1>. HIDE DEF P
<1>4. \A k \in Nat : k \in P
  BY <1>2, <1>3, Induction
<1>. QED BY <1>4 DEF P

\* `upTo` is the recursive function Number takes the last value of.
UpTo(upTo, digits) ==
  upTo = [i \in 0..Len(digits) |-> IF i = 0 THEN 0 ELSE Base * upTo[i - 1] + digits[i]]

LEMMA UpToAgree ==
  ASSUME NEW digits, Len(digits) \in Nat, NEW f, NEW g, UpTo(f, digits), UpTo(g, digits)
  PROVE  f = g
<1>1. PICK w \in Nat : w = Len(digits)
  OBVIOUS
<1>2. /\ \A i \in 0..w : f[i] = IF i = 0 THEN 0 ELSE Base * f[i - 1] + digits[i]
      /\ \A i \in 0..w : g[i] = IF i = 0 THEN 0 ELSE Base * g[i - 1] + digits[i]
  BY <1>1, Zenon DEF UpTo
<1>. DEFINE P == {n \in Nat : n \in 0..w => f[n] = g[n]}
<1>3. 0 \in P
  BY <1>2
<1>4. ASSUME NEW n \in Nat, n \in P PROVE n + 1 \in P
  <2>. SUFFICES ASSUME n + 1 \in 0..w PROVE f[n + 1] = g[n + 1]
    OBVIOUS
  <2>1. n \in 0..w /\ n + 1 # 0 /\ (n + 1) - 1 = n
    OBVIOUS
  <2>2. f[n] = g[n]
    BY <1>4, <2>1
  <2>3. f[n + 1] = Base * f[(n + 1) - 1] + digits[n + 1]
    BY <1>2, <2>1
  <2>4. g[n + 1] = Base * g[(n + 1) - 1] + digits[n + 1]
    BY <1>2, <2>1
  <2>. QED BY <2>1, <2>2, <2>3, <2>4
<1>. HIDE DEF P
<1>5. \A n \in Nat : n \in P
  BY <1>3, <1>4, Induction
<1>6. \A n \in 0..w : f[n] = g[n]
  BY <1>5 DEF P
<1>7. f = [i \in 0..w |-> f[i]] /\ g = [i \in 0..w |-> g[i]]
  BY <1>1 DEF UpTo
<1>. QED BY <1>6, <1>7, Zenon

LEMMA NumberIs ==
  ASSUME NEW digits, Len(digits) \in Nat, NEW f, UpTo(f, digits)
  PROVE  Number(digits) = f[Len(digits)]
<1>1. \A g : UpTo(g, digits) => g = f
  BY UpToAgree
<1>2. f = CHOOSE g : UpTo(g, digits)
  BY <1>1
<1>. QED BY <1>2, Zenon DEF Number, UpTo

\* The digits of a size that they are enough for say it.
LEMMA DigitsSay ==
  ASSUME NEW w \in 0..Widths[2], NEW size \in Nat, size < Weight[w]
  PROVE  /\ Digits(size, w) \in Seq(Nat) /\ Len(Digits(size, w)) = w
         /\ Number(Digits(size, w)) = size
<1>. DEFINE digits == Digits(size, w)
            f == [i \in 0..w |-> size \div Weight[w - i]]
<1>1. /\ Base \in Nat /\ Base > 1 /\ Widths[2] \in Nat /\ w \in Nat /\ Weight[0] = 1
      /\ \A k \in 1..Widths[2] : Weight[k] = Base * Weight[k - 1]
  BY TypedAssumption DEF TypedAssumption
<1>2. \A i \in 0..w : /\ w - i \in 0..Widths[2] /\ Weight[w - i] \in Nat /\ Weight[w - i] > 0
                      /\ f[i] = size \div Weight[w - i] /\ f[i] \in Nat
  <2>. SUFFICES ASSUME NEW i \in 0..w
                PROVE  /\ w - i \in 0..Widths[2] /\ Weight[w - i] \in Nat /\ Weight[w - i] > 0
                       /\ f[i] = size \div Weight[w - i] /\ f[i] \in Nat
    OBVIOUS
  <2>1. w - i \in 0..Widths[2]
    BY <1>1
  <2>2. Weight[w - i] \in Nat /\ Weight[w - i] > 0
    BY <2>1, Weights
  <2>3. size \div Weight[w - i] \in Nat
    BY <2>2, DivMod
  <2>. QED BY <2>1, <2>2, <2>3
<1>3. \A i \in 1..w : /\ digits[i] = (size \div Weight[w - i]) % Base
                      /\ digits[i] \in Nat
  <2>. SUFFICES ASSUME NEW i \in 1..w
                PROVE  /\ digits[i] = (size \div Weight[w - i]) % Base
                       /\ digits[i] \in Nat
    OBVIOUS
  <2>1. digits[i] = (size \div Weight[w - i]) % Base
    BY DEF Digits
  <2>2. size \div Weight[w - i] \in Nat
    BY <1>2
  <2>. QED BY <1>1, <2>1, <2>2
<1>4. digits = [i \in 1..w |-> digits[i]]
  BY DEF Digits
<1>. HIDE DEF digits
<1>5. digits \in Seq(Nat) /\ Len(digits) = w
  <2>1. digits \in [1..w -> Nat]
    BY <1>3, <1>4
  <2>2. digits \in Seq(Nat)
    BY <1>1, <2>1, SeqDef
  <2>. QED BY <1>1, <2>1, <2>2
<1>6. f[0] = 0
  <2>1. f[0] = size \div Weight[w] /\ Weight[w] \in Nat /\ Weight[w] > 0
    <3>1. 0 \in 0..w /\ w - 0 = w
      BY <1>1
    <3>. QED BY <1>2, <3>1
  <2>. QED BY <2>1, Quotient
<1>7. \A i \in 1..w : f[i] = Base * f[i - 1] + digits[i]
  <2>. SUFFICES ASSUME NEW i \in 1..w PROVE f[i] = Base * f[i - 1] + digits[i]
    OBVIOUS
  <2>1. i \in 0..w /\ i - 1 \in 0..w /\ w - (i - 1) = (w - i) + 1 /\ (w - i) + 1 \in 1..Widths[2]
        /\ ((w - i) + 1) - 1 = w - i
    BY <1>1
  <2>2. Weight[w - (i - 1)] = Base * Weight[w - i]
    BY <1>1, <2>1
  <2>3. f[i - 1] = size \div (Base * Weight[w - i])
    BY <1>2, <2>1, <2>2
  <2>4. f[i] = size \div Weight[w - i] /\ f[i] \in Nat /\ Weight[w - i] \in Nat /\ Weight[w - i] > 0
    BY <1>2, <2>1
  <2>. HIDE DEF f
  <2>5. f[i - 1] = f[i] \div Base
    BY <1>1, <2>3, <2>4, DivTwice
  <2>6. digits[i] = f[i] % Base
    BY <1>3, <2>4
  <2>. QED BY <1>1, <2>4, <2>5, <2>6, DivMod
<1>8. f[w] = size
  <2>1. w \in 0..w /\ w - w = 0
    BY <1>1
  <2>2. f[w] = size \div 1
    BY <1>1, <1>2, <2>1
  <2>. QED BY <2>2
<1>9. UpTo(f, digits)
  <2>1. f = [i \in 0..w |-> f[i]]
    OBVIOUS
  <2>2. \A i \in 0..w : f[i] = IF i = 0 THEN 0 ELSE Base * f[i - 1] + digits[i]
    <3>. HIDE DEF f
    <3>. QED BY <1>6, <1>7
  <2>. HIDE DEF f
  <2>3. f = [i \in 0..w |-> IF i = 0 THEN 0 ELSE Base * f[i - 1] + digits[i]]
    BY <2>1, <2>2, Zenon
  <2>. QED BY <1>5, <2>3 DEF UpTo
<1>. HIDE DEF f
<1>10. Number(digits) = f[w]
  BY <1>1, <1>5, <1>9, NumberIs
<1>. QED BY <1>5, <1>8, <1>10 DEF digits

-----------------------------------------------------------------------------
(* A frame and its bytes.                                                  *)

Opcodes == {"data", "odd", "ping", "pong", "close"}

WireBytes ==
  [fin : BOOLEAN, reserved : BOOLEAN, opcode : Opcodes] \cup [masked : BOOLEAN, form : Nat]
    \cup Nat \cup ToSet(Keys) \cup [byte : Bytes, key : ToSet(Keys)]

Frames ==
  {f \in [opcode : Opcodes, payload : Seq(Bytes), fin : BOOLEAN, reserved : BOOLEAN,
          masked : BOOLEAN] : Len(f.payload) < Weight[Widths[2]]}

\* The form of a size is of its own byte, or of as many digits as it takes.
LEMMA FormIs ==
  ASSUME NEW size \in Nat, size < Weight[Widths[2]], NEW w, w = Width(Form(size))
  PROVE  /\ Form(size) \in Nat /\ w \in 0..Widths[2]
         /\ w = 0 => Form(size) = size
         /\ size < Weight[w] \/ w = 0
<1>1. /\ MaxControl \in Nat /\ Widths[1] \in Nat /\ Widths[1] > 0 /\ Widths[2] \in Nat
      /\ Widths[2] > 0 /\ Widths[1] <= Widths[2]
  BY TypedAssumption DEF TypedAssumption
<1>2. CASE size <= MaxControl
  <2>1. Form(size) = size /\ Form(size) # TwoBytes /\ Form(size) # EightBytes
    BY <1>1, <1>2 DEF Form, TwoBytes, EightBytes
  <2>2. w = 0
    BY <2>1 DEF Width
  <2>. QED BY <1>1, <2>1, <2>2
<1>3. CASE size > MaxControl /\ size < Weight[Widths[1]]
  <2>1. Form(size) = TwoBytes /\ TwoBytes \in Nat /\ TwoBytes # EightBytes
    BY <1>1, <1>3 DEF Form, TwoBytes, EightBytes
  <2>2. w = Widths[1]
    BY <2>1 DEF Width
  <2>. QED BY <1>1, <1>3, <2>1, <2>2
<1>4. CASE size > MaxControl /\ ~(size < Weight[Widths[1]])
  <2>1. Form(size) = EightBytes /\ EightBytes \in Nat /\ TwoBytes # EightBytes
    BY <1>1, <1>4 DEF Form, TwoBytes, EightBytes
  <2>2. w = Widths[2]
    BY <2>1 DEF Width
  <2>. QED BY <1>1, <2>1, <2>2
<1>. QED BY <1>1, <1>2, <1>3, <1>4

LEMMA KeysAre ==
  /\ Keys \in Seq(ToSet(Keys)) /\ Len(Keys) \in Nat /\ Len(Keys) > 0
  /\ \A i \in Nat \ {0} : KeyOf(i) \in ToSet(Keys)
<1>1. Keys \in Seq(ToSet(Keys)) /\ Keys # <<>>
  BY TypedAssumption DEF TypedAssumption
<1>2. Len(Keys) \in Nat /\ Len(Keys) > 0
  BY <1>1
<1>3. ASSUME NEW i \in Nat \ {0} PROVE KeyOf(i) \in ToSet(Keys)
  <2>1. ((i - 1) % Len(Keys)) + 1 \in 1..Len(Keys)
    BY <1>2
  <2>. QED BY <1>1, <2>1 DEF KeyOf
<1>. QED BY <1>1, <1>2, <1>3

\* What two have where.
Joined(all, a, b) ==
  /\ Len(all) = Len(a) + Len(b)
  /\ \A i \in 1..Len(a) : all[i] = a[i]
  /\ \A i \in 1..Len(b) : all[Len(a) + i] = b[i]

LEMMA TwoParts ==
  ASSUME NEW T, NEW a \in Seq(T), NEW b \in Seq(T)
  PROVE  a \o b \in Seq(T) /\ Joined(a \o b, a, b)
BY DEF Joined

\* What four sequences after one another have where.
Spelled(all, a, b, c, d) ==
  /\ Len(all) = Len(a) + Len(b) + Len(c) + Len(d)
  /\ \A i \in 1..Len(a) : all[i] = a[i]
  /\ \A i \in 1..Len(b) : all[Len(a) + i] = b[i]
  /\ \A i \in 1..Len(d) : all[Len(a) + Len(b) + Len(c) + i] = d[i]

LEMMA FourParts ==
  ASSUME NEW T, NEW a \in Seq(T), NEW b \in Seq(T), NEW c \in Seq(T), NEW d \in Seq(T)
  PROVE  ((a \o b) \o c) \o d \in Seq(T) /\ Spelled(((a \o b) \o c) \o d, a, b, c, d)
<1>. DEFINE ab == a \o b
            abc == ab \o c
            all == abc \o d
<1>1. ab \in Seq(T) /\ Joined(ab, a, b)
  BY TwoParts
<1>. HIDE DEF ab
<1>2. abc \in Seq(T) /\ Joined(abc, ab, c)
  BY <1>1, TwoParts
<1>. HIDE DEF abc
<1>3. all \in Seq(T) /\ Joined(all, abc, d)
  BY <1>2, TwoParts
<1>. HIDE DEF all
<1>4. Len(a) \in Nat /\ Len(b) \in Nat /\ Len(c) \in Nat /\ Len(d) \in Nat
  OBVIOUS
<1>5. Len(ab) = Len(a) + Len(b) /\ Len(abc) = Len(a) + Len(b) + Len(c)
  BY <1>1, <1>2, <1>4 DEF Joined
<1>6. ASSUME NEW i \in 1..Len(a) PROVE all[i] = a[i]
  <2>1. i \in 1..Len(ab) /\ i \in 1..Len(abc)
    BY <1>4, <1>5
  <2>. QED BY <1>1, <1>2, <1>3, <2>1 DEF Joined
<1>7. ASSUME NEW i \in 1..Len(b) PROVE all[Len(a) + i] = b[i]
  <2>1. Len(a) + i \in 1..Len(ab) /\ Len(a) + i \in 1..Len(abc)
    BY <1>4, <1>5
  <2>. QED BY <1>1, <1>2, <1>3, <2>1 DEF Joined
<1>8. Len(all) = Len(a) + Len(b) + Len(c) + Len(d)
  BY <1>3, <1>5 DEF Joined
<1>9. Spelled(all, a, b, c, d)
  BY <1>3, <1>5, <1>6, <1>7, <1>8 DEF Spelled, Joined
<1>. QED BY <1>3, <1>9 DEF all, abc, ab

\* A frame's bytes, part by part, when its size is in `w` digits.
Written(f, size, form, w, n) ==
  /\ Encoded(f) \in Seq(WireBytes) /\ Len(Encoded(f)) = n + size
  /\ Encoded(f)[1] = [fin |-> f.fin, reserved |-> f.reserved, opcode |-> f.opcode]
  /\ Encoded(f)[2] = [masked |-> f.masked, form |-> form]
  /\ \A i \in 1..w : Encoded(f)[2 + i] = Digits(size, w)[i]
  /\ \A i \in 1..size : Encoded(f)[n + i] = [byte |-> f.payload[i], key |-> KeyOf(i)]

LEMMA EncodedIs ==
  ASSUME NEW f \in Frames, NEW size, size = Len(f.payload),
         NEW form, form = Form(size), NEW w, w = Width(form), NEW n, n = 2 + w + Len(Keys)
  PROVE  Written(f, size, form, w, n)
<1>. DEFINE head == <<[fin |-> f.fin, reserved |-> f.reserved, opcode |-> f.opcode],
                      [masked |-> f.masked, form |-> form]>>
            masks == [i \in 1..size |-> [byte |-> f.payload[i], key |-> KeyOf(i)]]
            digits == Digits(size, w)
<1>1. /\ f \in [opcode : Opcodes, payload : Seq(Bytes), fin : BOOLEAN, reserved : BOOLEAN,
                masked : BOOLEAN]
      /\ size \in Nat /\ size < Weight[Widths[2]] /\ f.payload \in Seq(Bytes)
  BY DEF Frames
<1>2. form \in Nat /\ w \in 0..Widths[2] /\ Widths[2] \in Nat /\ (size < Weight[w] \/ w = 0)
  BY <1>1, FormIs, TypedAssumption DEF TypedAssumption
<1>3. head \in Seq(WireBytes) /\ Len(head) = 2 /\ head[1] = [fin |-> f.fin, reserved |-> f.reserved, opcode |-> f.opcode]
      /\ head[2] = [masked |-> f.masked, form |-> form]
  <2>1. [fin |-> f.fin, reserved |-> f.reserved, opcode |-> f.opcode]
          \in [fin : BOOLEAN, reserved : BOOLEAN, opcode : Opcodes]
    BY <1>1
  <2>2. [masked |-> f.masked, form |-> form] \in [masked : BOOLEAN, form : Nat]
    BY <1>1, <1>2
  <2>. HIDE DEF WireBytes
  <2>3. /\ [fin |-> f.fin, reserved |-> f.reserved, opcode |-> f.opcode] \in WireBytes
        /\ [masked |-> f.masked, form |-> form] \in WireBytes
    BY <2>1, <2>2 DEF WireBytes
  <2>. QED BY <2>3
<1>4. masks \in Seq(WireBytes) /\ Len(masks) = size
      /\ \A i \in 1..size : masks[i] = [byte |-> f.payload[i], key |-> KeyOf(i)]
  <2>1. \A i \in 1..size : [byte |-> f.payload[i], key |-> KeyOf(i)] \in [byte : Bytes, key : ToSet(Keys)]
    BY <1>1, KeysAre
  <2>2. \A i \in 1..size : [byte |-> f.payload[i], key |-> KeyOf(i)] \in WireBytes
    BY <2>1 DEF WireBytes
  <2>. QED BY <1>1, <2>2
<1>5. digits \in Seq(WireBytes) /\ Len(digits) = w
  <2>1. digits \in Seq(Nat) /\ Len(digits) = w
    <3>1. CASE size < Weight[w]
      BY <1>1, <1>2, <3>1, DigitsSay
    <3>2. CASE w = 0
      BY <3>2 DEF Digits
    <3>. QED BY <1>2, <3>1, <3>2
  <2>2. Nat \subseteq WireBytes
    BY DEF WireBytes
  <2>. QED BY <2>1, <2>2, SeqMonotonic
<1>6. Keys \in Seq(WireBytes) /\ Len(Keys) \in Nat
  <2>1. ToSet(Keys) \subseteq WireBytes
    BY DEF WireBytes
  <2>. QED BY <2>1, KeysAre, SeqMonotonic
<1>7. Encoded(f) = head \o digits \o Keys \o masks
  BY DEF Encoded
<1>. HIDE DEF head, masks, digits
<1>8. /\ Encoded(f) \in Seq(WireBytes) /\ Len(Encoded(f)) = 2 + w + Len(Keys) + size
      /\ \A i \in 1..2 : Encoded(f)[i] = head[i]
      /\ \A i \in 1..w : Encoded(f)[2 + i] = digits[i]
      /\ \A i \in 1..size : Encoded(f)[2 + w + Len(Keys) + i] = masks[i]
  <2>1. Encoded(f) \in Seq(WireBytes) /\ Spelled(Encoded(f), head, digits, Keys, masks)
    BY <1>3, <1>4, <1>5, <1>6, <1>7, FourParts
  <2>. QED BY <1>3, <1>4, <1>5, <2>1 DEF Spelled
<1>. QED BY <1>3, <1>4, <1>8 DEF digits, Written

\* Two that are the same as far as both go.
Meet(s, t) == \A i \in 1..Len(s) : i <= Len(t) => s[i] = t[i]

LEMMA MeetOfWhole ==
  ASSUME NEW T, NEW a \in Seq(T), NEW b \in Seq(T), NEW c \in Seq(T), NEW d \in Seq(T),
         a \o b = c \o d
  PROVE  Meet(a, c)
<1>. SUFFICES ASSUME NEW i \in 1..Len(a), i <= Len(c) PROVE a[i] = c[i]
  BY DEF Meet
<1>1. Joined(a \o b, a, b) /\ Joined(c \o d, c, d)
  BY TwoParts
<1>2. i \in 1..Len(c)
  OBVIOUS
<1>3. (a \o b)[i] = a[i] /\ (c \o d)[i] = c[i]
  BY <1>1, <1>2 DEF Joined
<1>. QED BY <1>3

\* What a frame's bytes come to, as far as they are there: no more than it is
\* waited for, and when all of it is there it is the frame.
LEMMA Received ==
  ASSUME NEW f \in Frames, NEW data \in Seq(WireBytes), Meet(data, Encoded(f))
  PROVE  /\ Len(Encoded(f)) \in Nat /\ Len(Encoded(f)) >= 2
         /\ Verdict(data) = "more" => Len(data) < Len(Encoded(f))
         /\ Verdict(data) = "frame" =>
              /\ Readable(f) /\ Len(Encoded(f)) <= Len(data)
              /\ At(data) + Len(Keys) + Size(data) = Len(Encoded(f))
              /\ data[1].opcode = f.opcode /\ Payload(data) = f.payload
<1>. DEFINE e == Encoded(f)
<1>1. PICK size \in Nat : size = Len(f.payload) /\ f.payload \in Seq(Bytes)
  BY DEF Frames
<1>2. size < Weight[Widths[2]]
  BY <1>1 DEF Frames
<1>3. PICK form \in Nat : form = Form(size)
  BY <1>2, FormIs
<1>4. PICK w \in 0..Widths[2] : /\ w = Width(form) /\ (w = 0 => form = size)
                                /\ (size < Weight[w] \/ w = 0)
  BY <1>2, <1>3, FormIs
<1>5. w \in Nat /\ Len(Keys) \in Nat /\ Len(data) \in Nat
  BY KeysAre, TypedAssumption DEF TypedAssumption
<1>6. PICK n \in Nat : n = 2 + w + Len(Keys)
  BY <1>5
<1>7. /\ e \in Seq(WireBytes) /\ Len(e) = n + size
      /\ e[1] = [fin |-> f.fin, reserved |-> f.reserved, opcode |-> f.opcode]
      /\ e[2] = [masked |-> f.masked, form |-> form]
      /\ \A i \in 1..w : e[2 + i] = Digits(size, w)[i]
      /\ \A i \in 1..size : e[n + i] = [byte |-> f.payload[i], key |-> KeyOf(i)]
  <2>1. Written(f, Len(f.payload), Form(Len(f.payload)), Width(Form(Len(f.payload))),
                2 + Width(Form(Len(f.payload))) + Len(Keys))
    BY EncodedIs
  <2>2. Written(f, size, form, w, n)
    BY <1>1, <1>3, <1>4, <1>6, <2>1
  <2>. QED BY <2>2 DEF Written
<1>. HIDE DEF e
<1>8. \A i \in 1..Len(data) : i <= n + size => data[i] = e[i]
  BY <1>7 DEF Meet, e
<1>9. n + size >= 2 /\ n + size \in Nat
  BY <1>5, <1>6
<1>10. ASSUME Len(data) >= 2
       PROVE  /\ data[1].reserved = f.reserved /\ data[1].opcode = f.opcode /\ data[1].fin = f.fin
              /\ data[2].masked = f.masked /\ data[2].form = form /\ At(data) = 2 + w
  <2>1. data[1] = e[1] /\ data[2] = e[2]
    BY <1>5, <1>8, <1>9, <1>10
  <2>. QED BY <1>4, <1>7, <2>1 DEF At
<1>11. ASSUME Len(data) >= 2, Len(data) >= 2 + w
       PROVE  Size(data) = size
  <2>1. data[2].form = form /\ At(data) = 2 + w
    BY <1>10, <1>11
  <2>2. CASE w = 0
    BY <1>4, <2>1, <2>2 DEF Size
  <2>3. CASE w # 0
    <3>1. /\ Digits(size, w) \in Seq(Nat) /\ Len(Digits(size, w)) = w
          /\ Number(Digits(size, w)) = size
      BY <1>4, <2>3, DigitsSay
    <3>2. SubSeq(data, 3, 2 + w) = Digits(size, w)
      <4>1. \A i \in 1..w : data[2 + i] = Digits(size, w)[i]
        <5>. SUFFICES ASSUME NEW i \in 1..w PROVE data[2 + i] = Digits(size, w)[i]
          OBVIOUS
        <5>1. 2 + i \in 1..Len(data) /\ 2 + i <= n + size
          BY <1>5, <1>6, <1>11
        <5>. QED BY <1>7, <1>8, <5>1
      <4>2. SubSeq(data, 3, 2 + w) = [i \in 1..w |-> data[2 + i]]
        BY <1>5
      <4>3. Digits(size, w) = [i \in 1..w |-> Digits(size, w)[i]]
        BY DEF Digits
      <4>. QED BY <4>1, <4>2, <4>3
    <3>. QED BY <1>4, <2>1, <2>3, <3>1, <3>2 DEF Size
  <2>. QED BY <2>2, <2>3
<1>12. ASSUME Verdict(data) = "more" PROVE Len(data) < n + size
  <2>1. CASE Len(data) < 2
    BY <1>5, <1>9, <2>1
  <2>2. CASE Len(data) >= 2 /\ Len(data) < 2 + w
    BY <1>5, <1>6, <2>2
  <2>3. CASE Len(data) >= 2 /\ Len(data) >= 2 + w
    <3>1. At(data) = 2 + w /\ Size(data) = size
      BY <1>10, <1>11, <2>3
    <3>2. ~(Len(data) < 2) /\ ~(Len(data) < At(data))
      BY <1>5, <2>3, <3>1
    <3>3. ~Whole(data)
      BY <1>12, <3>2 DEF Verdict
    <3>. QED BY <1>5, <1>6, <3>1, <3>3 DEF Whole
  <2>. QED BY <1>5, <2>1, <2>2, <2>3
<1>13. ASSUME Verdict(data) = "frame"
       PROVE  /\ Readable(f) /\ n + size <= Len(data)
              /\ At(data) + Len(Keys) + Size(data) = n + size
              /\ data[1].opcode = f.opcode /\ Payload(data) = f.payload
  <2>1. /\ ~(Len(data) < 2) /\ ~(Len(data) < At(data)) /\ Whole(data)
        /\ ~data[1].reserved /\ data[2].masked /\ data[1].opcode \in {"data"} \cup Control
        /\ ~(data[1].opcode \in Control /\ (Size(data) > MaxControl \/ ~data[1].fin))
        /\ ~(Size(data) > MaxFrame)
    BY <1>13 DEF Verdict
  <2>2. Len(data) >= 2
    BY <1>5, <2>1
  <2>3. At(data) = 2 + w /\ Len(data) >= 2 + w
    BY <1>5, <1>10, <2>1, <2>2
  <2>4. Size(data) = size
    BY <1>11, <2>2, <2>3
  <2>5. n + size <= Len(data) /\ At(data) + Len(Keys) + Size(data) = n + size
    BY <1>5, <1>6, <2>1, <2>3, <2>4 DEF Whole
  <2>6. Readable(f)
    <3>1. MaxControl \in Nat /\ MaxFrame \in Nat
      BY TypedAssumption DEF TypedAssumption
    <3>2. ~f.reserved /\ f.masked /\ f.opcode \in {"data"} \cup Control
      BY <1>10, <2>1, <2>2
    <3>3. f.opcode \in Control => f.fin /\ ~(size > MaxControl)
      BY <1>10, <2>1, <2>2, <2>4
    <3>4. ~(size > MaxFrame)
      BY <2>1, <2>4
    <3>5. Len(f.payload) <= MaxFrame /\ (f.opcode \in Control => f.fin /\ Len(f.payload) <= MaxControl)
      BY <1>1, <3>1, <3>3, <3>4
    <3>. QED BY <3>2, <3>5 DEF Readable
  <2>7. Payload(data) = f.payload
    <3>1. ASSUME NEW i \in 1..size
          PROVE  Unmasked(data[At(data) + Len(Keys) + i], KeyOf(i)) = f.payload[i]
      <4>1. At(data) + Len(Keys) + i = n + i /\ n + i \in 1..Len(data) /\ n + i <= n + size
        BY <1>5, <1>6, <2>3, <2>5
      <4>2. data[n + i] = [byte |-> f.payload[i], key |-> KeyOf(i)]
        BY <1>7, <1>8, <4>1
      <4>. QED BY <4>1, <4>2 DEF Unmasked
    <3>2. f.payload = [i \in 1..size |-> f.payload[i]]
      <4>1. \A s \in Seq(Bytes) : s = [i \in 1..Len(s) |-> s[i]]
        OBVIOUS
      <4>. QED BY <1>1, <4>1
    <3>3. Payload(data) = [i \in 1..size |-> Unmasked(data[At(data) + Len(Keys) + i], KeyOf(i))]
      BY <2>4 DEF Payload
    <3>. QED BY <3>1, <3>2, <3>3
  <2>. QED BY <1>10, <2>2, <2>5, <2>6, <2>7
<1>. QED BY <1>7, <1>9, <1>12, <1>13 DEF e

-----------------------------------------------------------------------------
(* What a page sends and what it says, frame after frame.                  *)

\* The bytes of the first `k` frames of `s`.
Wired(s, k) == FlattenSeq([i \in 1..k |-> Encoded(s[i])])

\* What the `i`th says to the mirror, and what the first `k` do.
Entry(s, i) ==
  IF (\A j \in 1..i : Readable(s[j]) /\ s[j].opcode # "close") /\ s[i].opcode = "data"
  THEN s[i].payload ELSE <<>>
Says(s, k) == FlattenSeq([i \in 1..k |-> Entry(s, i)])

\* What a page or another peer sends is a frame whose size can be written.
LEMMA FramesTyped == Spoken \cup Garbled \subseteq Frames
<1>1. /\ MaxFrame \in Nat /\ MaxControl \in Nat /\ Weight[Widths[2]] \in Nat
      /\ MaxFrame + 1 < Weight[Widths[2]] /\ MaxControl + 1 < Weight[Widths[2]]
  <2>1. Widths[2] \in 0..Widths[2]
    BY TypedAssumption DEF TypedAssumption
  <2>. QED BY <2>1, Weights, TypedAssumption DEF TypedAssumption
<1>2. ASSUME NEW o \in Opcodes, NEW p \in Seq(Bytes), Len(p) <= MaxFrame + 1 \/ Len(p) <= MaxControl + 1
      PROVE  Frame(o, p) \in Frames
  <2>1. Len(p) < Weight[Widths[2]]
    BY <1>1, <1>2
  <2>2. /\ Frame(o, p) \in [opcode : Opcodes, payload : Seq(Bytes), fin : BOOLEAN,
                            reserved : BOOLEAN, masked : BOOLEAN]
        /\ Frame(o, p).payload = p
    BY DEF Frame
  <2>. QED BY <2>1, <2>2 DEF Frames
<1>8. ASSUME NEW f \in Frames
      PROVE  /\ [f EXCEPT !.masked = FALSE] \in Frames /\ [f EXCEPT !.reserved = TRUE] \in Frames
             /\ [f EXCEPT !.fin = FALSE] \in Frames
  BY DEF Frames
<1>3. ASSUME NEW p \in UNION {[1..n -> Bytes] : n \in 0..MaxFrame}
      PROVE  p \in Seq(Bytes) /\ Len(p) <= MaxFrame + 1
  <2>1. PICK n \in 0..MaxFrame : p \in [1..n -> Bytes]
    OBVIOUS
  <2>2. p \in Seq(Bytes) /\ Len(p) = n
    BY <1>1, <2>1, SeqDef
  <2>. QED BY <1>1, <2>2
<1>4. ASSUME NEW n \in Nat PROVE Long(n) \in Seq(Bytes) /\ Len(Long(n)) = n
  <2>1. Long(n) \in [1..n -> Bytes]
    BY FramingAssumption DEF Long, FramingAssumption
  <2>. QED BY <2>1, SeqDef
<1>5. /\ <<>> \in Seq(Bytes) /\ Len(<<>>) = 0 /\ <<Start>> \in Seq(Bytes) /\ Len(<<Start>>) = 1
      /\ Len(<<>>) <= MaxFrame + 1 /\ Len(<<Start>>) <= MaxFrame + 1
  BY <1>1, FramingAssumption DEF FramingAssumption
<1>9. \A o \in {"data", "odd", "ping", "pong", "close"} : o \in Opcodes
  BY DEF Opcodes
<1>6. Spoken \subseteq Frames
  <2>1. ASSUME NEW p \in UNION {[1..n -> Bytes] : n \in 0..MaxFrame} PROVE Frame("data", p) \in Frames
    BY <1>2, <1>3, <1>9, Zenon
  <2>2. ASSUME NEW o \in {"ping", "pong", "close"} PROVE Frame(o, <<>>) \in Frames
    <3>1. o \in Opcodes
      BY <1>9
    <3>. QED BY <1>2, <1>5, <3>1, Zenon
  <2>. QED BY <2>1, <2>2 DEF Spoken
<1>7. Garbled \subseteq Frames
  <2>1. /\ Frame("data", <<Start>>) \in Frames /\ Frame("odd", <<>>) \in Frames
        /\ Frame("ping", <<>>) \in Frames
    BY <1>2, <1>5, <1>9, Zenon
  <2>2. Frame("data", Long(MaxFrame + 1)) \in Frames /\ Frame("ping", Long(MaxControl + 1)) \in Frames
    <3>1. /\ Long(MaxFrame + 1) \in Seq(Bytes) /\ Len(Long(MaxFrame + 1)) <= MaxFrame + 1
          /\ Long(MaxControl + 1) \in Seq(Bytes) /\ Len(Long(MaxControl + 1)) <= MaxControl + 1
      <4>1. MaxFrame + 1 \in Nat /\ MaxControl + 1 \in Nat
        BY <1>1
      <4>2. /\ Long(MaxFrame + 1) \in Seq(Bytes) /\ Len(Long(MaxFrame + 1)) = MaxFrame + 1
            /\ Long(MaxControl + 1) \in Seq(Bytes) /\ Len(Long(MaxControl + 1)) = MaxControl + 1
        BY <1>4, <4>1, Zenon
      <4>. QED BY <4>1, <4>2
    <3>. QED BY <1>2, <1>9, <3>1, Zenon
  <2>. QED BY <1>8, <2>1, <2>2 DEF Garbled
<1>. QED BY <1>6, <1>7

LEMMA EncodedTyped ==
  ASSUME NEW f \in Frames PROVE Encoded(f) \in Seq(WireBytes) /\ Len(Encoded(f)) >= 2
<1>1. Encoded(f) \in Seq(WireBytes)
  BY EncodedIs DEF Written
<1>2. Meet(<<>>, Encoded(f)) /\ <<>> \in Seq(WireBytes)
  BY DEF Meet
<1>. QED BY <1>1, <1>2, Received

LEMMA WiredTyped ==
  ASSUME NEW s \in Seq(Frames), NEW k \in 0..Len(s)
  PROVE  Wired(s, k) \in Seq(WireBytes) /\ Len(Wired(s, k)) \in Nat
<1>1. [i \in 1..k |-> Encoded(s[i])] \in Seq(Seq(WireBytes))
  <2>1. \A i \in 1..k : s[i] \in Frames
    OBVIOUS
  <2>2. [i \in 1..k |-> Encoded(s[i])] \in [1..k -> Seq(WireBytes)] /\ k \in Nat
    BY <2>1, EncodedTyped
  <2>. QED BY <2>2, SeqDef
<1>2. Wired(s, k) \in Seq(WireBytes)
  BY <1>1, FlattenTyped DEF Wired
<1>. QED BY <1>2

LEMMA WiredNone == ASSUME NEW s PROVE Wired(s, 0) = <<>>
<1>1. [i \in 1..0 |-> Encoded(s[i])] = <<>>
  OBVIOUS
<1>. QED BY <1>1, FlattenNone DEF Wired

LEMMA WiredMore ==
  ASSUME NEW s \in Seq(Frames), NEW k \in Nat, k + 1 \in 1..Len(s)
  PROVE  Wired(s, k + 1) = Wired(s, k) \o Encoded(s[k + 1])
<1>. DEFINE a == [i \in 1..k |-> Encoded(s[i])]
            b == [i \in 1..k + 1 |-> Encoded(s[i])]
<1>1. \A i \in 1..k + 1 : Encoded(s[i]) \in Seq(WireBytes)
  <2>1. \A i \in 1..k + 1 : s[i] \in Frames
    OBVIOUS
  <2>. QED BY <2>1, EncodedTyped
<1>2. a \in [1..k -> Seq(WireBytes)] /\ b \in [1..k + 1 -> Seq(WireBytes)]
  BY <1>1
<1>3. /\ a \in Seq(Seq(WireBytes)) /\ b \in Seq(Seq(WireBytes)) /\ Len(b) = Len(a) + 1
      /\ Len(b) = k + 1
  BY <1>2, SeqDef
<1>4. \A i \in 1..Len(a) : a[i] = b[i]
  BY <1>2, <1>3
<1>5. b[k + 1] = Encoded(s[k + 1])
  OBVIOUS
<1>. HIDE DEF a, b
<1>6. FlattenSeq(b) = FlattenSeq(a) \o b[Len(b)]
  BY <1>3, <1>4, FlattenMore
<1>. QED BY <1>3, <1>5, <1>6 DEF Wired, a, b

LEMMA WiredSame ==
  ASSUME NEW s \in Seq(Frames), NEW t \in Seq(Frames), NEW k \in Nat, k <= Len(s), k <= Len(t),
         \A i \in 1..k : s[i] = t[i]
  PROVE  Wired(s, k) = Wired(t, k)
<1>1. [i \in 1..k |-> Encoded(s[i])] = [i \in 1..k |-> Encoded(t[i])]
  OBVIOUS
<1>. QED BY <1>1 DEF Wired

\* What follows.
Behind(T, a, c) == \E b \in Seq(T) : c = a \o b

LEMMA BehindTwice ==
  ASSUME NEW T, NEW a \in Seq(T), NEW b \in Seq(T), NEW c \in Seq(T), Behind(T, a, b), Behind(T, b, c)
  PROVE  Behind(T, a, c)
<1>1. PICK x \in Seq(T) : b = a \o x
  BY DEF Behind
<1>2. PICK y \in Seq(T) : c = b \o y
  BY DEF Behind
<1>3. x \o y \in Seq(T) /\ c = a \o (x \o y)
  BY <1>1, <1>2
<1>. QED BY <1>3 DEF Behind

LEMMA WiredBehind ==
  ASSUME NEW s \in Seq(Frames), NEW k \in 0..Len(s)
  PROVE  \A n \in Nat : k + n <= Len(s) => Behind(WireBytes, Wired(s, k), Wired(s, k + n))
<1>. DEFINE P == {n \in Nat : k + n <= Len(s) => Behind(WireBytes, Wired(s, k), Wired(s, k + n))}
<1>1. 0 \in P
  <2>1. Wired(s, k) \in Seq(WireBytes) /\ <<>> \in Seq(WireBytes) /\ Wired(s, k) = Wired(s, k) \o <<>>
    BY WiredTyped
  <2>2. k + 0 = k
    OBVIOUS
  <2>3. Behind(WireBytes, Wired(s, k), Wired(s, k))
    BY <2>1 DEF Behind
  <2>. QED BY <2>2, <2>3
<1>2. ASSUME NEW n \in Nat, n \in P PROVE n + 1 \in P
  <2>. SUFFICES ASSUME k + (n + 1) <= Len(s)
                PROVE  Behind(WireBytes, Wired(s, k), Wired(s, k + (n + 1)))
    OBVIOUS
  <2>1. k + n \in 0..Len(s) /\ (k + n) + 1 \in 1..Len(s) /\ k + (n + 1) = (k + n) + 1
        /\ (k + n) + 1 \in 0..Len(s)
    OBVIOUS
  <2>2. Behind(WireBytes, Wired(s, k), Wired(s, k + n))
    BY <1>2, <2>1
  <2>3. Wired(s, (k + n) + 1) = Wired(s, k + n) \o Encoded(s[(k + n) + 1])
    BY <2>1, WiredMore
  <2>4. Behind(WireBytes, Wired(s, k + n), Wired(s, (k + n) + 1))
    <3>1. s[(k + n) + 1] \in Frames
      BY <2>1
    <3>2. Encoded(s[(k + n) + 1]) \in Seq(WireBytes)
      BY <3>1, EncodedTyped
    <3>. QED BY <2>3, <3>2 DEF Behind
  <2>5. /\ Wired(s, k) \in Seq(WireBytes) /\ Wired(s, k + n) \in Seq(WireBytes)
        /\ Wired(s, (k + n) + 1) \in Seq(WireBytes)
    BY <2>1, WiredTyped
  <2>. QED BY <2>1, <2>2, <2>4, <2>5, BehindTwice
<1>. HIDE DEF P
<1>3. \A n \in Nat : n \in P
  BY <1>1, <1>2, Induction
<1>. QED BY <1>3 DEF P

LEMMA WiredTo ==
  ASSUME NEW s \in Seq(Frames), NEW k \in 0..Len(s)
  PROVE  Behind(WireBytes, Wired(s, k), Wired(s, Len(s)))
<1>1. Len(s) - k \in Nat /\ k + (Len(s) - k) = Len(s)
  OBVIOUS
<1>. QED BY <1>1, WiredBehind

LEMMA EntryTyped ==
  ASSUME NEW s \in Seq(Frames), NEW i \in 1..Len(s)
  PROVE  Entry(s, i) \in Seq(Bytes)
<1>1. s[i] \in Frames
  OBVIOUS
<1>2. s[i].payload \in Seq(Bytes) /\ <<>> \in Seq(Bytes)
  BY <1>1 DEF Frames
<1>. QED BY <1>2, Zenon DEF Entry

LEMMA SaysTyped ==
  ASSUME NEW s \in Seq(Frames), NEW k \in 0..Len(s)
  PROVE  Says(s, k) \in Seq(Bytes)
<1>1. [i \in 1..k |-> Entry(s, i)] \in Seq(Seq(Bytes))
  <2>1. [i \in 1..k |-> Entry(s, i)] \in [1..k -> Seq(Bytes)] /\ k \in Nat
    BY EntryTyped
  <2>. QED BY <2>1, SeqDef
<1>. QED BY <1>1, FlattenTyped DEF Says

LEMMA SaysNone == ASSUME NEW s PROVE Says(s, 0) = <<>>
<1>1. [i \in 1..0 |-> Entry(s, i)] = <<>>
  OBVIOUS
<1>. QED BY <1>1, FlattenNone DEF Says

LEMMA SaysMore ==
  ASSUME NEW s \in Seq(Frames), NEW k \in Nat, k + 1 \in 1..Len(s)
  PROVE  Says(s, k + 1) = Says(s, k) \o Entry(s, k + 1)
<1>. DEFINE a == [i \in 1..k |-> Entry(s, i)]
            b == [i \in 1..k + 1 |-> Entry(s, i)]
<1>1. \A i \in 1..k + 1 : Entry(s, i) \in Seq(Bytes)
  BY EntryTyped
<1>2. a \in [1..k -> Seq(Bytes)] /\ b \in [1..k + 1 -> Seq(Bytes)]
  BY <1>1
<1>3. /\ a \in Seq(Seq(Bytes)) /\ b \in Seq(Seq(Bytes)) /\ Len(b) = Len(a) + 1
      /\ Len(b) = k + 1
  BY <1>2, SeqDef
<1>4. \A i \in 1..Len(a) : a[i] = b[i]
  BY <1>2, <1>3
<1>5. b[k + 1] = Entry(s, k + 1)
  OBVIOUS
<1>. HIDE DEF a, b
<1>6. FlattenSeq(b) = FlattenSeq(a) \o b[Len(b)]
  BY <1>3, <1>4, FlattenMore
<1>. QED BY <1>3, <1>5, <1>6 DEF Says, a, b

LEMMA SaysSame ==
  ASSUME NEW s \in Seq(Frames), NEW t \in Seq(Frames), NEW k \in Nat, k <= Len(s), k <= Len(t),
         \A i \in 1..k : s[i] = t[i]
  PROVE  Says(s, k) = Says(t, k)
<1>1. \A i \in 1..k : Entry(s, i) = Entry(t, i)
  <2>. SUFFICES ASSUME NEW i \in 1..k PROVE Entry(s, i) = Entry(t, i)
    OBVIOUS
  <2>1. s[i] = t[i] /\ \A j \in 1..i : s[j] = t[j]
    OBVIOUS
  <2>. QED BY <2>1 DEF Entry
<1>2. [i \in 1..k |-> Entry(s, i)] = [i \in 1..k |-> Entry(t, i)]
  BY <1>1
<1>. QED BY <1>2 DEF Says

LEMMA SaysBehind ==
  ASSUME NEW s \in Seq(Frames), NEW k \in 0..Len(s)
  PROVE  \A n \in Nat : k + n <= Len(s) => Behind(Bytes, Says(s, k), Says(s, k + n))
<1>. DEFINE P == {n \in Nat : k + n <= Len(s) => Behind(Bytes, Says(s, k), Says(s, k + n))}
<1>1. 0 \in P
  <2>1. Says(s, k) \in Seq(Bytes) /\ <<>> \in Seq(Bytes) /\ Says(s, k) = Says(s, k) \o <<>>
    BY SaysTyped
  <2>2. k + 0 = k
    OBVIOUS
  <2>3. Behind(Bytes, Says(s, k), Says(s, k))
    BY <2>1 DEF Behind
  <2>. QED BY <2>2, <2>3
<1>2. ASSUME NEW n \in Nat, n \in P PROVE n + 1 \in P
  <2>. SUFFICES ASSUME k + (n + 1) <= Len(s)
                PROVE  Behind(Bytes, Says(s, k), Says(s, k + (n + 1)))
    OBVIOUS
  <2>1. k + n \in 0..Len(s) /\ (k + n) + 1 \in 1..Len(s) /\ k + (n + 1) = (k + n) + 1
        /\ (k + n) + 1 \in 0..Len(s)
    OBVIOUS
  <2>2. Behind(Bytes, Says(s, k), Says(s, k + n))
    BY <1>2, <2>1
  <2>3. Says(s, (k + n) + 1) = Says(s, k + n) \o Entry(s, (k + n) + 1)
    BY <2>1, SaysMore
  <2>4. Behind(Bytes, Says(s, k + n), Says(s, (k + n) + 1))
    <3>1. Entry(s, (k + n) + 1) \in Seq(Bytes)
      BY <2>1, EntryTyped
    <3>. QED BY <2>3, <3>1 DEF Behind
  <2>5. /\ Says(s, k) \in Seq(Bytes) /\ Says(s, k + n) \in Seq(Bytes)
        /\ Says(s, (k + n) + 1) \in Seq(Bytes)
    BY <2>1, SaysTyped
  <2>. QED BY <2>1, <2>2, <2>4, <2>5, BehindTwice
<1>. HIDE DEF P
<1>3. \A n \in Nat : n \in P
  BY <1>1, <1>2, Induction
<1>. QED BY <1>3 DEF P

LEMMA SaysTo ==
  ASSUME NEW s \in Seq(Frames), NEW k \in 0..Len(s)
  PROVE  Behind(Bytes, Says(s, k), Says(s, Len(s)))
<1>1. Len(s) - k \in Nat /\ k + (Len(s) - k) = Len(s)
  OBVIOUS
<1>. QED BY <1>1, SaysBehind

\* A prefix, and what is behind it.
LEMMA PrefixBehind ==
  ASSUME NEW T, NEW a \in Seq(T), NEW c \in Seq(T)
  PROVE  IsPrefix(a, c) <=> Behind(T, a, c)
<1>1. ASSUME NEW b \in Seq(T), c = a \o b PROVE IsPrefix(a, c)
  BY <1>1 DEF IsPrefix
<1>2. ASSUME IsPrefix(a, c) PROVE Behind(T, a, c)
  <2>. DEFINE b == SubSeq(c, Len(a) + 1, Len(c))
  <2>1. Len(a) \in 0..Len(c)
    BY <1>2 DEF IsPrefix
  <2>2. b \in Seq(T) /\ c = SubSeq(c, 1, Len(a)) \o b
    <3>1. SubSeq(c, 1, Len(a)) \o b = SubSeq(c, 1, Len(c))
      <4>1. /\ 1 \in 1..Len(c)+1 /\ Len(a) \in 1-1..Len(c) /\ Len(c) \in Len(a)..Len(c)
            /\ c \in Seq(T)
        BY <2>1
      <4>. HIDE DEF b
      <4>2. SubSeq(c, 1, Len(a)) \o SubSeq(c, Len(a) + 1, Len(c)) = SubSeq(c, 1, Len(c))
        BY ONLY <4>1, ConcatAdjacentSubSeq
      <4>. QED BY <4>2 DEF b
    <3>2. SubSeq(c, 1, Len(c)) = c
      OBVIOUS
    <3>3. \A j \in Len(a)+1..Len(c) : j \in 1..Len(c)
      BY <2>1
    <3>4. b \in Seq(T)
      BY <2>1
    <3>. QED BY <3>1, <3>2, <3>4
  <2>3. SubSeq(c, 1, Len(a)) = a
    <3>1. SubSeq(a, 1, Len(a)) = a
      OBVIOUS
    <3>. QED BY <1>2, <3>1 DEF IsPrefix
  <2>. QED BY <2>2, <2>3 DEF Behind
<1>. QED BY <1>1, <1>2 DEF Behind

-----------------------------------------------------------------------------
(* `unframed`, turn after turn.                                            *)

\* `f` is what it has after each turn.
Turns(f, data) ==
  f = [n \in 0..Len(data) |->
        IF n = 0 THEN [rest |-> data, frames |-> <<>>] ELSE Taken(f[n - 1])]

LEMMA SomeTurns ==
  ASSUME NEW start
  PROVE  \A m \in Nat : \E f : f = [n \in 0..m |-> IF n = 0 THEN start ELSE Taken(f[n - 1])]
<1>. DEFINE P == {m \in Nat :
                    \E f : f = [n \in 0..m |-> IF n = 0 THEN start ELSE Taken(f[n - 1])]}
<1>1. 0 \in P
  <2>. DEFINE f == [n \in 0..0 |-> start]
  <2>1. f = [n \in 0..0 |-> IF n = 0 THEN start ELSE Taken(f[n - 1])]
    OBVIOUS
  <2>. QED BY <2>1
<1>2. ASSUME NEW m \in Nat, m \in P PROVE m + 1 \in P
  <2>1. PICK g : g = [n \in 0..m |-> IF n = 0 THEN start ELSE Taken(g[n - 1])]
    BY <1>2
  <2>2. g[0] = start /\ \A n \in 1..m : g[n] = Taken(g[n - 1])
    BY <2>1
  <2>. DEFINE f == [n \in 0..m + 1 |-> IF n = m + 1 THEN Taken(g[m]) ELSE g[n]]
  <2>3. \A n \in 0..m + 1 : f[n] = IF n = 0 THEN start ELSE Taken(f[n - 1])
    <3>. TAKE n \in 0..m + 1
    <3>1. CASE n = 0
      BY <2>2, <3>1
    <3>2. CASE n \in 1..m
      <4>1. f[n] = g[n] /\ f[n - 1] = g[n - 1]
        BY <3>2
      <4>. QED BY <2>2, <3>2, <4>1
    <3>3. CASE n = m + 1
      <4>1. f[n] = Taken(g[m]) /\ f[n - 1] = g[m]
        BY <3>3
      <4>. QED BY <3>3, <4>1
    <3>. QED BY <3>1, <3>2, <3>3
  <2>4. f = [n \in 0..m + 1 |-> f[n]]
    OBVIOUS
  <2>. HIDE DEF f
  <2>5. f = [n \in 0..m + 1 |-> IF n = 0 THEN start ELSE Taken(f[n - 1])]
    BY <2>3, <2>4, Zenon
  <2>. QED BY <2>5
<1>. HIDE DEF P
<1>3. \A m \in Nat : m \in P
  BY <1>1, <1>2, Induction
<1>. QED BY <1>3 DEF P

LEMMA UnframedIs ==
  ASSUME NEW T, NEW data \in Seq(T)
  PROVE  \E f : /\ f[0] = [rest |-> data, frames |-> <<>>]
                /\ \A n \in Nat : n + 1 <= Len(data) => f[n + 1] = Taken(f[n])
                /\ Unframed(data) = [rest |-> f[Len(data)].rest, frames |-> f[Len(data)].frames,
                                     why |-> Verdict(f[Len(data)].rest)]
<1>. DEFINE f == CHOOSE g : Turns(g, data)
<1>1. \E g : Turns(g, data)
  <2>1. Len(data) \in Nat
    OBVIOUS
  <2>. QED BY <2>1, SomeTurns, Zenon DEF Turns
<1>2. Turns(f, data)
  BY <1>1, Zenon
<1>3. Unframed(data) = [rest |-> f[Len(data)].rest, frames |-> f[Len(data)].frames,
                        why |-> Verdict(f[Len(data)].rest)]
  BY Zenon DEF Unframed, Turns
<1>. HIDE DEF f
<1>4. f[0] = [rest |-> data, frames |-> <<>>]
  BY <1>2 DEF Turns
<1>5. \A n \in Nat : n + 1 <= Len(data) => f[n + 1] = Taken(f[n])
  <2>. SUFFICES ASSUME NEW n \in Nat, n + 1 <= Len(data) PROVE f[n + 1] = Taken(f[n])
    OBVIOUS
  <2>1. n + 1 \in 0..Len(data) /\ n + 1 # 0 /\ (n + 1) - 1 = n
    OBVIOUS
  <2>2. f[n + 1] = Taken(f[(n + 1) - 1])
    BY <1>2, <2>1, Zenon DEF Turns
  <2>. QED BY <2>1, <2>2
<1>. QED BY <1>3, <1>4, <1>5

LEMMA Cancel ==
  ASSUME NEW T, NEW a \in Seq(T), NEW x \in Seq(T), NEW y \in Seq(T), a \o x = a \o y
  PROVE  x = y
<1>1. Joined(a \o x, a, x) /\ Joined(a \o y, a, y)
  BY TwoParts
<1>2. Len(a) \in Nat /\ Len(x) \in Nat /\ Len(y) \in Nat
  OBVIOUS
<1>3. Len(x) = Len(y)
  BY <1>1, <1>2 DEF Joined
<1>4. \A i \in 1..Len(x) : x[i] = y[i]
  BY <1>1, <1>3 DEF Joined
<1>. QED BY <1>3, <1>4, SeqEqual

\* One that begins as another does, and is no shorter, is that one and the rest.
LEMMA MeetSplit ==
  ASSUME NEW T, NEW a \in Seq(T), NEW e \in Seq(T), Meet(a, e), Len(e) <= Len(a)
  PROVE  /\ SubSeq(a, Len(e) + 1, Len(a)) \in Seq(T)
         /\ Len(SubSeq(a, Len(e) + 1, Len(a))) = Len(a) - Len(e)
         /\ a = e \o SubSeq(a, Len(e) + 1, Len(a))
<1>. DEFINE r == SubSeq(a, Len(e) + 1, Len(a))
<1>1. Len(e) \in 0..Len(a)
  OBVIOUS
<1>2. r \in Seq(T) /\ Len(r) = Len(a) - Len(e) /\ \A i \in 1..Len(r) : r[i] = a[Len(e) + i]
  BY <1>1
<1>. HIDE DEF r
<1>3. e \o r \in Seq(T) /\ Joined(e \o r, e, r)
  BY <1>2, TwoParts
<1>4. Len(e \o r) = Len(a)
  BY <1>1, <1>2, <1>3 DEF Joined
<1>5. \A i \in 1..Len(a) : a[i] = (e \o r)[i]
  <2>. SUFFICES ASSUME NEW i \in 1..Len(a) PROVE a[i] = (e \o r)[i]
    OBVIOUS
  <2>1. CASE i <= Len(e)
    <3>1. i \in 1..Len(e)
      BY <1>1, <2>1
    <3>. QED BY <1>3, <2>1, <3>1 DEF Joined, Meet
  <2>2. CASE i > Len(e)
    <3>1. i - Len(e) \in 1..Len(r) /\ Len(e) + (i - Len(e)) = i
      BY <1>1, <1>2, <2>2
    <3>. QED BY <1>2, <1>3, <3>1 DEF Joined
  <2>3. i <= Len(e) \/ i > Len(e)
    BY <1>1
  <2>. QED BY <2>1, <2>2, <2>3
<1>6. a = e \o r
  BY <1>3, <1>4, <1>5, SeqEqual
<1>. QED BY <1>2, <1>6 DEF r

LEMMA WireAssoc ==
  \A x, y, z \in Seq(WireBytes) : (x \o y) \o z = x \o (y \o z)
BY ConcatAssociative

HandFrames == [opcode : Opcodes, payload : Seq(Bytes)]

\* Of the frames of `s`, the first `j` are off what was held; `frames` are those
\* behind the `k`th, and `rest` and then `w` are the bytes of the others.
Stands(s, k, j, rest, frames, w) ==
  /\ rest \in Seq(WireBytes) /\ Wired(s, Len(s)) = Wired(s, j) \o (rest \o w)
  /\ \A i \in 1..j : Readable(s[i])
  /\ frames \in Seq(HandFrames) /\ Len(frames) = j - k
  /\ \A i \in 1..j - k : frames[i] = [opcode |-> s[k + i].opcode, payload |-> s[k + i].payload]

LEMMA OneTurn ==
  ASSUME NEW s \in Seq(Frames), NEW k \in Nat, NEW j \in Nat, k <= j, j <= Len(s),
         NEW w \in Seq(WireBytes), NEW o, Stands(s, k, j, o.rest, o.frames, w),
         Verdict(o.rest) = "frame"
  PROVE  /\ j + 1 <= Len(s) /\ Stands(s, k, j + 1, Taken(o).rest, Taken(o).frames, w)
         /\ Len(Taken(o).rest) + 1 <= Len(o.rest)
<1>. DEFINE rest == o.rest
            f == s[j + 1]
            e == Encoded(f)
<1>1. rest \in Seq(WireBytes) /\ Wired(s, Len(s)) = Wired(s, j) \o (rest \o w) /\ Len(rest) >= 2
  <2>1. rest \in Seq(WireBytes) /\ Wired(s, Len(s)) = Wired(s, j) \o (rest \o w)
    BY DEF Stands
  <2>2. ~(Len(rest) < 2)
    BY DEF Verdict
  <2>3. Len(rest) \in Nat
    BY <2>1
  <2>. QED BY <2>1, <2>2, <2>3
<1>. HIDE DEF rest
<1>2. Wired(s, j) \in Seq(WireBytes) /\ Len(s) \in Nat
  <2>1. j \in 0..Len(s)
    OBVIOUS
  <2>. QED BY <2>1, WiredTyped
<1>3. j + 1 <= Len(s) /\ j + 1 \in 1..Len(s) /\ j + 1 \in 0..Len(s)
  <2>. SUFFICES ASSUME j = Len(s) PROVE FALSE
    BY <1>2
  <2>1. Wired(s, j) = Wired(s, j) \o (rest \o w)
    BY <1>1
  <2>2. rest \o w \in Seq(WireBytes) /\ Joined(rest \o w, rest, w)
    BY <1>1, TwoParts
  <2>3. Joined(Wired(s, j) \o (rest \o w), Wired(s, j), rest \o w)
    BY <1>2, <2>2, TwoParts
  <2>4. Len(Wired(s, j)) = Len(Wired(s, j)) + (Len(rest) + Len(w))
    BY <2>1, <2>2, <2>3 DEF Joined
  <2>5. Len(Wired(s, j)) \in Nat /\ Len(rest) \in Nat /\ Len(w) \in Nat
    BY <1>1, <1>2
  <2>. QED BY <1>1, <2>4, <2>5
<1>4. f \in Frames /\ e \in Seq(WireBytes)
  <2>1. f \in Frames
    BY <1>3
  <2>. QED BY <2>1, EncodedTyped
<1>5. Wired(s, j + 1) = Wired(s, j) \o e
  BY <1>3, WiredMore
<1>. HIDE DEF f, e
<1>6. PICK tail \in Seq(WireBytes) : Wired(s, Len(s)) = Wired(s, j + 1) \o tail
  BY <1>3, WiredTo DEF Behind
<1>7. rest \o w = e \o tail
  <2>1. (Wired(s, j) \o e) \o tail = Wired(s, j) \o (e \o tail)
    BY <1>2, <1>4, <1>6, WireAssoc, Zenon
  <2>2. Wired(s, j) \o (rest \o w) = Wired(s, j) \o (e \o tail)
    BY <1>1, <1>5, <1>6, <2>1
  <2>3. rest \o w \in Seq(WireBytes) /\ e \o tail \in Seq(WireBytes)
    BY <1>1, <1>4, <1>6
  <2>. QED BY <1>2, <2>2, <2>3, Cancel
<1>8. Meet(rest, e)
  BY <1>1, <1>4, <1>6, <1>7, MeetOfWhole
<1>9. /\ Readable(f) /\ Len(e) <= Len(rest) /\ Len(e) >= 2
      /\ At(rest) + Len(Keys) + Size(rest) = Len(e)
      /\ rest[1].opcode = f.opcode /\ Payload(rest) = f.payload
  <2>1. Verdict(rest) = "frame"
    BY DEF rest
  <2>. QED BY <1>1, <1>4, <1>8, <2>1, Received DEF e
<1>. DEFINE left == SubSeq(rest, Len(e) + 1, Len(rest))
<1>10. left \in Seq(WireBytes) /\ Len(left) = Len(rest) - Len(e) /\ rest = e \o left
  BY <1>1, <1>4, <1>8, <1>9, MeetSplit
<1>11. Taken(o).rest = left
  BY <1>9 DEF Taken, rest
<1>12. Taken(o).frames = Append(o.frames, [opcode |-> f.opcode, payload |-> f.payload])
  BY <1>9 DEF Taken, rest
<1>. HIDE DEF left
<1>13. Wired(s, Len(s)) = Wired(s, j + 1) \o (left \o w)
  <2>1. (e \o left) \o w = e \o (left \o w)
    BY <1>4, <1>10, WireAssoc, Zenon
  <2>2. Wired(s, j) \o (e \o (left \o w)) = (Wired(s, j) \o e) \o (left \o w)
    <3>1. left \o w \in Seq(WireBytes)
      BY <1>10
    <3>. QED BY <1>2, <1>4, <3>1, WireAssoc, Zenon
  <2>. QED BY <1>1, <1>5, <1>10, <2>1, <2>2
<1>14. \A i \in 1..j + 1 : Readable(s[i])
  <2>1. \A i \in 1..j : Readable(s[i])
    BY DEF Stands
  <2>2. \A i \in 1..j + 1 : i \in 1..j \/ i = j + 1
    OBVIOUS
  <2>3. Readable(s[j + 1])
    BY <1>9 DEF f
  <2>. QED BY ONLY <2>1, <2>2, <2>3, Zenon
<1>15. LET frames == Taken(o).frames
       IN  /\ frames \in Seq(HandFrames) /\ Len(frames) = (j + 1) - k
           /\ \A i \in 1..(j + 1) - k :
                frames[i] = [opcode |-> s[k + i].opcode, payload |-> s[k + i].payload]
  <2>1. /\ o.frames \in Seq(HandFrames) /\ Len(o.frames) = j - k
        /\ \A i \in 1..j - k : o.frames[i] = [opcode |-> s[k + i].opcode, payload |-> s[k + i].payload]
    BY DEF Stands
  <2>. DEFINE h == [opcode |-> f.opcode, payload |-> f.payload]
  <2>2. h \in HandFrames
    BY <1>4 DEF HandFrames, Frames
  <2>3. h = [opcode |-> s[k + (j + 1 - k)].opcode, payload |-> s[k + (j + 1 - k)].payload]
    <3>1. k + (j + 1 - k) = j + 1
      OBVIOUS
    <3>. QED BY <3>1 DEF f
  <2>. HIDE DEF h
  <2>4. /\ Append(o.frames, h) \in Seq(HandFrames) /\ Len(Append(o.frames, h)) = (j - k) + 1
        /\ Append(o.frames, h)[(j - k) + 1] = h
        /\ \A i \in 1..j - k : Append(o.frames, h)[i] = o.frames[i]
    <3>1. \A q \in Seq(HandFrames) :
            /\ Append(q, h) \in Seq(HandFrames) /\ Len(Append(q, h)) = Len(q) + 1
            /\ Append(q, h)[Len(q) + 1] = h /\ \A i \in 1..Len(q) : Append(q, h)[i] = q[i]
      BY ONLY <2>2
    <3>. QED BY <2>1, <3>1
  <2>5. (j + 1) - k = (j - k) + 1 /\ \A i \in 1..(j + 1) - k : i \in 1..j - k \/ i = (j + 1) - k
    OBVIOUS
  <2>6. Taken(o).frames = Append(o.frames, h)
    BY <1>12 DEF h
  <2>7. ASSUME NEW i \in 1..(j + 1) - k
        PROVE  Append(o.frames, h)[i] = [opcode |-> s[k + i].opcode, payload |-> s[k + i].payload]
    <3>1. CASE i \in 1..j - k
      BY <2>1, <2>4, <3>1
    <3>2. CASE i = (j + 1) - k
      BY <2>3, <2>4, <2>5, <3>2
    <3>. QED BY <2>5, <3>1, <3>2
  <2>. QED BY <2>4, <2>5, <2>6, <2>7
<1>16. Stands(s, k, j + 1, Taken(o).rest, Taken(o).frames, w)
  BY <1>10, <1>11, <1>13, <1>14, <1>15 DEF Stands
<1>17. Len(Taken(o).rest) + 1 <= Len(o.rest)
  <2>1. Len(rest) \in Nat /\ Len(e) \in Nat
    BY <1>1, <1>4
  <2>2. Len(left) + 1 <= Len(rest)
    BY <1>9, <1>10, <2>1
  <2>. QED BY <1>11, <2>2 DEF rest
<1>. QED BY <1>3, <1>16, <1>17

\* When no more turns are to be taken, no whole frame is left.
LEMMA LoopEnds ==
  ASSUME NEW s \in Seq(Frames), NEW k \in 0..Len(s), NEW data \in Seq(WireBytes),
         NEW w \in Seq(WireBytes), Wired(s, Len(s)) = Wired(s, k) \o (data \o w),
         \A i \in 1..k : Readable(s[i])
  PROVE  /\ Unframed(data).why = Verdict(Unframed(data).rest) /\ Unframed(data).why # "frame"
         /\ \E j \in k..Len(s) : Stands(s, k, j, Unframed(data).rest, Unframed(data).frames, w)
<1>1. PICK f : /\ f[0] = [rest |-> data, frames |-> <<>>]
               /\ \A n \in Nat : n + 1 <= Len(data) => f[n + 1] = Taken(f[n])
               /\ Unframed(data) = [rest |-> f[Len(data)].rest, frames |-> f[Len(data)].frames,
                                    why |-> Verdict(f[Len(data)].rest)]
  BY UnframedIs
<1>2. k \in Nat /\ Len(s) \in Nat /\ Len(data) \in Nat
  OBVIOUS
<1>. DEFINE Stood(n, j) == /\ Stands(s, k, j, f[n].rest, f[n].frames, w)
                           /\ Verdict(f[n].rest) = "frame" => Len(f[n].rest) + n <= Len(data)
            P == {n \in Nat : n <= Len(data) => \E j \in k..Len(s) : Stood(n, j)}
<1>3. 0 \in P
  <2>1. f[0].rest = data /\ f[0].frames = <<>>
    BY <1>1
  <2>2. /\ \A i \in 1..k - k : FALSE
        /\ <<>> \in Seq(HandFrames) /\ Len(<<>>) = k - k
    OBVIOUS
  <2>3. Stands(s, k, k, f[0].rest, f[0].frames, w)
    BY <2>1, <2>2 DEF Stands
  <2>4. Len(f[0].rest) + 0 <= Len(data)
    BY <1>2, <2>1
  <2>5. k \in k..Len(s)
    OBVIOUS
  <2>. QED BY <2>3, <2>4, <2>5
<1>4. ASSUME NEW n \in Nat, n \in P PROVE n + 1 \in P
  <2>. HIDE DEF Stood
  <2>. SUFFICES ASSUME n + 1 <= Len(data) PROVE \E j \in k..Len(s) : Stood(n + 1, j)
    OBVIOUS
  <2>1. n <= Len(data) /\ f[n + 1] = Taken(f[n])
    BY <1>1, <1>2
  <2>2. PICK j \in k..Len(s) : Stood(n, j)
    BY <1>4, <2>1
  <2>. USE DEF Stood
  <2>3. j \in Nat /\ k <= j /\ j <= Len(s)
    BY <1>2
  <2>4. CASE Verdict(f[n].rest) = "frame"
    <3>1. /\ j + 1 <= Len(s) /\ Stands(s, k, j + 1, f[n + 1].rest, f[n + 1].frames, w)
          /\ Len(f[n + 1].rest) + 1 <= Len(f[n].rest)
      BY <1>2, <2>1, <2>2, <2>3, <2>4, OneTurn
    <3>2. Len(f[n].rest) + n <= Len(data)
      BY <2>2, <2>4
    <3>3. Len(f[n].rest) \in Nat /\ Len(f[n + 1].rest) \in Nat
      <4>1. f[n].rest \in Seq(WireBytes) /\ f[n + 1].rest \in Seq(WireBytes)
        BY <2>2, <3>1 DEF Stands
      <4>. QED BY ONLY <4>1
    <3>4. Len(f[n + 1].rest) + (n + 1) <= Len(data)
      <4>1. \A a, b, c, m \in Nat : a + 1 <= b /\ b + m <= c => a + (m + 1) <= c
        OBVIOUS
      <4>. QED BY <1>2, <3>1, <3>2, <3>3, <4>1
    <3>5. j + 1 \in k..Len(s)
      BY <1>2, <2>3, <3>1
    <3>. QED BY <3>1, <3>4, <3>5
  <2>5. CASE Verdict(f[n].rest) # "frame"
    <3>1. f[n + 1] = f[n]
      BY <2>1, <2>5 DEF Taken
    <3>. QED BY <2>2, <2>5, <3>1
  <2>. QED BY <2>4, <2>5
<1>. HIDE DEF P
<1>5. \A n \in Nat : n \in P
  BY <1>3, <1>4, Induction
<1>6. PICK j \in k..Len(s) : Stood(Len(data), j)
  BY <1>2, <1>5 DEF P
<1>7. Unframed(data).rest = f[Len(data)].rest /\ Unframed(data).frames = f[Len(data)].frames
      /\ Unframed(data).why = Verdict(f[Len(data)].rest)
  BY <1>1
<1>8. Verdict(f[Len(data)].rest) # "frame"
  <2>. SUFFICES ASSUME Verdict(f[Len(data)].rest) = "frame" PROVE FALSE
    OBVIOUS
  <2>1. Len(f[Len(data)].rest) + Len(data) <= Len(data)
    BY <1>6
  <2>2. Len(f[Len(data)].rest) \in Nat
    BY <1>6 DEF Stands
  <2>3. Len(f[Len(data)].rest) < 2
    BY <1>2, <2>1, <2>2
  <2>. QED BY <2>3 DEF Verdict
<1>. QED BY <1>6, <1>7, <1>8

LEMMA ByteAssoc ==
  \A x, y, z \in Seq(Bytes) : (x \o y) \o z = x \o (y \o z)
BY ConcatAssociative

-----------------------------------------------------------------------------
(* The stream's invariant, of values: `s` is sent, `w` the wire, `b` held, *)
(* `h` in hand, and `p` what has been written to the port.                 *)

Flows(s, w, b, h, p, k) ==
  /\ Wired(s, Len(s)) = Wired(s, k) \o (b \o w)
  /\ Verdict(b) = "more" /\ \A i \in 1..k : Readable(s[i])
  /\ k - Len(h) >= 0 /\ \A i \in 1..(k - Len(h)) : s[i].opcode # "close"
  /\ \A i \in 1..Len(h) : /\ h[i].opcode = s[(k - Len(h)) + i].opcode
                         /\ h[i].payload = s[(k - Len(h)) + i].payload
  /\ p = Says(s, k - Len(h))

LEMMA FlowsTypes ==
  ASSUME NEW s \in Seq(Frames), NEW w \in Seq(WireBytes), NEW b \in Seq(WireBytes),
         NEW h \in Seq(HandFrames), NEW p, NEW k \in 0..Len(s), Flows(s, w, b, h, p, k),
         NEW f \in Frames
  PROVE  k \in 0..Len(Append(s, f)) /\ Flows(Append(s, f), w \o Encoded(f), b, h, p, k)
<1>. DEFINE t == Append(s, f)
            e == Encoded(f)
            a == k - Len(h)
<1>1. /\ t \in Seq(Frames) /\ Len(t) = Len(s) + 1 /\ t[Len(s) + 1] = f
      /\ \A i \in 1..Len(s) : t[i] = s[i]
  OBVIOUS
<1>2. k \in Nat /\ Len(s) \in Nat /\ k <= Len(s) /\ Len(h) \in Nat /\ a \in Nat /\ a <= k
  BY DEF Flows
<1>3. e \in Seq(WireBytes)
  BY EncodedTyped
<1>. HIDE DEF t, e
<1>4. Wired(t, Len(t)) = Wired(s, Len(s)) \o e
  <2>1. Wired(t, Len(s) + 1) = Wired(t, Len(s)) \o Encoded(t[Len(s) + 1])
    <3>1. Len(s) + 1 \in 1..Len(t)
      BY <1>1, <1>2
    <3>. QED BY <1>1, <1>2, <3>1, WiredMore
  <2>2. Wired(t, Len(s)) = Wired(s, Len(s))
    <3>1. Len(s) <= Len(t)
      BY <1>1, <1>2
    <3>2. Len(s) <= Len(s) /\ \A i \in 1..Len(s) : t[i] = s[i]
      BY <1>1, <1>2
    <3>3. PICK m \in Nat : m = Len(s)
      BY <1>2
    <3>4. Wired(t, m) = Wired(s, m)
      BY <1>1, <3>1, <3>2, <3>3, WiredSame
    <3>. QED BY <3>3, <3>4
  <2>. QED BY <1>1, <2>1, <2>2 DEF e
<1>5. Wired(t, k) = Wired(s, k) /\ Says(t, a) = Says(s, a)
  <2>1. /\ k <= Len(t) /\ a <= Len(s) /\ a <= Len(t) /\ \A i \in 1..k : t[i] = s[i]
        /\ \A i \in 1..a : t[i] = s[i]
    BY <1>1, <1>2
  <2>2. Wired(t, k) = Wired(s, k)
    BY <1>1, <1>2, <2>1, WiredSame
  <2>. HIDE DEF a
  <2>3. Says(t, a) = Says(s, a)
    BY <1>1, <1>2, <2>1, SaysSame
  <2>. QED BY <2>2, <2>3
<1>6. Wired(t, Len(t)) = Wired(t, k) \o (b \o (w \o e))
  <2>1. Wired(s, k) \in Seq(WireBytes) /\ b \o w \in Seq(WireBytes)
    BY WiredTyped
  <2>2. (Wired(s, k) \o (b \o w)) \o e = Wired(s, k) \o ((b \o w) \o e)
    BY <1>3, <2>1, WireAssoc, Zenon
  <2>3. (b \o w) \o e = b \o (w \o e)
    BY <1>3, WireAssoc, Zenon
  <2>4. Wired(s, Len(s)) = Wired(s, k) \o (b \o w)
    BY DEF Flows
  <2>. QED BY <1>4, <1>5, <2>2, <2>3, <2>4
<1>7. (\A i \in 1..k : Readable(t[i])) /\ \A i \in 1..a : t[i].opcode # "close"
  <2>1. (\A i \in 1..k : Readable(s[i])) /\ \A i \in 1..a : s[i].opcode # "close"
    BY DEF Flows
  <2>2. (\A i \in 1..k : t[i] = s[i]) /\ \A i \in 1..a : t[i] = s[i]
    BY <1>1, <1>2
  <2>. QED BY <2>1, <2>2
<1>8. \A i \in 1..Len(h) : h[i].opcode = t[a + i].opcode /\ h[i].payload = t[a + i].payload
  <2>1. \A i \in 1..Len(h) : t[a + i] = s[a + i]
    <3>1. \A i \in 1..Len(h) : a + i \in 1..Len(s)
      BY <1>2
    <3>. QED BY <1>1, <3>1
  <2>2. \A i \in 1..Len(h) : h[i].opcode = s[a + i].opcode /\ h[i].payload = s[a + i].payload
    BY DEF Flows
  <2>. QED BY <2>1, <2>2
<1>9. Verdict(b) = "more" /\ p = Says(s, a) /\ a >= 0
  BY DEF Flows
<1>10. Flows(t, w \o e, b, h, p, k)
  BY <1>5, <1>6, <1>7, <1>8, <1>9 DEF Flows
<1>. QED BY <1>1, <1>2, <1>10 DEF t, e

LEMMA FlowsReads ==
  ASSUME NEW s \in Seq(Frames), NEW w \in Seq(WireBytes), NEW b \in Seq(WireBytes),
         NEW p, NEW k \in 0..Len(s), Flows(s, w, b, <<>>, p, k), NEW n \in 1..Len(w)
  PROVE  LET u == Unframed(b \o SubSeq(w, 1, n))
             v == SubSeq(w, n + 1, Len(w))
         IN  /\ v \in Seq(WireBytes)
             /\ u.why \in {"more", "PROTOCOL_ERROR", "TOO_LARGE"}
             /\ u.why = "more" => /\ u.rest \in Seq(WireBytes) /\ u.frames \in Seq(HandFrames)
                                  /\ \E j \in 0..Len(s) : Flows(s, v, u.rest, u.frames, p, j)
<1>. DEFINE c == SubSeq(w, 1, n)
            v == SubSeq(w, n + 1, Len(w))
            data == b \o c
<1>1. c \in Seq(WireBytes) /\ v \in Seq(WireBytes) /\ c \o v = w
  <2>1. /\ 1 \in 1..Len(w)+1 /\ n \in 1-1..Len(w) /\ Len(w) \in n..Len(w)
        /\ w \in Seq(WireBytes)
    OBVIOUS
  <2>2. SubSeq(w, 1, n) \o SubSeq(w, n + 1, Len(w)) = SubSeq(w, 1, Len(w))
    BY ONLY <2>1, ConcatAdjacentSubSeq
  <2>3. SubSeq(w, 1, Len(w)) = w
    OBVIOUS
  <2>4. SubSeq(w, 1, n) \in Seq(WireBytes) /\ SubSeq(w, n + 1, Len(w)) \in Seq(WireBytes)
    OBVIOUS
  <2>. QED BY <2>2, <2>3, <2>4
<1>. HIDE DEF c, v
<1>2. data \in Seq(WireBytes) /\ data \o v = b \o w
  <2>1. (b \o c) \o v = b \o (c \o v)
    BY <1>1, WireAssoc, Zenon
  <2>. QED BY <1>1, <2>1
<1>. HIDE DEF data
<1>3. Wired(s, Len(s)) = Wired(s, k) \o (data \o v) /\ \A i \in 1..k : Readable(s[i])
  BY <1>2 DEF Flows
<1>. DEFINE u == Unframed(data)
<1>4. /\ u.why = Verdict(u.rest) /\ u.why # "frame"
      /\ \E j \in k..Len(s) : Stands(s, k, j, u.rest, u.frames, v)
  BY <1>1, <1>2, <1>3, LoopEnds
<1>. HIDE DEF u
<1>5. PICK j \in k..Len(s) : Stands(s, k, j, u.rest, u.frames, v)
  BY <1>4
<1>6. u.why \in {"more", "PROTOCOL_ERROR", "TOO_LARGE"}
  BY <1>4 DEF Verdict
<1>7. u.rest \in Seq(WireBytes) /\ u.frames \in Seq(HandFrames) /\ Len(u.frames) = j - k
  BY <1>5 DEF Stands
<1>8. j \in 0..Len(s) /\ j - (j - k) = k
  OBVIOUS
<1>9. ASSUME u.why = "more" PROVE Flows(s, v, u.rest, u.frames, p, j)
  <2>1. Verdict(u.rest) = "more"
    BY <1>4, <1>9
  <2>2. Wired(s, Len(s)) = Wired(s, j) \o (u.rest \o v) /\ \A i \in 1..j : Readable(s[i])
    BY <1>5 DEF Stands
  <2>3. Len(<<>>) = 0 /\ k - 0 = k
    OBVIOUS
  <2>4. (\A i \in 1..k : s[i].opcode # "close") /\ p = Says(s, k) /\ k >= 0
    BY <2>3 DEF Flows
  <2>5. \A i \in 1..Len(u.frames) : /\ u.frames[i].opcode = s[k + i].opcode
                                   /\ u.frames[i].payload = s[k + i].payload
    <3>1. \A i \in 1..j - k : u.frames[i] = [opcode |-> s[k + i].opcode, payload |-> s[k + i].payload]
      BY <1>5 DEF Stands
    <3>2. Len(u.frames) = j - k
      BY <1>7
    <3>3. ASSUME NEW i \in 1..Len(u.frames)
          PROVE  u.frames[i].opcode = s[k + i].opcode /\ u.frames[i].payload = s[k + i].payload
      <4>1. u.frames[i] = [opcode |-> s[k + i].opcode, payload |-> s[k + i].payload]
        BY ONLY <3>1, <3>2, i \in 1..Len(u.frames)
      <4>. QED BY <4>1
    <3>. QED BY <3>3
  <2>6. j - Len(u.frames) = k
    BY <1>7, <1>8
  <2>. QED BY <2>1, <2>2, <2>4, <2>5, <2>6 DEF Flows
<1>. QED BY <1>1, <1>6, <1>7, <1>8, <1>9 DEF u, data, c, v

LEMMA FlowsActs ==
  ASSUME NEW s \in Seq(Frames), NEW w, NEW b, NEW h \in Seq(HandFrames), NEW p \in Seq(Bytes),
         NEW k \in 0..Len(s), Flows(s, w, b, h, p, k), h # <<>>
  PROVE  /\ Tail(h) \in Seq(HandFrames) /\ Head(h).payload \in Seq(Bytes)
         /\ Head(h).opcode = "data" => Flows(s, w, b, Tail(h), p \o Head(h).payload, k)
         /\ Head(h).opcode \in {"ping", "pong"} => Flows(s, w, b, Tail(h), p, k)
<1>. DEFINE a == k - Len(h)
            f == Head(h)
            r == Tail(h)
<1>1. /\ r \in Seq(HandFrames) /\ Len(r) = Len(h) - 1 /\ Len(h) \in Nat /\ Len(h) >= 1
      /\ f = h[1] /\ f \in HandFrames /\ \A i \in 1..Len(r) : r[i] = h[i + 1]
  OBVIOUS
<1>2. k \in Nat /\ a \in Nat /\ a + 1 <= k /\ a + 1 \in 1..Len(s) /\ a + 1 \in 1..k
  BY <1>1 DEF Flows
<1>3. k - Len(r) = a + 1
  BY <1>1, <1>2
<1>4. f.payload \in Seq(Bytes)
  BY <1>1 DEF HandFrames
<1>5. f.opcode = s[a + 1].opcode /\ f.payload = s[a + 1].payload
  <2>1. 1 \in 1..Len(h)
    BY <1>1
  <2>2. \A i \in 1..Len(h) : h[i].opcode = s[a + i].opcode /\ h[i].payload = s[a + i].payload
    BY DEF Flows
  <2>. QED BY <1>1, <2>1, <2>2
<1>6. /\ Wired(s, Len(s)) = Wired(s, k) \o (b \o w) /\ Verdict(b) = "more"
      /\ (\A i \in 1..k : Readable(s[i])) /\ (\A i \in 1..a : s[i].opcode # "close")
      /\ p = Says(s, a)
  BY DEF Flows
<1>7. \A i \in 1..Len(r) : /\ r[i].opcode = s[(k - Len(r)) + i].opcode
                          /\ r[i].payload = s[(k - Len(r)) + i].payload
  <2>. SUFFICES ASSUME NEW i \in 1..Len(r)
                PROVE  /\ r[i].opcode = s[(k - Len(r)) + i].opcode
                       /\ r[i].payload = s[(k - Len(r)) + i].payload
    OBVIOUS
  <2>1. i + 1 \in 1..Len(h) /\ (k - Len(r)) + i = a + (i + 1) /\ r[i] = h[i + 1]
    BY <1>1, <1>2, <1>3
  <2>2. h[i + 1].opcode = s[a + (i + 1)].opcode /\ h[i + 1].payload = s[a + (i + 1)].payload
    BY <2>1 DEF Flows
  <2>. QED BY <2>1, <2>2
<1>8. Says(s, a + 1) = Says(s, a) \o Entry(s, a + 1)
  BY <1>2, SaysMore
<1>. HIDE DEF a, f, r
<1>9. ASSUME f.opcode # "close" PROVE \A i \in 1..a + 1 : Readable(s[i]) /\ s[i].opcode # "close"
  <2>1. \A i \in 1..a + 1 : i \in 1..k /\ (i \in 1..a \/ i = a + 1)
    BY <1>2
  <2>. QED BY <1>5, <1>6, <1>9, <2>1
<1>10. ASSUME f.opcode = "data" PROVE Flows(s, w, b, r, p \o f.payload, k)
  <2>1. f.opcode # "close"
    BY <1>10
  <2>2. Entry(s, a + 1) = f.payload
    BY <1>5, <1>9, <1>10, <2>1 DEF Entry
  <2>3. p \o f.payload = Says(s, a + 1)
    BY <1>6, <1>8, <2>2
  <2>4. k - Len(r) >= 0 /\ \A i \in 1..(k - Len(r)) : s[i].opcode # "close"
    BY <1>2, <1>3, <1>9, <2>1
  <2>. QED BY <1>3, <1>6, <1>7, <2>3, <2>4 DEF Flows
<1>11. ASSUME f.opcode \in {"ping", "pong"} PROVE Flows(s, w, b, r, p, k)
  <2>1. f.opcode # "close" /\ f.opcode # "data"
    BY <1>11
  <2>2. Entry(s, a + 1) = <<>>
    BY <1>5, <2>1 DEF Entry
  <2>3. p = Says(s, a + 1)
    <3>1. p \o <<>> = p
      OBVIOUS
    <3>. QED BY <1>6, <1>8, <2>2, <3>1
  <2>4. k - Len(r) >= 0 /\ \A i \in 1..(k - Len(r)) : s[i].opcode # "close"
    BY <1>2, <1>3, <1>9, <2>1
  <2>. QED BY <1>3, <1>6, <1>7, <2>3, <2>4 DEF Flows
<1>. QED BY <1>1, <1>4, <1>10, <1>11 DEF f, r

\* What was written is the beginning of what is said.
LEMMA FlowsBehind ==
  ASSUME NEW s \in Seq(Frames), NEW w, NEW b, NEW h \in Seq(HandFrames), NEW p \in Seq(Bytes),
         NEW k \in 0..Len(s), Flows(s, w, b, h, p, k)
  PROVE  Behind(Bytes, p, Says(s, Len(s)))
<1>1. k - Len(h) \in 0..Len(s) /\ p = Says(s, k - Len(h))
  BY DEF Flows
<1>. QED BY <1>1, SaysTo

-----------------------------------------------------------------------------
(* The invariant of a stream and of the framing behind it.                 *)

TypedOK ==
  /\ page \in BOOLEAN /\ sent \in Seq(Frames) /\ wire \in Seq(WireBytes)
  /\ buffered \in Seq(WireBytes) /\ hand \in Seq(HandFrames) /\ port \in Seq(Bytes)

\* What was written to the port, wherever it is by now.
Passed == (given \o arrived) \o port

TypedInv == IInv /\ TypedOK /\ StreamInv

\* StreamInv, of the values it is about.
LEMMA StreamIs ==
  StreamInv <=>
    /\ page /\ ended = None =>
         \E k \in 0..Len(sent) : Flows(sent, wire, buffered, hand, Passed, k)
    /\ page /\ ended # None => hand = <<>> /\ IsPrefix(Passed, Says(sent, Len(sent)))
    /\ ~page => port = <<>> /\ hand = <<>>
BY DEF StreamInv, Streams, Flows, Passed, Sent, Wired, Said, Says, Entry

LEMMA StreamIsNext ==
  StreamInv' <=>
    /\ page' /\ ended' = None =>
         \E k \in 0..Len(sent') : Flows(sent', wire', buffered', hand', Passed', k)
    /\ page' /\ ended' # None => hand' = <<>> /\ IsPrefix(Passed', Says(sent', Len(sent')))
    /\ ~page' => port' = <<>> /\ hand' = <<>>
BY DEF StreamInv, Streams, Flows, Passed, Sent, Wired, Said, Says, Entry

LEMMA WrittenTyped ==
  ASSUME IInv, TypedOK
  PROVE  /\ Passed \in Seq(Bytes) /\ given \o arrived \in Seq(Bytes)
         /\ given \in Seq(Bytes) /\ arrived \in Seq(Bytes) /\ port \in Seq(Bytes)
<1>1. given \in Seq(Bytes) /\ arrived \in Seq(Bytes) /\ port \in Seq(Bytes)
  BY DEF IInv, TypeOK, TypedOK
<1>2. given \o arrived \in Seq(Bytes)
  BY <1>1
<1>. QED BY <1>1, <1>2 DEF Passed

LEMMA StreamTypes ==
  ASSUME TypedInv, NEW f \in Spoken \cup Garbled, Types(f)
  PROVE  TypedOK' /\ StreamInv'
<1>1. /\ page /\ ended = None /\ sent' = Append(sent, f) /\ wire' = wire \o Encoded(f)
      /\ UNCHANGED <<page, buffered, hand, ended, port, arrived, partial, whole, given>>
  BY DEF Types, vars
<1>2. f \in Frames /\ Encoded(f) \in Seq(WireBytes)
  <2>1. f \in Frames
    BY FramesTyped
  <2>. QED BY <2>1, EncodedTyped
<1>3. TypedOK
  BY DEF TypedInv
<1>4. TypedOK'
  <2>1. Append(sent, f) \in Seq(Frames) /\ wire \o Encoded(f) \in Seq(WireBytes)
    BY <1>2, <1>3 DEF TypedOK
  <2>. QED BY <1>1, <1>3, <2>1 DEF TypedOK
<1>5. PICK k \in 0..Len(sent) : Flows(sent, wire, buffered, hand, Passed, k)
  BY <1>1, StreamIs DEF TypedInv
<1>6. k \in 0..Len(sent') /\ Flows(sent', wire', buffered', hand', Passed', k)
  <2>1. Passed' = Passed
    BY <1>1 DEF Passed
  <2>2. /\ k \in 0..Len(Append(sent, f))
        /\ Flows(Append(sent, f), wire \o Encoded(f), buffered, hand, Passed, k)
    BY <1>2, <1>3, <1>5, FlowsTypes DEF TypedOK
  <2>. QED BY <1>1, <2>1, <2>2
<1>7. page' /\ ended' = None
  BY <1>1
<1>. QED BY <1>4, <1>6, <1>7, StreamIsNext

\* When the stream ends, what the port keeps is the beginning of what was said.
LEMMA StreamOver ==
  ASSUME TypedInv, page, ended = None, NEW why, Over(why), why # None,
         UNCHANGED <<page, sent, buffered, vars>>, wire' \in Seq(WireBytes)
  PROVE  TypedOK' /\ StreamInv'
<1>1. IInv /\ TypedOK
  BY DEF TypedInv
<1>2. PICK k \in 0..Len(sent) : Flows(sent, wire, buffered, hand, Passed, k)
  BY StreamIs DEF TypedInv
<1>3. /\ Passed \in Seq(Bytes) /\ given \o arrived \in Seq(Bytes) /\ port \in Seq(Bytes)
  BY <1>1, WrittenTyped
<1>4. /\ ended' = why /\ hand' = <<>> /\ page' = page /\ sent' = sent /\ buffered' = buffered
      /\ given' = given /\ arrived' = arrived
  BY DEF Over, vars
<1>5. PICK n \in 0..Len(port) : port' = SubSeq(port, 1, n)
  BY DEF Over
<1>6. port' \in Seq(Bytes) /\ Behind(Bytes, port', port)
  <2>1. /\ 1 \in 1..Len(port)+1 /\ n \in 1-1..Len(port) /\ Len(port) \in n..Len(port)
        /\ port \in Seq(Bytes)
    BY <1>3
  <2>2. SubSeq(port, 1, n) \o SubSeq(port, n + 1, Len(port)) = SubSeq(port, 1, Len(port))
    BY ONLY <2>1, ConcatAdjacentSubSeq
  <2>3. SubSeq(port, 1, Len(port)) = port
    BY <1>3
  <2>4. SubSeq(port, 1, n) \in Seq(Bytes) /\ SubSeq(port, n + 1, Len(port)) \in Seq(Bytes)
    BY <1>3
  <2>. QED BY <1>5, <2>2, <2>3, <2>4 DEF Behind
<1>7. Passed' \in Seq(Bytes) /\ Behind(Bytes, Passed', Passed)
  <2>1. PICK x \in Seq(Bytes) : port = port' \o x
    BY <1>6 DEF Behind
  <2>2. Passed' = (given \o arrived) \o port'
    BY <1>4 DEF Passed
  <2>3. Passed' \in Seq(Bytes)
    BY <1>3, <1>6, <2>2
  <2>4. Passed = Passed' \o x
    <3>1. ((given \o arrived) \o port') \o x = (given \o arrived) \o (port' \o x)
      BY <1>3, <1>6, ByteAssoc, Zenon
    <3>. QED BY <2>1, <2>2, <3>1 DEF Passed
  <2>. QED BY <2>3, <2>4 DEF Behind
<1>8. Says(sent, Len(sent)) \in Seq(Bytes)
  <2>1. Len(sent) \in 0..Len(sent) /\ sent \in Seq(Frames)
    BY <1>1 DEF TypedOK
  <2>. QED BY <2>1, SaysTyped
<1>9. Behind(Bytes, Passed, Says(sent, Len(sent)))
  BY <1>1, <1>2, <1>3, FlowsBehind DEF TypedOK
<1>10. Behind(Bytes, Passed', Says(sent, Len(sent)))
  BY <1>3, <1>7, <1>8, <1>9, BehindTwice
<1>11. IsPrefix(Passed', Says(sent', Len(sent')))
  BY <1>4, <1>7, <1>8, <1>10, PrefixBehind
<1>12. TypedOK'
  <2>1. <<>> \in Seq(HandFrames)
    OBVIOUS
  <2>. QED BY <1>1, <1>4, <1>6, <2>1 DEF TypedOK
<1>. QED BY <1>4, <1>11, <1>12, StreamIsNext

LEMMA StreamReads ==
  ASSUME TypedInv, Reads
  PROVE  TypedOK' /\ StreamInv'
<1>1. /\ page /\ ended = None /\ hand = <<>> /\ UNCHANGED <<page, sent, vars>>
  BY DEF Reads
<1>2. PICK n \in 1..ReadSize :
        /\ n <= Len(wire) /\ wire' = SubSeq(wire, n + 1, Len(wire))
        /\ LET u == Unframed(buffered \o SubSeq(wire, 1, n))
           IN  IF u.why = "more"
               THEN buffered' = u.rest /\ hand' = u.frames /\ UNCHANGED <<ended, port>>
               ELSE Over(u.why) /\ UNCHANGED buffered
  BY DEF Reads
<1>. DEFINE u == Unframed(buffered \o SubSeq(wire, 1, n))
            v == SubSeq(wire, n + 1, Len(wire))
<1>3. IInv /\ TypedOK
  BY DEF TypedInv
<1>4. PICK k \in 0..Len(sent) : Flows(sent, wire, buffered, <<>>, Passed, k)
  BY <1>1, StreamIs DEF TypedInv
<1>5. n \in 1..Len(wire)
  BY <1>2, <1>3 DEF TypedOK
<1>6. /\ v \in Seq(WireBytes) /\ u.why \in {"more", "PROTOCOL_ERROR", "TOO_LARGE"}
      /\ u.why = "more" => /\ u.rest \in Seq(WireBytes) /\ u.frames \in Seq(HandFrames)
                           /\ \E j \in 0..Len(sent) : Flows(sent, v, u.rest, u.frames, Passed, j)
  BY <1>3, <1>4, <1>5, FlowsReads DEF TypedOK
<1>7. wire' = v
  BY <1>2
<1>8. IF u.why = "more"
      THEN buffered' = u.rest /\ hand' = u.frames /\ UNCHANGED <<ended, port>>
      ELSE Over(u.why) /\ UNCHANGED buffered
  BY <1>2
<1>. HIDE DEF u, v
<1>9. CASE u.why = "more"
  <2>1. /\ buffered' = u.rest /\ hand' = u.frames /\ ended' = ended /\ port' = port
        /\ page' = page /\ sent' = sent /\ given' = given /\ arrived' = arrived
    BY <1>1, <1>8, <1>9 DEF vars
  <2>2. TypedOK'
    BY <1>3, <1>6, <1>7, <1>9, <2>1 DEF TypedOK
  <2>3. Passed' = Passed
    BY <2>1 DEF Passed
  <2>4. PICK j \in 0..Len(sent) : Flows(sent, v, u.rest, u.frames, Passed, j)
    BY <1>6, <1>9
  <2>5. j \in 0..Len(sent') /\ Flows(sent', wire', buffered', hand', Passed', j)
    BY <1>7, <2>1, <2>3, <2>4
  <2>6. page' /\ ended' = None
    BY <1>1, <2>1
  <2>. QED BY <2>2, <2>5, <2>6, StreamIsNext
<1>10. CASE u.why # "more"
  <2>1. Over(u.why) /\ UNCHANGED <<page, sent, buffered, vars>> /\ wire' \in Seq(WireBytes)
    BY <1>1, <1>6, <1>7, <1>8, <1>10
  <2>2. u.why # None
    BY <1>6, <1>10, TypedAssumption DEF TypedAssumption
  <2>. QED BY <1>1, <2>1, <2>2, StreamOver
<1>. QED BY <1>9, <1>10

\* With a frame in hand a page's stream goes on.
LEMMA HandGoesOn ==
  ASSUME TypedInv, hand # <<>>
  PROVE  page /\ ended = None
<1>1. page \in BOOLEAN
  BY DEF TypedInv, TypedOK
<1>. QED BY <1>1, StreamIs DEF TypedInv

LEMMA StreamActs ==
  ASSUME TypedInv, Acts
  PROVE  TypedOK' /\ StreamInv'
<1>1. hand # <<>> /\ UNCHANGED <<page, sent, wire, buffered, vars>>
  BY DEF Acts
<1>2. page /\ ended = None /\ IInv /\ TypedOK
  BY <1>1, HandGoesOn DEF TypedInv
<1>3. PICK k \in 0..Len(sent) : Flows(sent, wire, buffered, hand, Passed, k)
  BY <1>2, StreamIs DEF TypedInv
<1>4. Passed \in Seq(Bytes) /\ given \o arrived \in Seq(Bytes) /\ port \in Seq(Bytes)
  BY <1>2, WrittenTyped
<1>5. /\ Tail(hand) \in Seq(HandFrames) /\ Head(hand).payload \in Seq(Bytes)
      /\ Head(hand).opcode = "data" =>
           Flows(sent, wire, buffered, Tail(hand), Passed \o Head(hand).payload, k)
      /\ Head(hand).opcode \in {"ping", "pong"} =>
           Flows(sent, wire, buffered, Tail(hand), Passed, k)
  BY <1>1, <1>2, <1>3, <1>4, FlowsActs DEF TypedOK
<1>6. /\ page' = page /\ sent' = sent /\ wire' = wire /\ buffered' = buffered
      /\ given' = given /\ arrived' = arrived
  BY <1>1 DEF vars
<1>7. CASE /\ Head(hand).opcode = "data" /\ port' = port \o Head(hand).payload
           /\ hand' = Tail(hand) /\ UNCHANGED ended
  <2>1. TypedOK'
    <3>1. port \o Head(hand).payload \in Seq(Bytes)
      BY <1>4, <1>5
    <3>. QED BY <1>2, <1>5, <1>6, <1>7, <3>1 DEF TypedOK
  <2>2. Passed' = Passed \o Head(hand).payload
    <3>1. ((given \o arrived) \o port) \o Head(hand).payload
            = (given \o arrived) \o (port \o Head(hand).payload)
      BY <1>4, <1>5, ByteAssoc, Zenon
    <3>. QED BY <1>6, <1>7, <3>1 DEF Passed
  <2>3. k \in 0..Len(sent') /\ Flows(sent', wire', buffered', hand', Passed', k)
    BY <1>5, <1>6, <1>7, <2>2
  <2>4. page' /\ ended' = None
    BY <1>2, <1>6, <1>7
  <2>. QED BY <2>1, <2>3, <2>4, StreamIsNext
<1>8. CASE /\ Head(hand).opcode \in {"ping", "pong"} /\ hand' = Tail(hand)
           /\ UNCHANGED <<ended, port>>
  <2>1. TypedOK'
    BY <1>2, <1>5, <1>6, <1>8 DEF TypedOK
  <2>2. Passed' = Passed
    BY <1>6, <1>8 DEF Passed
  <2>3. k \in 0..Len(sent') /\ Flows(sent', wire', buffered', hand', Passed', k)
    BY <1>5, <1>6, <1>8, <2>2
  <2>4. page' /\ ended' = None
    BY <1>2, <1>6, <1>8
  <2>. QED BY <2>1, <2>3, <2>4, StreamIsNext
<1>9. CASE Head(hand).opcode = "close" /\ Over("NORMAL")
  <2>1. "NORMAL" # None
    BY TypedAssumption DEF TypedAssumption
  <2>2. UNCHANGED <<page, sent, buffered, vars>> /\ wire' \in Seq(WireBytes)
    BY <1>1, <1>2, <1>6 DEF TypedOK
  <2>. QED BY <1>2, <1>9, <2>1, <2>2, StreamOver
<1>. QED BY <1>7, <1>8, <1>9 DEF Acts

LEMMA StreamGoes ==
  ASSUME TypedInv, Goes
  PROVE  TypedOK' /\ StreamInv'
<1>1. page /\ ended = None /\ UNCHANGED <<page, sent, wire, buffered, vars>>
  BY DEF Goes
<1>2. PICK why \in {"gone", "GOING_AWAY"} : Over(why)
  BY DEF Goes
<1>3. why # None
  BY TypedAssumption DEF TypedAssumption
<1>4. UNCHANGED <<page, sent, buffered, vars>> /\ wire' \in Seq(WireBytes)
  BY <1>1 DEF TypedInv, TypedOK
<1>. QED BY <1>1, <1>2, <1>3, <1>4, StreamOver

\* What moves bytes along moves none of them.
LEMMA StreamMoves ==
  ASSUME TypedInv, UNCHANGED <<page, sent, wire, buffered, hand, ended>>,
         port' \in Seq(Bytes), ~page => port' = <<>>, page => Passed' = Passed
  PROVE  TypedOK' /\ StreamInv'
<1>1. TypedOK'
  BY DEF TypedInv, TypedOK
<1>2. /\ page' = page /\ sent' = sent /\ wire' = wire /\ buffered' = buffered
      /\ hand' = hand /\ ended' = ended
  OBVIOUS
<1>3. /\ page /\ ended = None =>
           \E k \in 0..Len(sent) : Flows(sent, wire, buffered, hand, Passed, k)
      /\ page /\ ended # None => hand = <<>> /\ IsPrefix(Passed, Says(sent, Len(sent)))
      /\ ~page => port = <<>> /\ hand = <<>>
  BY StreamIs DEF TypedInv
<1>4. CASE page
  <2>1. Passed' = Passed
    BY <1>4
  <2>. QED BY <1>1, <1>2, <1>3, <1>4, <2>1, StreamIsNext, Zenon
<1>5. CASE ~page
  BY <1>1, <1>2, <1>3, <1>5, StreamIsNext
<1>. QED BY <1>4, <1>5

LEMMA StreamPort ==
  ASSUME TypedInv, PortArrives
  PROVE  IInv' /\ TypedOK' /\ StreamInv'
<1>1. /\ arrived = <<>> /\ UNCHANGED <<page, sent, wire, buffered, hand, ended>>
      /\ UNCHANGED <<partial, whole, given>>
  BY DEF PortArrives
<1>2. PICK n \in 1..MaxChunk : /\ n <= Len(port) /\ arrived' = SubSeq(port, 1, n)
                               /\ port' = SubSeq(port, n + 1, Len(port))
  BY DEF PortArrives
<1>3. /\ port \in Seq(Bytes) /\ given \in Seq(Bytes) /\ n \in 1..Len(port)
  <2>1. port \in Seq(Bytes) /\ given \in Seq(Bytes)
    BY WrittenTyped DEF TypedInv
  <2>. QED BY <1>2, <2>1
<1>4. arrived' \in Seq(Bytes) /\ port' \in Seq(Bytes) /\ arrived' \o port' = port
  <2>1. /\ 1 \in 1..Len(port)+1 /\ n \in 1-1..Len(port) /\ Len(port) \in n..Len(port)
        /\ port \in Seq(Bytes)
    BY <1>3
  <2>2. SubSeq(port, 1, n) \o SubSeq(port, n + 1, Len(port)) = SubSeq(port, 1, Len(port))
    BY ONLY <2>1, ConcatAdjacentSubSeq
  <2>3. SubSeq(port, 1, Len(port)) = port
    BY <1>3
  <2>4. SubSeq(port, 1, n) \in Seq(Bytes) /\ SubSeq(port, n + 1, Len(port)) \in Seq(Bytes)
    BY <1>3
  <2>. QED BY <1>2, <2>2, <2>3, <2>4
<1>5. IInv'
  BY <1>1, <1>4, ArrivesOnly DEF TypedInv
<1>6. Passed' = Passed
  <2>1. (given \o arrived') \o port' = given \o (arrived' \o port')
    BY <1>3, <1>4, ByteAssoc, Zenon
  <2>2. given \o arrived = given
    BY <1>1, <1>3
  <2>. QED BY <1>1, <1>4, <2>1, <2>2 DEF Passed
<1>7. page
  <2>. SUFFICES ASSUME ~page PROVE FALSE
    OBVIOUS
  <2>1. port = <<>>
    BY StreamIs DEF TypedInv
  <2>. QED BY <1>3, <2>1
<1>. QED BY <1>1, <1>4, <1>5, <1>6, <1>7, StreamMoves

LEMMA StreamFolds ==
  ASSUME TypedInv, Folds, UNCHANGED <<page, streamVars>>
  PROVE  TypedOK' /\ StreamInv'
<1>1. UNCHANGED <<page, sent, wire, buffered, hand, ended, port>>
  BY DEF streamVars
<1>2. given \in Seq(Bytes) /\ arrived \in Seq(Bytes) /\ port \in Seq(Bytes)
  BY WrittenTyped DEF TypedInv
<1>3. arrived # <<>> /\ arrived' = Tail(arrived) /\ given' = Append(given, Head(arrived))
  BY DEF Folds, Takes
<1>4. given' \o arrived' = given \o arrived
  <2>1. /\ Head(arrived) \in Bytes /\ Tail(arrived) \in Seq(Bytes)
        /\ arrived = <<Head(arrived)>> \o Tail(arrived)
    BY <1>2, <1>3
  <2>2. Append(given, Head(arrived)) = given \o <<Head(arrived)>>
    BY <1>2, <2>1, AppendIsConcat
  <2>3. <<Head(arrived)>> \in Seq(Bytes)
    BY <2>1
  <2>4. (given \o <<Head(arrived)>>) \o Tail(arrived) = given \o (<<Head(arrived)>> \o Tail(arrived))
    BY <1>2, <2>1, <2>3, ByteAssoc, Zenon
  <2>. QED BY <1>3, <2>1, <2>2, <2>4
<1>5. Passed' = Passed
  BY <1>1, <1>4 DEF Passed
<1>6. ~page => port' = <<>>
  BY <1>1, StreamIs DEF TypedInv
<1>. QED BY <1>1, <1>2, <1>5, <1>6, StreamMoves

LEMMA TypedInductive ==
  ASSUME TypedInv, [TypedNext]_typedVars
  PROVE  TypedInv'
<1>. USE DEF TypedInv
<1>1. CASE \E f \in Spoken \cup Garbled : Types(f)
  <2>1. PICK f \in Spoken \cup Garbled : Types(f)
    BY <1>1
  <2>2. IInv'
    <3>1. UNCHANGED vars
      BY <2>1 DEF Types
    <3>. QED BY <3>1, Inductive
  <2>. QED BY <2>1, <2>2, StreamTypes
<1>2. CASE Reads
  <2>1. UNCHANGED vars
    BY <1>2 DEF Reads
  <2>. QED BY <1>2, <2>1, Inductive, StreamReads
<1>3. CASE Acts
  <2>1. UNCHANGED vars
    BY <1>3 DEF Acts
  <2>. QED BY <1>3, <2>1, Inductive, StreamActs
<1>4. CASE Goes
  <2>1. UNCHANGED vars
    BY <1>4 DEF Goes
  <2>. QED BY <1>4, <2>1, Inductive, StreamGoes
<1>5. CASE PortArrives
  BY <1>5, StreamPort
<1>6. CASE ~page /\ Arrives /\ UNCHANGED <<page, streamVars>>
  <2>1. UNCHANGED <<page, sent, wire, buffered, hand, ended, port>>
    BY <1>6 DEF streamVars
  <2>2. port' \in Seq(Bytes) /\ (~page => port' = <<>>)
    BY <2>1, StreamIs DEF TypedOK
  <2>. QED BY <1>6, <2>1, <2>2, Inductive, StreamMoves DEF Next
<1>7. CASE Folds /\ UNCHANGED <<page, streamVars>>
  BY <1>7, Inductive, StreamFolds DEF Next
<1>8. CASE UNCHANGED typedVars
  <2>1. /\ UNCHANGED <<page, sent, wire, buffered, hand, ended, port>>
        /\ UNCHANGED vars /\ given' = given /\ arrived' = arrived
    BY <1>8 DEF typedVars, streamVars, vars
  <2>2. port' \in Seq(Bytes) /\ (~page => port' = <<>>) /\ Passed' = Passed
    BY <2>1, StreamIs DEF TypedOK, Passed
  <2>. QED BY <2>1, <2>2, Inductive, StreamMoves
<1>. QED BY <1>1, <1>2, <1>3, <1>4, <1>5, <1>6, <1>7, <1>8 DEF TypedNext

LEMMA TypedInitInv == TypedInit => TypedInv
<1>. SUFFICES ASSUME TypedInit PROVE TypedInv
  OBVIOUS
<1>1. /\ IInv /\ page \in BOOLEAN /\ sent = <<>> /\ wire = <<>> /\ buffered = <<>>
      /\ hand = <<>> /\ ended = None /\ port = <<>> /\ given = <<>> /\ arrived = <<>>
  BY InitInv DEF TypedInit, Init
<1>2. TypedOK
  BY <1>1 DEF TypedOK
<1>3. Passed = <<>>
  BY <1>1 DEF Passed
<1>4. Flows(<<>>, <<>>, <<>>, <<>>, <<>>, 0)
  <2>1. Wired(<<>>, 0) = <<>> /\ Says(<<>>, 0) = <<>>
    BY WiredNone, SaysNone
  <2>2. Len(<<>>) = 0 /\ 0 - 0 = 0 /\ <<>> \o <<>> = <<>> /\ <<>> \o (<<>> \o <<>>) = <<>>
    OBVIOUS
  <2>3. Verdict(<<>>) = "more"
    BY DEF Verdict
  <2>4. (\A i \in 1..0 : FALSE)
    OBVIOUS
  <2>. QED BY <2>1, <2>2, <2>3, <2>4 DEF Flows
<1>5. 0 \in 0..Len(sent)
  BY <1>1
<1>. QED BY <1>1, <1>2, <1>3, <1>4, <1>5, StreamIs DEF TypedInv

\* As many frames have been read as are off what is held.
LEMMA FlowsRead ==
  ASSUME NEW s \in Seq(Frames), NEW w \in Seq(WireBytes), NEW b \in Seq(WireBytes), NEW h, NEW p,
         NEW k \in 0..Len(s), Flows(s, w, b, h, p, k)
  PROVE  Cardinality({i \in 1..Len(s) : Len(Wired(s, i)) <= Len(Wired(s, Len(s))) - Len(w)}) = k
<1>. DEFINE read == Len(Wired(s, Len(s))) - Len(w)
            long(i) == Len(Wired(s, i))
<1>1. /\ k \in Nat /\ Len(s) \in Nat /\ Len(b) \in Nat /\ Len(w) \in Nat
      /\ \A i \in 0..Len(s) : Wired(s, i) \in Seq(WireBytes) /\ long(i) \in Nat
  BY WiredTyped
<1>2. read = long(k) + Len(b)
  <2>1. b \o w \in Seq(WireBytes) /\ Joined(b \o w, b, w)
    BY TwoParts
  <2>2. Wired(s, k) \in Seq(WireBytes)
    BY <1>1
  <2>3. Joined(Wired(s, k) \o (b \o w), Wired(s, k), b \o w)
    BY <2>1, <2>2, TwoParts
  <2>4. Wired(s, Len(s)) = Wired(s, k) \o (b \o w)
    BY DEF Flows
  <2>5. Len(Wired(s, Len(s))) = long(k) + (Len(b) + Len(w))
    BY <2>1, <2>3, <2>4 DEF Joined
  <2>6. long(k) \in Nat
    BY <1>1
  <2>. HIDE DEF long
  <2>. QED BY <1>1, <2>5, <2>6
<1>3. \A i \in 0..Len(s) : \A j \in i..Len(s) : long(i) <= long(j)
  <2>. SUFFICES ASSUME NEW i \in 0..Len(s), NEW j \in i..Len(s) PROVE long(i) <= long(j)
    OBVIOUS
  <2>1. j - i \in Nat /\ i + (j - i) = j /\ j <= Len(s) /\ j \in 0..Len(s)
    BY <1>1
  <2>2. Behind(WireBytes, Wired(s, i), Wired(s, j))
    BY <2>1, WiredBehind
  <2>3. PICK x \in Seq(WireBytes) : Wired(s, j) = Wired(s, i) \o x
    BY <2>2 DEF Behind
  <2>4. Wired(s, i) \in Seq(WireBytes)
    BY <1>1
  <2>5. Len(Wired(s, j)) = Len(Wired(s, i)) + Len(x) /\ Len(x) \in Nat /\ Len(Wired(s, i)) \in Nat
    BY <2>3, <2>4, TwoParts DEF Joined
  <2>. QED BY <2>5
<1>4. k < Len(s) => read < long(k + 1)
  <2>. SUFFICES ASSUME k < Len(s) PROVE read < long(k + 1)
    OBVIOUS
  <2>1. k + 1 \in 1..Len(s) /\ k + 1 \in 0..Len(s)
    BY <1>1
  <2>. DEFINE e == Encoded(s[k + 1])
  <2>2. s[k + 1] \in Frames /\ e \in Seq(WireBytes)
    <3>1. s[k + 1] \in Frames
      BY <2>1
    <3>. QED BY <3>1, EncodedTyped
  <2>3. Wired(s, k + 1) = Wired(s, k) \o e
    BY <1>1, <2>1, WiredMore
  <2>4. PICK tail \in Seq(WireBytes) : Wired(s, Len(s)) = Wired(s, k + 1) \o tail
    BY <2>1, WiredTo DEF Behind
  <2>. HIDE DEF e
  <2>5. Wired(s, k) \in Seq(WireBytes)
    BY <1>1
  <2>6. b \o w = e \o tail
    <3>1. (Wired(s, k) \o e) \o tail = Wired(s, k) \o (e \o tail)
      BY <2>2, <2>4, <2>5, WireAssoc, Zenon
    <3>2. Wired(s, k) \o (b \o w) = Wired(s, k) \o (e \o tail)
      BY <2>3, <2>4, <3>1 DEF Flows
    <3>3. b \o w \in Seq(WireBytes) /\ e \o tail \in Seq(WireBytes)
      BY <2>2, <2>4
    <3>. QED BY <2>5, <3>2, <3>3, Cancel
  <2>7. Meet(b, e)
    BY <2>2, <2>4, <2>6, MeetOfWhole
  <2>8. Verdict(b) = "more"
    BY DEF Flows
  <2>9. Len(b) < Len(e) /\ Len(e) \in Nat
    BY <2>2, <2>7, <2>8, Received DEF e
  <2>10. Len(Wired(s, k + 1)) = Len(Wired(s, k)) + Len(e) /\ Len(Wired(s, k)) \in Nat
    BY <2>2, <2>3, <2>5, TwoParts DEF Joined
  <2>11. long(k + 1) = long(k) + Len(e) /\ long(k) \in Nat
    BY <2>10
  <2>. HIDE DEF read, long
  <2>. QED BY <1>1, <1>2, <2>9, <2>11
<1>. HIDE DEF read, long
<1>5. {i \in 1..Len(s) : long(i) <= read} = 1..k
  <2>1. ASSUME NEW i \in 1..k PROVE i \in 1..Len(s) /\ long(i) <= read
    <3>1. i \in 1..Len(s) /\ i \in 0..Len(s) /\ k \in i..Len(s) /\ k \in 0..Len(s)
      BY <1>1
    <3>2. long(i) <= long(k) /\ long(i) \in Nat /\ long(k) \in Nat
      BY <1>1, <1>3, <3>1
    <3>. QED BY <1>1, <1>2, <3>1, <3>2
  <2>2. ASSUME NEW i \in 1..Len(s), long(i) <= read PROVE i \in 1..k
    <3>. SUFFICES ASSUME ~(i \in 1..k) PROVE FALSE
      OBVIOUS
    <3>1. k < Len(s) /\ k + 1 \in 0..Len(s) /\ i \in (k + 1)..Len(s) /\ i \in 0..Len(s)
      BY <1>1
    <3>2. long(k + 1) <= long(i) /\ long(k + 1) \in Nat /\ long(i) \in Nat /\ long(k) \in Nat
      BY <1>1, <1>3, <3>1
    <3>. QED BY <1>1, <1>2, <1>4, <2>2, <3>1, <3>2
  <2>. QED BY <2>1, <2>2
<1>6. Cardinality(1..k) = k
  BY <1>1, FS_Interval
<1>. QED BY <1>5, <1>6 DEF read, long

\* What the frames from the `a`th on say.
LEMMA SaysFrom ==
  ASSUME NEW s \in Seq(Frames), NEW a \in 0..Len(s)
  PROVE  \A n \in Nat : a + n <= Len(s) =>
           Says(s, a + n) = Says(s, a) \o FlattenSeq([i \in 1..n |-> Entry(s, a + i)])
<1>. DEFINE from(n) == [i \in 1..n |-> Entry(s, a + i)]
            P == {n \in Nat : a + n <= Len(s) => Says(s, a + n) = Says(s, a) \o FlattenSeq(from(n))}
<1>1. a \in Nat /\ Len(s) \in Nat /\ Says(s, a) \in Seq(Bytes)
  BY SaysTyped
<1>2. \A n \in Nat : a + n <= Len(s) =>
        /\ from(n) \in Seq(Seq(Bytes)) /\ Len(from(n)) = n
        /\ \A i \in 1..n : from(n)[i] = Entry(s, a + i)
  <2>. SUFFICES ASSUME NEW n \in Nat, a + n <= Len(s)
                PROVE  /\ from(n) \in Seq(Seq(Bytes)) /\ Len(from(n)) = n
                       /\ \A i \in 1..n : from(n)[i] = Entry(s, a + i)
    OBVIOUS
  <2>1. \A i \in 1..n : a + i \in 1..Len(s)
    BY <1>1
  <2>2. \A i \in 1..n : Entry(s, a + i) \in Seq(Bytes)
    BY <2>1, EntryTyped
  <2>3. from(n) \in [1..n -> Seq(Bytes)]
    BY <2>2
  <2>4. from(n) \in Seq(Seq(Bytes))
    <3>1. \A x : x \in [1..n -> Seq(Bytes)] => x \in Seq(Seq(Bytes))
      BY SeqDef
    <3>. HIDE DEF from
    <3>. QED BY <2>3, <3>1
  <2>. QED BY <2>3, <2>4
<1>3. 0 \in P
  <2>1. from(0) = <<>>
    OBVIOUS
  <2>2. Says(s, a) \o <<>> = Says(s, a) /\ a + 0 = a
    BY <1>1
  <2>. QED BY <2>1, <2>2, FlattenNone
<1>4. ASSUME NEW n \in Nat, n \in P PROVE n + 1 \in P
  <2>. SUFFICES ASSUME a + (n + 1) <= Len(s)
                PROVE  Says(s, a + (n + 1)) = Says(s, a) \o FlattenSeq(from(n + 1))
    OBVIOUS
  <2>1. a + n <= Len(s) /\ a + n \in Nat /\ (a + n) + 1 = a + (n + 1) /\ (a + n) + 1 \in 1..Len(s)
    BY <1>1
  <2>2. Says(s, a + n) = Says(s, a) \o FlattenSeq(from(n))
    BY <1>4, <2>1
  <2>3. Says(s, a + (n + 1)) = Says(s, a + n) \o Entry(s, a + (n + 1))
    <3>1. Says(s, (a + n) + 1) = Says(s, a + n) \o Entry(s, (a + n) + 1)
      BY <2>1, SaysMore
    <3>. QED BY <2>1, <3>1
  <2>. HIDE DEF from
  <2>4. /\ from(n) \in Seq(Seq(Bytes)) /\ from(n + 1) \in Seq(Seq(Bytes))
        /\ Len(from(n)) = n /\ Len(from(n + 1)) = n + 1
        /\ (\A i \in 1..n : from(n)[i] = Entry(s, a + i))
        /\ (\A i \in 1..n + 1 : from(n + 1)[i] = Entry(s, a + i))
    <3>1. n + 1 \in Nat
      OBVIOUS
    <3>. QED BY <1>2, <2>1, <3>1
  <2>5. /\ Len(from(n + 1)) = Len(from(n)) + 1
        /\ \A i \in 1..Len(from(n)) : from(n)[i] = from(n + 1)[i]
    BY <2>4
  <2>6. FlattenSeq(from(n + 1)) = FlattenSeq(from(n)) \o from(n + 1)[Len(from(n + 1))]
    BY <2>4, <2>5, FlattenMore
  <2>7. from(n + 1)[Len(from(n + 1))] = Entry(s, a + (n + 1))
    <3>1. n + 1 \in 1..n + 1
      OBVIOUS
    <3>. QED BY <2>4, <3>1
  <2>8. Entry(s, a + (n + 1)) \in Seq(Bytes) /\ FlattenSeq(from(n)) \in Seq(Bytes)
    BY <2>1, <2>4, EntryTyped, FlattenTyped
  <2>9. (Says(s, a) \o FlattenSeq(from(n))) \o Entry(s, a + (n + 1))
          = Says(s, a) \o (FlattenSeq(from(n)) \o Entry(s, a + (n + 1)))
    BY <1>1, <2>8, ByteAssoc, Zenon
  <2>. QED BY <2>2, <2>3, <2>6, <2>7, <2>9
<1>. HIDE DEF P
<1>5. \A n \in Nat : n \in P
  BY <1>3, <1>4, Induction
<1>. QED BY <1>5 DEF P

\* What the frames in hand say, the last of those that were read.
Holds(h, i) ==
  IF (\A j \in 1..i : h[j].opcode # "close") /\ h[i].opcode = "data" THEN h[i].payload ELSE <<>>

LEMMA FlowsHolds ==
  ASSUME NEW s \in Seq(Frames), NEW w, NEW b, NEW h \in Seq(HandFrames), NEW p \in Seq(Bytes),
         NEW k \in 0..Len(s), Flows(s, w, b, h, p, k)
  PROVE  p \o FlattenSeq([i \in DOMAIN h |-> Holds(h, i)]) = Says(s, k)
<1>. DEFINE a == k - Len(h)
<1>1. /\ a \in 0..Len(s) /\ Len(h) \in Nat /\ a + Len(h) = k /\ a + Len(h) <= Len(s)
      /\ a \in Nat /\ k \in Nat /\ Len(s) \in Nat
  BY DEF Flows
<1>2. /\ (\A i \in 1..k : Readable(s[i])) /\ (\A i \in 1..a : s[i].opcode # "close")
      /\ \A i \in 1..Len(h) : h[i].opcode = s[a + i].opcode /\ h[i].payload = s[a + i].payload
      /\ p = Says(s, a)
  BY DEF Flows
<1>. HIDE DEF a
<1>3. ASSUME NEW i \in 1..Len(h) PROVE Holds(h, i) = Entry(s, a + i)
  <2>1. (\A j \in 1..i : h[j].opcode # "close")
          <=> (\A j \in 1..a + i : Readable(s[j]) /\ s[j].opcode # "close")
    <3>1. ASSUME \A j \in 1..i : h[j].opcode # "close", NEW j \in 1..a + i
          PROVE  Readable(s[j]) /\ s[j].opcode # "close"
      <4>1. j \in 1..k
        BY <1>1
      <4>2. CASE j \in 1..a
        BY <1>2, <4>1, <4>2
      <4>3. CASE j > a
        <5>1. j - a \in 1..i /\ j - a \in 1..Len(h) /\ a + (j - a) = j
          BY <1>1, <4>3
        <5>2. h[j - a].opcode = s[a + (j - a)].opcode
          BY <1>2, <5>1
        <5>. QED BY <1>2, <3>1, <4>1, <5>1, <5>2
      <4>. QED BY <1>1, <4>2, <4>3
    <3>2. ASSUME \A j \in 1..a + i : Readable(s[j]) /\ s[j].opcode # "close", NEW j \in 1..i
          PROVE  h[j].opcode # "close"
      <4>1. a + j \in 1..a + i /\ j \in 1..Len(h)
        BY <1>1
      <4>. QED BY <1>2, <3>2, <4>1
    <3>. QED BY <3>1, <3>2
  <2>2. h[i].opcode = s[a + i].opcode /\ h[i].payload = s[a + i].payload
    BY <1>2
  <2>. QED BY <2>1, <2>2 DEF Holds, Entry
<1>4. [i \in DOMAIN h |-> Holds(h, i)] = [i \in 1..Len(h) |-> Entry(s, a + i)]
  BY <1>3
<1>5. Says(s, a + Len(h)) = Says(s, a) \o FlattenSeq([i \in 1..Len(h) |-> Entry(s, a + i)])
  BY <1>1, SaysFrom
<1>. QED BY <1>1, <1>2, <1>4, <1>5

LEMMA StreamSays == TypedInv => EveryFrame
<1>. SUFFICES ASSUME TypedInv, page PROVE EveryFrame
  BY DEF EveryFrame
<1>1. /\ IInv /\ TypedOK /\ sent \in Seq(Frames) /\ wire \in Seq(WireBytes)
      /\ buffered \in Seq(WireBytes) /\ hand \in Seq(HandFrames)
  BY DEF TypedInv, TypedOK
<1>2. Passed \in Seq(Bytes)
  BY <1>1, WrittenTyped
<1>3. CASE ended = None
  <2>1. PICK k \in 0..Len(sent) : Flows(sent, wire, buffered, hand, Passed, k)
    BY <1>3, StreamIs DEF TypedInv
  <2>2. Read = k
    <3>1. Cardinality({i \in 1..Len(sent) : Len(Wired(sent, i)) <= Len(Wired(sent, Len(sent))) - Len(wire)}) = k
      BY <1>1, <2>1, FlowsRead
    <3>. QED BY <3>1 DEF Read, Sent, Wired
  <2>3. \A i \in 1..Read : Readable(sent[i])
    BY <2>1, <2>2 DEF Flows
  <2>4. InHand = FlattenSeq([i \in DOMAIN hand |-> Holds(hand, i)])
    BY DEF InHand, Holds
  <2>5. Passed \o InHand = Says(sent, k)
    BY <1>1, <1>2, <2>1, <2>4, FlowsHolds
  <2>6. given \o arrived \o port \o InHand = Said(Read)
    BY <2>2, <2>5 DEF Said, Says, Entry, Passed
  <2>7. Behind(Bytes, Passed, Says(sent, Len(sent)))
    BY <1>1, <1>2, <2>1, FlowsBehind
  <2>8. Says(sent, Len(sent)) \in Seq(Bytes)
    <3>1. Len(sent) \in 0..Len(sent)
      BY <1>1
    <3>. QED BY <1>1, <3>1, SaysTyped
  <2>9. IsPrefix(given \o arrived \o port, Said(Len(sent)))
    <3>1. IsPrefix(Passed, Says(sent, Len(sent)))
      BY <1>2, <2>7, <2>8, PrefixBehind
    <3>. QED BY <3>1 DEF Said, Says, Entry, Passed
  <2>. QED BY <2>3, <2>6, <2>9 DEF EveryFrame
<1>4. CASE ended # None
  <2>1. IsPrefix(Passed, Says(sent, Len(sent)))
    BY <1>4, StreamIs DEF TypedInv
  <2>2. IsPrefix(given \o arrived \o port, Said(Len(sent)))
    BY <2>1 DEF Said, Says, Entry, Passed
  <2>. QED BY <1>4, <2>2 DEF EveryFrame
<1>. QED BY <1>3, <1>4

-----------------------------------------------------------------------------
(* The theorems about what is typed.                                       *)

\* The stream's invariant holds throughout: it is there at the start, and no
\* frame sent, no read, no frame acted on, no end of the stream and no byte on
\* its way disturbs it (stream.py:141-162, face.py:1280-1300).
THEOREM TypedInvariance == TypedSpec => []TypedInv
<1>1. TypedInit => TypedInv
  BY TypedInitInv
<1>2. TypedInv /\ [TypedNext]_typedVars => TypedInv'
  BY TypedInductive
<1>. QED BY <1>1, <1>2, PTL DEF TypedSpec

\* However what a page types is cut into frames, and its frames and the port's
\* bytes into reads, every message of it reaches the device, once, in order and
\* as it was typed, and nothing else does (framing.py:5-7, 27).
THEOREM MessagesOfAPage == TypedSpec => [](OnlyMessages /\ EveryMessage)
<1>1. TypedInv => OnlyMessages /\ EveryMessage
  BY DEF TypedInv, IInv
<1>. QED BY <1>1, TypedInvariance, PTL

\* Whatever a stream's frames say, of whatever size, is at the port, unmasked,
\* once and in order: of every frame read to its end while the stream goes on,
\* and of no frame after the one that ends it (stream.py:141-162, 165-208,
\* face.py:1280-1300).
THEOREM FramesAll == TypedSpec => []EveryFrame
<1>1. TypedInv => EveryFrame
  BY StreamSays
<1>. QED BY <1>1, TypedInvariance, PTL
=============================================================================
