------------------------------ MODULE Framing ------------------------------
(***************************************************************************)
(* The framing rule, src/src/dccex_usb/framing.py: a client's bytes become *)
(* whole `<...>` messages, whatever chunks they arrive in.  The layout's   *)
(* own reading of the station (src/src/dccex/replies.py, messages) is the  *)
(* same rule.  Mirror takes from here that what a client says is messages. *)
(***************************************************************************)
EXTENDS Integers, Sequences, SequencesExt

CONSTANTS
  Bytes,        \* the bytes there are: two delimiters and the rest
  Start, End,   \* framing.START and framing.END
  MaxMessage,   \* framing.MAX_MESSAGE
  MaxChunk,     \* bound: the bytes of one read
  MaxGiven      \* bound: the bytes of one client

ASSUME FramingAssumption ==
  /\ Start \in Bytes /\ End \in Bytes /\ Start # End
  /\ MaxMessage \in Nat \ {0} /\ MaxChunk \in Nat /\ MaxGiven \in Nat

VARIABLES
  arrived,   \* what of the chunk is not folded in yet
  partial,   \* the message that is not whole yet
  whole,     \* the messages that are, in the order they closed
  given      \* history: every byte folded in

vars == <<arrived, partial, whole, given>>

Init == arrived = <<>> /\ partial = <<>> /\ whole = <<>> /\ given = <<>>

\* A chunk, as TCP hands it over.
Arrives ==
  /\ arrived = <<>>
  /\ \E n \in 1..MaxChunk : Len(given) + n <= MaxGiven /\ arrived' \in [1..n -> Bytes]
  /\ UNCHANGED <<partial, whole, given>>

-----------------------------------------------------------------------------
(* The loop of `frame`, one byte at a time.                                *)

Takes == arrived' = Tail(arrived) /\ given' = Append(given, Head(arrived))

\* A start begins the message over.
Starts == partial' = <<Start>> /\ UNCHANGED whole

\* Outside a message there is nothing for a byte to belong to.
Dropped == UNCHANGED <<partial, whole>>

Ends == whole' = Append(whole, Append(partial, End)) /\ partial' = <<>>

\* Mutant of TooLong: the limit is already too much.
TooLongAtIt(longer) == Len(longer) >= MaxMessage

TooLong(longer) == Len(longer) > MaxMessage

\* One more byte of the message, or one too many.
Grows(byte) ==
  LET longer == Append(partial, byte)
  IN  partial' = (IF TooLong(longer) THEN <<>> ELSE longer) /\ UNCHANGED whole

Folds ==
  /\ arrived # <<>> /\ Takes
  /\ LET byte == Head(arrived)
     IN  \/ byte = Start /\ Starts
         \/ byte # Start /\ partial = <<>> /\ Dropped
         \/ byte = End /\ partial # <<>> /\ Ends
         \/ byte \notin {Start, End} /\ partial # <<>> /\ Grows(byte)

Next == Arrives \/ Folds

Spec == Init /\ [][Next]_vars

-----------------------------------------------------------------------------
(* What a client's bytes are, read at once: the reference.                 *)

Delimiters == {Start, End}

\* From `i` to `j` there is a start and then no delimiter, not even at `j`.
Opened(bytes, i, j) ==
  bytes[i] = Start /\ \A k \in i+1..j : bytes[k] \notin Delimiters

\* Where a message of the limit's length or less that ends at `j` begins: there
\* is at most one such place.
Beginnings(bytes, j) ==
  {i \in 1..(j - 1) : j - i <= MaxMessage /\ Opened(bytes, i, j - 1) /\ bytes[j] = End}

\* The message that ends at `j`, if one does.
EndingAt(bytes, j) ==
  IF Beginnings(bytes, j) = {} THEN <<>>
  ELSE <<SubSeq(bytes, CHOOSE i \in Beginnings(bytes, j) : TRUE, j)>>

Messages(bytes) == FlattenSeq([j \in DOMAIN bytes |-> EndingAt(bytes, j)])

-----------------------------------------------------------------------------
(* Properties.                                                             *)

\* Every variable stays in its type, and no more than the limit is held for a
\* client.
TypeOK ==
  /\ arrived \in Seq(Bytes) /\ partial \in Seq(Bytes) /\ Len(partial) <= MaxMessage
  /\ whole \in Seq(Seq(Bytes)) /\ given \in Seq(Bytes)

\* One start, one end, nothing that delimits between them, and no longer than
\* the limit and its end (framing.py:9-16).
IsMessage(m) ==
  /\ Len(m) \in 2..(MaxMessage + 1) /\ m[1] = Start /\ m[Len(m)] = End
  /\ \A k \in 2..(Len(m) - 1) : m[k] \notin Delimiters

\* What reaches the device is a message, whatever was typed (framing.py:5-7).
OnlyMessages == \A k \in 1..Len(whole) : IsMessage(whole[k])

\* And it is every message that was typed, once and in order, as it was typed:
\* how the bytes were cut into chunks says nothing (framing.py:27, frame).
EveryMessage == whole = Messages(given)

\* A partial message is a message but for its end.
Begun ==
  partial # <<>> =>
    /\ partial[1] = Start
    /\ \A k \in 2..Len(partial) : partial[k] \notin Delimiters

\* It is what was given last, and where there is none, none that is open is
\* short enough to become a message.
Held ==
  IF partial # <<>>
  THEN /\ Len(partial) <= Len(given)
       /\ partial = SubSeq(given, Len(given) - Len(partial) + 1, Len(given))
  ELSE \A i \in 1..Len(given) :
         Opened(given, i, Len(given)) => Len(given) - i >= MaxMessage

\* The inductive invariant of OnlyMessages and of EveryMessage.
IInv == TypeOK /\ OnlyMessages /\ EveryMessage /\ Begun /\ Held
=============================================================================
