------------------------------- MODULE Typed -------------------------------
(***************************************************************************)
(* What is typed, on its way to the device: a client's bytes arrive at the *)
(* mirror's port and are framed (Framing), and a page's arrive as frames   *)
(* of a stream (src/src/dccex_usb/stream.py), which the face takes apart   *)
(* and writes to that port (src/src/dccex_usb/face.py, _to_station).       *)
(*                                                                         *)
(* A byte of a frame is what it stands for: a header's two bytes their     *)
(* fields, a size its digits, and a masked byte the byte with the key it   *)
(* was masked with.  Text, binary and continuation are one opcode, "data". *)
(***************************************************************************)
EXTENDS Framing, FiniteSets

CONSTANTS
  MaxControl,   \* stream.MAX_CONTROL
  MaxFrame,     \* stream.MAX_FRAME_BYTES
  Base,         \* what a byte of a size counts to, 256
  Widths,       \* the bytes of a size in its two longer forms, <<2, 8>>
  Weight,       \* what a byte that so many follow counts for: powers of the base
  Keys,         \* the bytes of a mask, in order, four of them
  None,
  ReadSize,     \* bound: the bytes of a stream read at once
  MaxSent       \* bound: the frames of one stream

ASSUME TypedAssumption ==
  /\ {MaxControl, MaxFrame, Base, ReadSize, MaxSent} \subseteq Nat
  /\ Base > 1 /\ Widths \in [1..2 -> Nat \ {0}] /\ Widths[1] <= Widths[2]
  /\ Weight \in [0..Widths[2] -> Nat] /\ Weight[0] = 1
  /\ \A k \in 1..Widths[2] : Weight[k] = Base * Weight[k - 1]
  /\ MaxControl + 1 < Weight[Widths[2]] /\ MaxFrame + 1 < Weight[Widths[2]]
  /\ Keys \in Seq(ToSet(Keys)) /\ Keys # <<>>
  /\ None \notin {"NORMAL", "GOING_AWAY", "PROTOCOL_ERROR", "TOO_LARGE", "gone"}

VARIABLES
  page,      \* who types
  sent,      \* history: the frames the browser sent
  wire,      \* their bytes, until they are read
  buffered,  \* `partial`: the bytes of a frame that is not whole
  hand,      \* the frames taken off and not yet acted on
  ended,     \* why the stream is over
  port       \* what was written to the mirror's port and is on its way

streamVars == <<sent, wire, buffered, hand, ended, port>>
typedVars == <<page, streamVars, vars>>

-----------------------------------------------------------------------------
(* A frame and its bytes.                                                  *)

TwoBytes == MaxControl + 1
EightBytes == MaxControl + 2

\* The shortest of a size's three forms, as `framed` writes it.
Form(size) ==
  IF size <= MaxControl THEN size
  ELSE IF size < Weight[Widths[1]] THEN TwoBytes ELSE EightBytes

Width(form) ==
  CASE form = TwoBytes -> Widths[1] [] form = EightBytes -> Widths[2] [] OTHER -> 0

KeyOf(i) == Keys[((i - 1) % Len(Keys)) + 1]

\* `to_bytes`, of the larger first.
Digits(size, width) == [i \in 1..width |-> (size \div Weight[width - i]) % Base]

\* What a browser sends.
Encoded(f) ==
  LET size == Len(f.payload)
      form == Form(size)
  IN  <<[fin |-> f.fin, reserved |-> f.reserved, opcode |-> f.opcode],
        [masked |-> f.masked, form |-> form]>>
      \o Digits(size, Width(form))
      \o Keys
      \o [i \in 1..size |-> [byte |-> f.payload[i], key |-> KeyOf(i)]]

Frame(opcode, payload) ==
  [opcode |-> opcode, payload |-> payload, fin |-> TRUE, reserved |-> FALSE, masked |-> TRUE]

Long(n) == [i \in 1..n |-> Start]

\* Frames of a page, and of a peer that does not speak the protocol.
Spoken ==
  {Frame("data", p) : p \in UNION {[1..n -> Bytes] : n \in 0..MaxFrame}}
    \cup {Frame(o, <<>>) : o \in {"ping", "pong", "close"}}
Garbled ==
  {[Frame("data", <<Start>>) EXCEPT !.masked = FALSE],
   [Frame("data", <<Start>>) EXCEPT !.reserved = TRUE],
   Frame("data", Long(MaxFrame + 1)), Frame("odd", <<>>),
   [Frame("ping", <<>>) EXCEPT !.fin = FALSE], Frame("ping", Long(MaxControl + 1))}

-----------------------------------------------------------------------------
(* `unframed`, over the bytes held.                                        *)

Control == {"close", "ping", "pong"}

At(data) == 2 + Width(data[2].form)

\* `int.from_bytes`, of the larger first.
Number(digits) ==
  LET upTo[i \in 0..Len(digits)] == IF i = 0 THEN 0 ELSE Base * upTo[i - 1] + digits[i]
  IN  upTo[Len(digits)]

\* Which the size is, or what its own byte has.
Size(data) ==
  IF Width(data[2].form) = 0 THEN data[2].form ELSE Number(SubSeq(data, 3, At(data)))

Whole(data) == Len(data) >= At(data) + Len(Keys) + Size(data)

\* What `_one` comes to, in the order it looks.
Verdict(data) ==
  IF Len(data) < 2 THEN "more"
  ELSE IF \/ data[1].reserved \/ ~data[2].masked
          \/ data[1].opcode \notin {"data"} \cup Control THEN "PROTOCOL_ERROR"
  ELSE IF Len(data) < At(data) THEN "more"
  ELSE IF data[1].opcode \in Control /\ (Size(data) > MaxControl \/ ~data[1].fin)
       THEN "PROTOCOL_ERROR"
  ELSE IF Size(data) > MaxFrame THEN "TOO_LARGE"
  ELSE IF ~Whole(data) THEN "more"
  ELSE "frame"

\* A byte masked with another key is some other byte.
Unmasked(b, key) == IF b.key = key THEN b.byte ELSE CHOOSE c \in Bytes : c # b.byte

\* Mutant of Payload: the mask begins where the header does.
PayloadFromHead(data) ==
  [i \in 1..Size(data) |-> Unmasked(data[At(data) + Len(Keys) + i], KeyOf(At(data) + i))]

Payload(data) ==
  [i \in 1..Size(data) |-> Unmasked(data[At(data) + Len(Keys) + i], KeyOf(i))]

\* One turn of the loop: a whole frame is taken off the rest.
Taken(o) ==
  LET data == o.rest
  IN  IF Verdict(data) = "frame"
      THEN [rest   |-> SubSeq(data, At(data) + Len(Keys) + Size(data) + 1, Len(data)),
            frames |-> Append(o.frames, [opcode |-> data[1].opcode, payload |-> Payload(data)])]
      ELSE o

\* What is left of `data` when as many are as there may be, and why no more are.
Unframed(data) ==
  LET off[n \in 0..Len(data)] ==
        IF n = 0 THEN [rest |-> data, frames |-> <<>>] ELSE Taken(off[n - 1])
      last == off[Len(data)]
  IN  [rest |-> last.rest, frames |-> last.frames, why |-> Verdict(last.rest)]

-----------------------------------------------------------------------------
(* What a stream says, its frames read at once: the reference.             *)

Readable(f) ==
  /\ ~f.reserved /\ f.masked /\ f.opcode \in {"data"} \cup Control
  /\ Len(f.payload) <= MaxFrame
  /\ f.opcode \in Control => f.fin /\ Len(f.payload) <= MaxControl

\* The bytes of the first `k` frames that are for the mirror: those before the
\* one that ends the stream.
Said(k) ==
  LET open(i) == \A j \in 1..i : Readable(sent[j]) /\ sent[j].opcode # "close"
  IN  FlattenSeq([i \in 1..k |-> IF open(i) /\ sent[i].opcode = "data" THEN sent[i].payload ELSE <<>>])

\* The bytes of the first `k` frames.
Sent(k) == FlattenSeq([i \in 1..k |-> Encoded(sent[i])])

\* The frames that have been read to their last byte.
Read ==
  LET read == Len(Sent(Len(sent))) - Len(wire)
  IN  Cardinality({k \in 1..Len(sent) : Len(Sent(k)) <= read})

-----------------------------------------------------------------------------
(* The stream.                                                             *)

\* The browser sends a frame.
Types(f) ==
  /\ page /\ ended = None /\ Len(sent) < MaxSent
  /\ Len(Said(Len(sent))) + Len(f.payload) <= MaxGiven
  /\ sent' = Append(sent, f) /\ wire' = wire \o Encoded(f)
  /\ UNCHANGED <<page, buffered, hand, ended, port, vars>>

\* The stream ends, and with it this end of the port is aborted: of what was on
\* its way, the mirror reads what it has and may lose the rest.
Over(why) ==
  /\ ended' = why /\ hand' = <<>>
  /\ \E n \in 0..Len(port) : port' = SubSeq(port, 1, n)

Reads ==
  /\ page /\ ended = None /\ hand = <<>> /\ wire # <<>>
  /\ \E n \in 1..ReadSize :
       /\ n <= Len(wire) /\ wire' = SubSeq(wire, n + 1, Len(wire))
       /\ LET u == Unframed(buffered \o SubSeq(wire, 1, n))
          IN  IF u.why = "more"
              THEN buffered' = u.rest /\ hand' = u.frames /\ UNCHANGED <<ended, port>>
              ELSE Over(u.why) /\ UNCHANGED buffered
  /\ UNCHANGED <<page, sent, vars>>

\* One frame in hand: bytes for the port, a ping or a pong, which say nothing to
\* the mirror, or the end.
Acts ==
  /\ hand # <<>>
  /\ LET f == Head(hand)
     IN  \/ f.opcode = "data" /\ port' = port \o f.payload /\ hand' = Tail(hand) /\ UNCHANGED ended
         \/ f.opcode \in {"ping", "pong"} /\ hand' = Tail(hand) /\ UNCHANGED <<ended, port>>
         \/ f.opcode = "close" /\ Over("NORMAL")
  /\ UNCHANGED <<page, sent, wire, buffered, vars>>

\* The browser is gone, or the mirror lets this client go.
Goes ==
  /\ page /\ ended = None
  /\ (hand = <<>> /\ Over("gone")) \/ Over("GOING_AWAY")
  /\ UNCHANGED <<page, sent, wire, buffered, vars>>

\* The mirror reads its port.
PortArrives ==
  /\ arrived = <<>>
  /\ \E n \in 1..MaxChunk :
       /\ n <= Len(port)
       /\ arrived' = SubSeq(port, 1, n) /\ port' = SubSeq(port, n + 1, Len(port))
  /\ UNCHANGED <<page, sent, wire, buffered, hand, ended, partial, whole, given>>

-----------------------------------------------------------------------------
TypedInit ==
  /\ Init /\ page \in BOOLEAN /\ sent = <<>> /\ wire = <<>> /\ buffered = <<>>
  /\ hand = <<>> /\ ended = None /\ port = <<>>

TypedNext ==
  \/ \E f \in Spoken \cup Garbled : Types(f)
  \/ Reads \/ Acts \/ Goes \/ PortArrives
  \/ ~page /\ Arrives /\ UNCHANGED <<page, streamVars>>
  \/ Folds /\ UNCHANGED <<page, streamVars>>

TypedSpec == TypedInit /\ [][TypedNext]_typedVars
-----------------------------------------------------------------------------
(* Properties.                                                             *)

\* Of the frames in hand, the bytes that are still to be written.
InHand ==
  LET open(i) == \A j \in 1..i : hand[j].opcode # "close"
  IN  FlattenSeq([i \in DOMAIN hand |->
        IF open(i) /\ hand[i].opcode = "data" THEN hand[i].payload ELSE <<>>])

\* What reaches the mirror's port is what the page's frames say, unmasked, once
\* and in order, however their bytes were cut into reads: of every frame read to
\* its end while the stream goes on, and of no frame after the one that ends it
\* (stream.py:141-162, face.py:1280-1300).  A stream that has ended may have kept
\* the last frames to itself: those of the read an unreadable one was in, and
\* what the abort of the port overtook.
EveryFrame ==
  page =>
    /\ ended = None =>
         /\ \A i \in 1..Read : Readable(sent[i])
         /\ given \o arrived \o port \o InHand = Said(Read)
    /\ IsPrefix(given \o arrived \o port, Said(Len(sent)))

\* While a stream goes on, what is held and what is to be read are what is left
\* of the frames' bytes when the first `k` are taken off; those can be read, the
\* last of them are in hand, and what the others say is at the port.
Streams(k) ==
  LET acted == k - Len(hand)
  IN  /\ Sent(Len(sent)) = Sent(k) \o (buffered \o wire)
      /\ Verdict(buffered) = "more" /\ \A i \in 1..k : Readable(sent[i])
      /\ acted >= 0 /\ \A i \in 1..acted : sent[i].opcode # "close"
      /\ \A i \in 1..Len(hand) : /\ hand[i].opcode = sent[acted + i].opcode
                                /\ hand[i].payload = sent[acted + i].payload
      /\ given \o arrived \o port = Said(acted)

\* The inductive invariant of EveryFrame.
StreamInv ==
  IF page THEN IF ended = None THEN \E k \in 0..Len(sent) : Streams(k)
               ELSE hand = <<>> /\ IsPrefix(given \o arrived \o port, Said(Len(sent)))
  ELSE port = <<>> /\ hand = <<>>
=============================================================================
