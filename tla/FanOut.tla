------------------------------- MODULE FanOut -------------------------------
(***************************************************************************)
(* What the mirror owes its clients (src/src/dccex_usb/station.py,         *)
(* _fan_out and _cut_off): every byte the device says, to every client     *)
(* that keeps up, without waiting for any of them.                         *)
(*                                                                         *)
(* A byte is known by its place in what the device has said.  What has     *)
(* been written to a client is counted twice, as asyncio does: what was    *)
(* written, and how much of it the OS has taken.                           *)
(***************************************************************************)
EXTENDS Integers, Sequences

CONSTANTS
  Clients,
  MaxOutstanding,   \* MAX_OUTSTANDING_BYTES
  ReadSize,         \* READ_SIZE: the most one read of the device is
  MaxSaid           \* bound: how much the device says

ASSUME FanOutAssumption ==
  MaxOutstanding \in Nat /\ ReadSize \in Nat \ {0} /\ MaxSaid \in Nat

VARIABLES
  said,      \* how much the device has said
  clients,   \* Station._clients
  behind,    \* Station._behind
  conn,      \* each client's connection: "closing" is transport.is_closing()
  from,      \* how much had been said when it joined
  sent,      \* what has been written to it since
  taken,     \* how much of that the OS has taken
  why,       \* what the log last said of its leaving
  slow       \* history: those that were let fall too far behind

mirrorVars == <<said, clients, behind, conn, from, sent, taken, why, slow>>

MirrorInit ==
  /\ said = 0 /\ clients = {} /\ behind = {} /\ slow = {}
  /\ conn = [c \in Clients |-> "out"] /\ from = [c \in Clients |-> 0]
  /\ sent = [c \in Clients |-> <<>>] /\ taken = [c \in Clients |-> 0]
  /\ why = [c \in Clients |-> "nothing"]

Closing(c) == conn[c] = "closing"

\* `outstanding`: an aborted transport owes nothing.
Owes(c) == IF conn[c] \in {"open", "eof"} THEN Len(sent[c]) - taken[c] ELSE 0

-----------------------------------------------------------------------------
\* The handler of a connection begins: it is a client from here on.
Join(c) ==
  /\ conn[c] = "out" /\ conn' = [conn EXCEPT ![c] = "open"]
  /\ clients' = clients \cup {c} /\ slow' = slow \ {c}
  /\ from' = [from EXCEPT ![c] = said] /\ sent' = [sent EXCEPT ![c] = <<>>]
  /\ taken' = [taken EXCEPT ![c] = 0] /\ why' = [why EXCEPT ![c] = "nothing"]
  /\ UNCHANGED <<said, behind>>

TooFar(c) == Owes(c) > MaxOutstanding

\* Mutant of CutOff: a client that is behind is passed over this once.
PassedOver(cut) == UNCHANGED <<clients, behind, conn>>

\* `_cut_off`, of each in turn.
CutOff(cut) ==
  /\ clients' = clients \ cut /\ behind' = behind \cup cut
  /\ conn' = [c \in Clients |-> IF c \in cut THEN "closing" ELSE conn[c]]

\* `_fan_out`: the device says `n` bytes more.
FanOut(n) ==
  LET live == {c \in clients : ~Closing(c)}
      cut  == {c \in live : TooFar(c)}
  IN  /\ said + n <= MaxSaid /\ said' = said + n
      /\ CutOff(cut) /\ slow' = slow \cup cut
      /\ sent' = [c \in Clients |->
                    IF c \in live \ cut
                      THEN sent[c] \o [i \in 1..n |-> said + i] ELSE sent[c]]
      /\ UNCHANGED <<from, taken, why>>

\* The OS takes more of what a client is owed.
Takes(c, n) ==
  /\ n \in 1..Owes(c) /\ taken' = [taken EXCEPT ![c] = @ + n]
  /\ UNCHANGED <<said, clients, behind, conn, from, sent, why, slow>>

\* The client has said all it will; it may still read.
HalfClose(c) ==
  /\ conn[c] = "open" /\ conn' = [conn EXCEPT ![c] = "eof"]
  /\ UNCHANGED <<said, clients, behind, from, sent, taken, why, slow>>

\* Its connection is lost, or aborted: by the grace, or by `close`.
Lost(c) ==
  /\ conn[c] \in {"open", "eof"} /\ conn' = [conn EXCEPT ![c] = "closing"]
  /\ UNCHANGED <<said, clients, behind, from, sent, taken, why, slow>>

\* `_client`'s finally.
Leave(c) ==
  /\ conn[c] \in {"eof", "closing"}
  /\ why' = [why EXCEPT ![c] = IF c \in behind THEN "behind" ELSE "gone"]
  /\ clients' = clients \ {c} /\ behind' = behind \ {c}
  /\ conn' = [conn EXCEPT ![c] = "out"]
  /\ UNCHANGED <<said, from, sent, taken, slow>>

Client(c) == \/ Join(c) \/ HalfClose(c) \/ Lost(c) \/ Leave(c)
             \/ \E n \in 1..MaxSaid : Takes(c, n)

MirrorNext == \/ \E n \in 1..ReadSize : FanOut(n)
              \/ \E c \in Clients : Client(c)

MirrorSpec == MirrorInit /\ [][MirrorNext]_mirrorVars

-----------------------------------------------------------------------------
(* Properties.                                                             *)

\* Every variable stays in its type, and who is cut off is off the list.
MirrorTypeOK ==
  /\ said \in 0..MaxSaid
  /\ clients \subseteq Clients /\ behind \subseteq Clients \ clients
  /\ slow \subseteq Clients
  /\ conn \in [Clients -> {"out", "open", "eof", "closing"}]
  /\ from \in [Clients -> 0..MaxSaid] /\ sent \in [Clients -> Seq(1..MaxSaid)]
  /\ taken \in [Clients -> Nat]
  /\ why \in [Clients -> {"nothing", "gone", "behind"}]

\* A client is written every byte the device says from when it joined until it
\* is cut off or goes: none is missing, doubled or out of its place, however
\* slow the others are (station.py:690, "Every byte the device sent, to every
\* client that is keeping up").
NoGaps ==
  \A c \in Clients :
    /\ \A i \in 1..Len(sent[c]) : sent[c][i] = from[c] + i
    /\ taken[c] <= Len(sent[c])
    /\ c \in clients /\ ~Closing(c) => from[c] + Len(sent[c]) = said

\* A client that stops reading costs the mirror no more than the limit and the
\* read that took it past it (station.py:114-118).
OwesBounded == \A c \in Clients : Owes(c) <= MaxOutstanding + ReadSize

\* The log says of a client that it was too far behind exactly when it was, and
\* of nobody who is on the port a second time (station.py:541-544).
WhyIsTrue ==
  \A c \in Clients :
    /\ why[c] = "behind" => c \in slow
    /\ why[c] = "gone" => c \notin slow

\* The inductive invariant: whoever is open is on the list and has had no more
\* than was said, and is remembered as cut off for as long as it is leaving.
OpenIsListed == \A c \in Clients : conn[c] \in {"open", "eof"} => c \in clients
SentWasSaid  == \A c \in Clients : from[c] + Len(sent[c]) <= said
CutIsMarked ==
  \A c \in Clients : /\ c \in behind => c \in slow /\ Closing(c)
                     /\ c \in slow /\ conn[c] # "out" => c \in behind
                     /\ conn[c] # "out" => why[c] = "nothing"
MirrorIInv ==
  /\ MirrorTypeOK /\ NoGaps /\ OwesBounded /\ WhyIsTrue
  /\ OpenIsListed /\ SentWasSaid /\ CutIsMarked
=============================================================================
