------------------------------ MODULE Journal ------------------------------
(***************************************************************************)
(* The two files the translator keeps on the box, the journal              *)
(* (src/src/dccex/journal.py) and the log (src/src/dccex/log.py), and the  *)
(* page that reads them through the mirror's face                          *)
(* (src/src/dccex_usb/journal.py, log.py, face.py).                        *)
(*                                                                         *)
(* A file is the set of the lines in it, each named by when it was said:   *)
(* lines are appended, and a trim leaves them in that order.  The process  *)
(* may end between any two steps, and the disk may be full.  A line is     *)
(* written whole or stays whole in the writer's buffer; a disk that takes  *)
(* half of one is not modelled.                                            *)
(***************************************************************************)
EXTENDS Integers, SequencesExt

CONSTANTS
  Districts,
  None,
  Lines,      \* what a line may be: the district whose power it says, and its size
  Above,      \* TRIMMED_ABOVE
  To,         \* TRIMMED_TO
  MaxLines,   \* bound: how much is said
  MaxTroubles \* bound: how often the process ends or the disk fills

ASSUME JournalAssumption ==
  /\ None \notin Districts
  /\ Lines \subseteq [of : Districts \cup {None}, size : Nat \ {0}]
  /\ {Above, To, MaxLines, MaxTroubles} \subseteq Nat

VARIABLES
  which,     \* "journal" or "log"
  said,      \* everything this file was ever given to keep
  reached,   \* history: and what of it ever reached the disk
  file,      \* what stands at the path
  beside,    \* what stands beside it, being the file to come, or None
  buffered,  \* what a full disk left in the writer's buffer
  writer,    \* "idle", "over" its size, "beside" it, or "down"
  full,      \* the disk
  troubles,  \* what may still go wrong
  page,      \* the bytes the page holds
  trimmed,   \* history: the file was since the page last asked
  misled     \* history: and the page, which had read no more than a trim leaves or
             \* the file has grown back to, cannot tell

vars == <<which, said, reached, file, beside, buffered, writer, full, troubles, page, trimmed, misled>>
pageVars == <<page, trimmed, misled>>

-----------------------------------------------------------------------------
\* Where a line's bytes lie is where the lines before it end.
BytesOf(n) == [b \in 1..said[n].size |-> <<n, b>>]
Bytes(f) == FlattenSeq([n \in DOMAIN said |-> IF n \in f THEN BytesOf(n) ELSE <<>>])
Size(f)  == Len(Bytes(f))

\* The newest lines that come to no more than TRIMMED_TO.
Newest(f) == {n \in f : \A m \in f : m >= n => Size({k \in f : k >= m}) <= To}

\* The last power line of each district in `f`.
LastPower(f) ==
  {n \in f : said[n].of # None /\ ~\E m \in f : m > n /\ said[m].of = said[n].of}

\* Mutant of Trimmed: every power line is kept.
TrimmedOfAll(f) == Newest(f) \cup {n \in f : which = "journal" /\ said[n].of # None}

\* What a trim leaves: the log has no districts.
Trimmed(f) ==
  Newest(f) \cup IF which = "journal" THEN LastPower(f \ Newest(f)) ELSE {}

Checked(f) == IF Size(f) > Above THEN "over" ELSE "idle"

-----------------------------------------------------------------------------
(* The translator.                                                         *)

\* `wrote`: a disk that takes the line takes what was held back before it.
Writes(line) ==
  /\ writer = "idle" /\ Len(said) < MaxLines
  /\ which = "log" => line.of = None
  /\ said' = Append(said, line)
  /\ LET n == Len(said) + 1
     IN  IF full THEN buffered' = buffered \cup {n} /\ UNCHANGED <<reached, file, writer, misled>>
         ELSE /\ file' = file \cup buffered \cup {n}
              /\ reached' = reached \cup buffered \cup {n}
              /\ buffered' = {}
              /\ writer' = Checked(file)'
              /\ misled' = (misled \/ (trimmed /\ Len(page) \in 1..Size(file)'))
  /\ UNCHANGED <<which, beside, full, troubles, page, trimmed>>

\* Mutant of WritesBeside: the file is written over where it stands.
WritesOver ==
  /\ writer = "over" /\ ~full
  /\ beside' = Trimmed(file) /\ file' = {} /\ writer' = "beside"
  /\ UNCHANGED <<which, said, reached, buffered, full, troubles, pageVars>>

\* `_trimmed`, up to the new file.
WritesBeside ==
  /\ writer = "over" /\ ~full
  /\ beside' = Trimmed(file) /\ writer' = "beside"
  /\ UNCHANGED <<which, said, reached, file, buffered, full, troubles, pageVars>>

\* Which a full disk refuses: `wrote` has its caller told, or the process does
\* not come up.  What stands at the path is untouched.
TrimFails ==
  /\ writer = "over" /\ full /\ beside' = {} /\ writer' \in {"idle", "down"}
  /\ UNCHANGED <<which, said, reached, file, buffered, full, troubles, pageVars>>

\* And the rename, with the file opened anew.
Renames ==
  /\ writer = "beside"
  /\ file' = beside /\ beside' = None /\ writer' = "idle" /\ trimmed' = TRUE
  /\ misled' = (misled \/ Len(page) \in 1..To)
  /\ UNCHANGED <<which, said, reached, buffered, full, troubles, page>>

\* The process ends with what it has not written.
Ends ==
  /\ writer # "down" /\ writer' = "down" /\ buffered' = {}
  /\ troubles > 0 /\ troubles' = troubles - 1
  /\ UNCHANGED <<which, said, reached, file, beside, full, pageVars>>

\* And comes up again: the constructor trims too.
ComesUp ==
  /\ writer = "down" /\ writer' = Checked(file)
  /\ UNCHANGED <<which, said, reached, file, beside, buffered, full, troubles, pageVars>>

Disk ==
  /\ full' = ~full /\ (full \/ troubles > 0)
  /\ troubles' = IF full THEN troubles ELSE troubles - 1
  /\ UNCHANGED <<which, said, reached, file, beside, buffered, writer, pageVars>>

-----------------------------------------------------------------------------
(* The page.  The face opens the file by name, so one read is of one file, *)
(* as it stood at one moment.                                              *)

\* Mutant of AsksLog: a range past the end is no bytes.
AsksAnyway ==
  /\ which = "log" /\ trimmed' = FALSE
  /\ LET served == Bytes(file)
     IN  /\ page' = page \o SubSeq(served, Len(page) + 1, Len(served))
  /\ UNCHANGED <<which, said, reached, file, beside, buffered, writer, full, troubles, misled>>

\* The log from the byte the page has read up to: a start past the end is a
\* `416`, and the page drops what it has.
AsksLog ==
  /\ which = "log" /\ trimmed' = FALSE
  /\ LET served == Bytes(file)
     IN  IF Len(page) > Len(served)
         THEN page' = <<>> /\ misled' = FALSE
         ELSE /\ page' = page \o SubSeq(served, Len(page) + 1, Len(served))
              /\ UNCHANGED misled
  /\ UNCHANGED <<which, said, reached, file, beside, buffered, writer, full, troubles>>

-----------------------------------------------------------------------------
Init ==
  /\ which \in {"journal", "log"} /\ said = <<>> /\ reached = {} /\ file = {}
  /\ beside = None /\ buffered = {} /\ writer = "idle" /\ full = FALSE /\ troubles = MaxTroubles
  /\ page = <<>> /\ trimmed = FALSE /\ misled = FALSE

Next ==
  \/ \E line \in Lines : Writes(line)
  \/ WritesBeside \/ TrimFails \/ Renames \/ Ends \/ ComesUp \/ Disk
  \/ AsksLog

Spec == Init /\ [][Next]_vars

-----------------------------------------------------------------------------
TypeOK ==
  /\ which \in {"journal", "log"} /\ said \in Seq(Lines)
  /\ file \subseteq reached /\ reached \subseteq DOMAIN said
  /\ beside = None \/ beside \subseteq reached
  /\ buffered \subseteq DOMAIN said \ reached
  /\ writer \in {"idle", "over", "beside", "down"}
  /\ troubles \in 0..MaxTroubles
  /\ full \in BOOLEAN /\ trimmed \in BOOLEAN /\ misled \in BOOLEAN
  /\ page \in Seq(Nat \X Nat)

\* What the file says of a district is the last that was written of it.
KeepsThePower ==
  which = "journal" => LastPower(reached) \subseteq file

\* A line that is gone is older than every line the file has, but for a power
\* line the file needs, having no later one of that district up to the line
\* that is gone.
OnlyOldestGo ==
  \A gone \in reached \ file, n \in file :
    n < gone =>
      /\ which = "journal" /\ said[n].of # None
      /\ \A m \in reached : n < m /\ m <= gone => said[m].of # said[n].of

\* The page's log is a run of what was written with nothing missing or said
\* twice: of a page that had read past TRIMMED_TO at every trim, and asks before
\* the file has grown back to what it had read.  Any other cannot tell that the
\* file was trimmed, and is given bytes from inside other lines, against "a file
\* the translator trimmed is read whole again" (dccex-log.ts:5).
TailIsWhole ==
  which = "log" /\ ~misled =>
    LET all == Bytes(reached)
    IN  \E i \in 0..(Len(all) - Len(page)) : page = SubSeq(all, i + 1, i + Len(page))

\* A page that has asked since the last trim has the file as far as it goes, and
\* one that has not has read past its end.
ReadSoFar == which = "log" /\ ~misled /\ ~trimmed => IsPrefix(page, Bytes(file))
ReadPast  == which = "log" /\ ~misled /\ trimmed /\ page # <<>> => Len(page) > Size(file)

\* What is held back is newer than what was written, and the file to come is
\* the trim of the one that stands.
IInv ==
  /\ TypeOK /\ KeepsThePower /\ OnlyOldestGo /\ TailIsWhole /\ ReadSoFar /\ ReadPast
  /\ \A n \in reached, m \in buffered : n < m
  /\ writer = "beside" => beside = Trimmed(file)
=============================================================================
