------------------------------- MODULE Editing -------------------------------
(***************************************************************************)
(* The script of the loaded railroad, edited on the page: the pane         *)
(* (src/ui/src/ui/dccex-script.ts), the face that reads one script and     *)
(* applies one (src/src/dccex_usb/face.py) and the store as it asks it     *)
(* (src/src/dccex_usb/store.py).                                           *)
(*                                                                         *)
(* The pane is one record, and a step is one turn of the page: what the    *)
(* turn sets, then willUpdate, then updated, which the draw runs before    *)
(* the next turn.  Answers come in any order.                              *)
(***************************************************************************)
EXTENDS Naturals, SequencesExt

CONSTANTS
  Railroads,
  None,        \* no railroad, no text, nothing in flight
  Unreported,  \* no railroad row since the broker was reached; a store that is away
  Awaited,     \* an answer that has not come
  MaxAsks,     \* bound: the asks that are out at once
  MaxPuts      \* bound: the puts on their way to the store at once

ASSUME EditingAssumption ==
  /\ {None, Unreported, Awaited} \cap Railroads = {}
  /\ None # Unreported /\ Awaited \notin {None, Unreported}

VARIABLES
  pane,    \* the script pane and what it waits for
  puts,    \* the texts on their way to the store
  store,   \* the store's text of each railroad
  held     \* history: every text it ever had of it

editVars == <<pane, puts, store, held>>

\* A text, by the railroad it was written for; one of two does not compile.
TextsOf(r) == [of : {r}, compiles : BOOLEAN]
Sample == [of |-> None, compiles |-> TRUE]
Empty  == [of |-> None, compiles |-> FALSE]

-----------------------------------------------------------------------------
(* The pane.                                                               *)

EditInit ==
  /\ pane = [loaded |-> Unreported, railroad |-> None, opened |-> None, edited |-> Empty,
             document |-> None, warning |-> FALSE, applying |-> None, asks |-> <<>>]
  /\ puts = {}
  /\ store \in [Railroads -> {None}] \cup {[r \in Railroads |-> [of |-> r, compiles |-> TRUE]]}
  /\ held = [r \in Railroads |-> {store[r]} \ {None}]

\* `opened`: the store's text, the sample where it has none, or nothing to edit
\* where it could not be read.
Opened(text) ==
  CASE text = Unreported -> [text |-> None, stored |-> FALSE]
    [] text = None       -> [text |-> Sample, stored |-> FALSE]
    [] OTHER             -> [text |-> text, stored |-> TRUE]

HasText(p) == p.opened # None /\ p.opened.text # None

Unapplied(p) == HasText(p) /\ p.edited # p.opened.text

Gone(p) == p.loaded # Unreported /\ p.railroad # None /\ p.railroad # p.loaded

Shows(p, r) ==
  [p EXCEPT !.railroad = r, !.warning = FALSE, !.opened = None, !.edited = Empty,
            !.asks = IF r = None THEN @ ELSE Append(@, [railroad |-> r, said |-> Awaited])]

\* Mutant of WillUpdate: another railroad is opened whatever is in the editor.
WillUpdateAnyway(p) ==
  IF p.loaded = Unreported THEN [p EXCEPT !.warning = FALSE]
  ELSE IF p.loaded = p.railroad THEN p
  ELSE Shows(p, p.loaded)

\* Before every draw: what the loaded railroad does to the editor.
WillUpdate(p) ==
  IF p.loaded = Unreported THEN [p EXCEPT !.warning = FALSE]
  ELSE IF p.loaded = p.railroad THEN p
  ELSE IF Unapplied(p) /\ p.applying = None THEN [p EXCEPT !.warning = FALSE]
  ELSE Shows(p, p.loaded)

\* After it: the editor is taken away, made, set to another railroad's text, or
\* left as it is.
Updated(p) ==
  IF ~HasText(p) THEN None
  ELSE IF p.document = None \/ p.document.of # p.railroad
       THEN [of |-> p.railroad, text |-> p.edited]
  ELSE p.document

Drawn(p) == LET q == WillUpdate(p) IN [q EXCEPT !.document = Updated(q)]

Draws(p) == pane' = Drawn(p) /\ Len(pane'.asks) <= MaxAsks

-----------------------------------------------------------------------------
(* What the page hears and the person does.                                *)

\* The bus says which railroad is loaded, or the broker goes.
Reports(l) ==
  /\ l # pane.loaded /\ Draws([pane EXCEPT !.loaded = l])
  /\ UNCHANGED <<puts, store, held>>

Types(t) ==
  /\ pane.document # None /\ t # pane.document.text
  /\ Draws([pane EXCEPT !.document.text = t, !.edited = t])
  /\ UNCHANGED <<puts, store, held>>

\* Apply, which opens the warning.
Applies ==
  /\ HasText(pane) /\ pane.applying = None /\ ~pane.warning
  /\ ~Gone(pane) /\ pane.loaded # Unreported
  /\ Draws([pane EXCEPT !.warning = TRUE])
  /\ UNCHANGED <<puts, store, held>>

Cancels ==
  /\ pane.warning /\ Draws([pane EXCEPT !.warning = FALSE])
  /\ UNCHANGED <<puts, store, held>>

\* The second press sends what is edited.
Confirms ==
  /\ pane.warning /\ pane.applying = None /\ pane.railroad # None /\ ~Gone(pane)
  /\ Draws([pane EXCEPT !.warning = FALSE,
              !.applying = [railroad |-> pane.railroad, text |-> pane.edited, said |-> "waiting"]])
  /\ UNCHANGED <<puts, store, held>>

Discards ==
  /\ Gone(pane) /\ HasText(pane) /\ Draws(Shows(pane, pane.loaded))
  /\ UNCHANGED <<puts, store, held>>

-----------------------------------------------------------------------------
(* The face and the store.                                                 *)

\* `_script`: what the store has, or that it is away.
Reads(i) ==
  /\ pane.asks[i].said = Awaited
  /\ \E text \in {store[pane.asks[i].railroad], Unreported} :
       pane' = [pane EXCEPT !.asks[i].said = Opened(text)]
  /\ UNCHANGED <<puts, store, held>>

\* Mutant of Shown: an answer is taken for the railroad that is open.
ShownAnyway(i) ==
  /\ pane.asks[i].said # Awaited
  /\ LET said == pane.asks[i].said
     IN  Draws([pane EXCEPT !.asks = RemoveAt(@, i), !.opened = said,
                  !.edited = IF said.text = None THEN Empty ELSE said.text])
  /\ UNCHANGED <<puts, store, held>>

\* The answer to an ask lands, and is dropped where another railroad is open.
Shown(i) ==
  /\ pane.asks[i].said # Awaited
  /\ LET said == pane.asks[i].said
         asks == RemoveAt(pane.asks, i)
     IN  IF pane.asks[i].railroad # pane.railroad
         THEN Draws([pane EXCEPT !.asks = asks])
         ELSE Draws([pane EXCEPT !.asks = asks, !.opened = said,
                       !.edited = IF said.text = None THEN Empty ELSE said.text])
  /\ UNCHANGED <<puts, store, held>>

Sent == pane.applying # None /\ pane.applying.said = "waiting"

\* `_applies`: a text that does not compile is refused, and no other is.
Refuses ==
  /\ Sent /\ ~pane.applying.text.compiles
  /\ pane' = [pane EXCEPT !.applying.said = "refused"]
  /\ UNCHANGED <<puts, store, held>>

Puts ==
  /\ Sent /\ pane.applying.text.compiles
  /\ Cardinality(puts) < MaxPuts
  /\ puts' = puts \cup {[railroad |-> pane.applying.railroad, text |-> pane.applying.text]}
  /\ pane' = [pane EXCEPT !.applying.said = "put"]
  /\ UNCHANGED <<store, held>>

\* The store takes a text, this page's or another's.
Takes(r, t) ==
  /\ store' = [store EXCEPT ![r] = t] /\ held' = [held EXCEPT ![r] = @ \cup {t}]

StoreTakes(put) ==
  /\ Takes(put.railroad, put.text) /\ puts' = puts \ {put}
  /\ IF pane.applying # None /\ pane.applying.said = "put"
          /\ put.railroad = pane.applying.railroad /\ put.text = pane.applying.text
     THEN pane' = [pane EXCEPT !.applying.said = "applied"]
     ELSE UNCHANGED pane

AnotherApplies(r, t) ==
  /\ t.compiles /\ t # store[r] /\ Takes(r, t) /\ UNCHANGED <<pane, puts>>

\* The store is away, or the page is not answered: the text may yet be taken.
Unanswered ==
  /\ pane.applying # None /\ pane.applying.said \in {"waiting", "put", "applied"}
  /\ pane' = [pane EXCEPT !.applying.said = "refused"]
  /\ UNCHANGED <<puts, store, held>>

\* Mutant of Landed: what is in the editor by now is what was applied.
LandedAsEdited ==
  /\ pane.applying # None /\ pane.applying.said \in {"applied", "refused"}
  /\ LET done == [pane EXCEPT !.applying = None]
     IN  IF pane.applying.said = "applied" /\ pane.applying.railroad = pane.railroad
         THEN Draws([done EXCEPT !.opened = [text |-> pane.edited, stored |-> TRUE]])
         ELSE Draws(done)
  /\ UNCHANGED <<puts, store, held>>

\* The answer to an Apply lands, and says nothing of another railroad.
Landed ==
  /\ pane.applying # None /\ pane.applying.said \in {"applied", "refused"}
  /\ LET done == [pane EXCEPT !.applying = None]
     IN  IF pane.applying.said = "applied" /\ pane.applying.railroad = pane.railroad
         THEN Draws([done EXCEPT !.opened = [text |-> pane.applying.text, stored |-> TRUE]])
         ELSE Draws(done)
  /\ UNCHANGED <<puts, store, held>>

-----------------------------------------------------------------------------
EditNext ==
  \/ \E l \in Railroads \cup {None, Unreported} : Reports(l)
  \/ pane.railroad # None /\ \E t \in TextsOf(pane.railroad) : Types(t)
  \/ Applies \/ Cancels \/ Confirms \/ Discards
  \/ \E i \in DOMAIN pane.asks : Reads(i) \/ Shown(i)
  \/ Refuses \/ Puts \/ Unanswered \/ Landed
  \/ \E put \in puts : StoreTakes(put)
  \/ \E r \in Railroads : \E t \in TextsOf(r) : AnotherApplies(r, t)

EditSpec == EditInit /\ [][EditNext]_editVars

-----------------------------------------------------------------------------
(* Properties.                                                             *)

\* No railroad is ever given a text that was written for another, however the
\* railroads are loaded while scripts are read and applied
\* (dccex-script.ts:515-520).
TextsOfTheirOwn == \A r \in Railroads : \A t \in held[r] : t.of \in {r, None}

\* What the page does not call unapplied is a text the store has had of that
\* railroad: an edit made while an Apply is in flight is not taken for applied
\* with it.
SaidAppliedWasHeld ==
  HasText(pane) /\ pane.opened.stored /\ ~Unapplied(pane) =>
    pane.edited \in held[pane.railroad]

\* Another railroad is loaded while an Apply is out.
LoadsUnderApply ==
  pane.applying # None /\ \E l \in Railroads \cup {None} : Reports(l)

\* An ask of this railroad is answered, which an earlier one was, or an Apply.
OpensAgain ==
  \E i \in DOMAIN pane.asks : pane.asks[i].railroad = pane.railroad /\ Shown(i)

\* Edits stay in the pane, whatever is loaded under them and whatever is
\* answered, until the person applies or discards them or types on
\* (docs/ui/README.md:459-464).  Two steps lose them against that, and no other:
\* a load under an Apply in flight, whatever was typed since it was sent
\* (dccex-script.ts:464-472), and an answer still out from when the same railroad
\* was loaded before (dccex-script.ts:516-517).
EditsStay ==
  [][Unapplied(pane) =>
       \/ pane'.edited = pane.edited /\ pane'.railroad = pane.railroad
       \/ Discards \/ \E t \in TextsOf(pane.railroad) : Types(t)
       \/ LoadsUnderApply \/ OpensAgain]_editVars

-----------------------------------------------------------------------------
(* The inductive invariant: each text is kept beside the railroad it is    *)
(* for, wherever it is on its way, what is called stored was, and the pane *)
(* is on the railroad that is loaded while an Apply is out.                *)

Text == [of : Railroads \cup {None}, compiles : BOOLEAN]
Answer == [text : Text \cup {None}, stored : BOOLEAN]
Ask == [railroad : Railroads, said : Answer \cup {Awaited}]

PaneType ==
  [loaded : Railroads \cup {None, Unreported}, railroad : Railroads \cup {None},
   opened : Answer \cup {None}, edited : Text,
   document : [of : Railroads \cup {None}, text : Text] \cup {None}, warning : BOOLEAN,
   applying : [railroad : Railroads, text : Text,
               said : {"waiting", "put", "applied", "refused"}] \cup {None},
   asks : Seq(Ask)]

TypeOK ==
  /\ pane \in PaneType
  /\ puts \subseteq [railroad : Railroads, text : Text]
  /\ store \in [Railroads -> Text \cup {None}]
  /\ held \in [Railroads -> SUBSET Text]

\* An answer about r, where h is what the store has had.
AnswerOf(said, r, h) ==
  said.text # None =>
    /\ said.text.of \in {r, None}
    /\ said.stored => said.text \in h[r]

PaneOK(p, h) ==
  /\ p \in PaneType
  /\ p.edited.of \in {p.railroad, None}
  /\ p.opened # None => p.railroad \in Railroads /\ AnswerOf(p.opened, p.railroad, h)
  /\ \A i \in DOMAIN p.asks :
       p.asks[i].said # Awaited => AnswerOf(p.asks[i].said, p.asks[i].railroad, h)
  /\ p.applying # None =>
       /\ p.applying.text.of \in {p.applying.railroad, None}
       /\ p.applying.said = "applied" => p.applying.text \in h[p.applying.railroad]

OnLoaded(p) == p.applying # None => p.loaded \in {Unreported, p.railroad}

IInv ==
  /\ TypeOK /\ PaneOK(pane, held) /\ OnLoaded(pane)
  /\ \A put \in puts : put.text.of \in {put.railroad, None}
  /\ \A r \in Railroads : store[r] # None => store[r] \in held[r]
  /\ TextsOfTheirOwn
=============================================================================
