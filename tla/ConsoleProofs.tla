---------------------------- MODULE ConsoleProofs ----------------------------
(***************************************************************************)
(* Proofs about Console, for every set of environments and trees and every *)
(* bound: its type invariant, and that a screen whose answers did not      *)
(* cross shows what is stored.                                             *)
(*                                                                         *)
(* ShowsStored speaks of a screen at rest.  The invariant that implies it  *)
(* says of every request in flight what its answer will make of the        *)
(* screen: an answered read carries what is stored, a toggle on its way    *)
(* has the stored flag to go back to, a stored save has the editor's tree. *)
(***************************************************************************)
EXTENDS Console, TLAPS

ToggleSent == write # Nothing /\ write.op = "toggle" /\ write.state = "sent"
ToggleStored == write # Nothing /\ write.op = "toggle" /\ write.state # "sent"
Save(state) == write # Nothing /\ write.op = "save" /\ write.state = state

\* What is shown is stored, and the editor starts from it.
Current == shown # Nothing /\ Same(shown, stored[selected])
EditorFollows == screen = "flag" /\ ~dirty => tree = firstTree(shown)

\* Controls that write are disabled exactly while a write is in flight.
BusyInv == busy <=> write # Nothing

\* Without a crossing there is one request in flight at a time, publishes aside,
\* and it is about the environment selected.
AloneInv ==
    ~crossed =>
        /\ \A r, q \in Slots : reads[r] # Nothing /\ reads[q] # Nothing => r = q
        /\ \A r \in Slots : reads[r] # Nothing => reads[r].env = selected
        /\ write # Nothing /\ write.op # "publish" => ~Reading /\ write.env = selected

\* Only the flag screen saves, and until the editor is used again the tree it
\* holds is the one on its way.
SaveInv ==
    write # Nothing /\ write.op = "save" =>
        /\ screen = "flag"
        /\ ~crossed => dirty /\ tree = write.tree

AnswerInv ==
    ~crossed /\ ~foreign =>
        \A r \in Slots : reads[r] # Nothing /\ reads[r].answer # Nothing =>
            Same(reads[r].answer, stored[selected])

RestInv ==
    ~crossed /\ ~foreign /\ ~Racing /\ selected # NoEnvironment => Current /\ EditorFollows

ToggleInv ==
    ~crossed /\ ~foreign =>
        /\ ToggleSent =>
             /\ shown # Nothing /\ write.was # Nothing
             /\ Same(write.was, stored[selected])
             /\ shown = [write.was EXCEPT !.enabled = ~@]
             /\ EditorFollows
        /\ ToggleStored => Current /\ EditorFollows

StoredSaveInv ==
    ~crossed /\ ~foreign =>
        /\ Save("sent") => Current
        /\ Save("stored") => stored[selected].rules = <<write.tree>>
        /\ Save("answered") =>
             /\ write.answer # Nothing
             /\ Same(write.answer, stored[selected])
             /\ write.answer.rules = <<write.tree>>

FlowInv == BusyInv /\ AloneInv /\ SaveInv
ViewInv == AnswerInv /\ RestInv /\ ToggleInv /\ StoredSaveInv
\* A toggle remembers the flag that was clicked, and one is still shown.
WasInv ==
    /\ write # Nothing /\ write.op = "toggle" => write.was # Nothing /\ shown # Nothing
    /\ \A w \in late : w.op = "toggle" => w.was # Nothing

TypeInv == ConsoleTypeOK /\ WasInv

-----------------------------------------------------------------------------
(* Types.                                                                  *)

LEMMA FirstTreeType ==
    ASSUME NEW flag \in FlagDetail
    PROVE  firstTree(flag) \in Trees
<1>1. flag.rules \in Seq(Trees)
  BY DEF FlagDetail
<1>2. CASE flag.rules = <<>>
  BY <1>2, TreesAssumption DEF firstTree
<1>3. CASE flag.rules # <<>>
  BY <1>1, <1>3 DEF firstTree
<1> QED BY <1>2, <1>3

LEMMA LoadType ==
    ASSUME ConsoleTypeOK, NEW e \in Environments, NEW twice \in BOOLEAN, Load(e, twice)
    PROVE  reads' \in [Slots -> Reads \cup {Nothing}] /\ crossed' \in BOOLEAN
<1>1. [env |-> e, answer |-> Nothing] \in Reads
  BY DEF Reads
<1>2. PICK r, q \in Slots :
        reads' = [s \in Slots |-> IF s \in {r, q} THEN [env |-> e, answer |-> Nothing] ELSE reads[s]]
  BY DEF Load
<1>3. reads' \in [Slots -> Reads \cup {Nothing}]
  BY <1>1, <1>2 DEF ConsoleTypeOK
<1>4. crossed' \in BOOLEAN
  BY DEF Load
<1> QED BY <1>3, <1>4

LEMMA SendType ==
    ASSUME ConsoleTypeOK, NEW op \in {"save", "toggle", "publish"}, Send(op)
    PROVE  /\ write' \in Writes \cup {Nothing}
           /\ busy' \in BOOLEAN
           /\ writes' \in Nat
<1>1. selected \in Environments
  BY DEF Send, ConsoleTypeOK
<1>2. (IF op = "save" THEN tree ELSE EMPTY_TREE) \in Trees
  BY TreesAssumption DEF ConsoleTypeOK
<1>3. (IF op = "toggle" THEN shown ELSE Nothing) \in FlagDetail \cup {Nothing}
  BY DEF ConsoleTypeOK
<1>4. write' \in Writes
  BY <1>1, <1>2, <1>3 DEF Send, Writes
<1> QED BY <1>4 DEF Send, ConsoleTypeOK

\* The record of a flag after a write.
LEMMA UpdatedType ==
    ASSUME NEW flag \in FlagDetail, NEW b \in BOOLEAN, NEW t \in Trees
    PROVE  /\ [flag EXCEPT !.enabled = b] \in FlagDetail
           /\ [flag EXCEPT !.enabled = b, !.updatedAt = @ + 1] \in FlagDetail
           /\ [flag EXCEPT !.rules = <<t>>, !.updatedAt = @ + 1] \in FlagDetail
<1>1. <<t>> \in Seq(Trees)
  OBVIOUS
<1>2. [flag EXCEPT !.enabled = b] \in FlagDetail
  BY DEF FlagDetail
<1>3. flag.updatedAt + 1 \in Nat
  BY DEF FlagDetail
<1>4. [flag EXCEPT !.enabled = b, !.updatedAt = flag.updatedAt + 1] \in FlagDetail
  BY <1>3 DEF FlagDetail
<1>5. [flag EXCEPT !.rules = <<t>>, !.updatedAt = flag.updatedAt + 1] \in FlagDetail
  BY <1>1, <1>3 DEF FlagDetail
<1>6. [flag EXCEPT !.enabled = b, !.updatedAt = @ + 1] = [flag EXCEPT !.enabled = b, !.updatedAt = flag.updatedAt + 1]
  BY DEF FlagDetail
<1>7. [flag EXCEPT !.rules = <<t>>, !.updatedAt = @ + 1] = [flag EXCEPT !.rules = <<t>>, !.updatedAt = flag.updatedAt + 1]
  BY DEF FlagDetail
<1> QED BY <1>2, <1>4, <1>5, <1>6, <1>7

LEMMA ApplyType ==
    ASSUME ConsoleTypeOK, NEW w \in Writes, Apply(w),
           w.op = "toggle" => w.was # Nothing
    PROVE  /\ stored' \in [Environments -> FlagDetail]
           /\ version' \in [Environments -> Nat]
           /\ publishedAt' \in [Environments -> Nat]
<1> w.env \in Environments /\ w.tree \in Trees /\ stored[w.env] \in FlagDetail
  BY DEF Writes, ConsoleTypeOK
<1>1. CASE w.op = "toggle"
  <2>1. w.was.enabled \in BOOLEAN
    BY <1>1 DEF Writes, FlagDetail
  <2>2. stored' = [stored EXCEPT ![w.env] = [stored[w.env] EXCEPT !.enabled = ~w.was.enabled, !.updatedAt = @ + 1]]
    BY <1>1 DEF Apply, ConsoleTypeOK
  <2>3. [stored[w.env] EXCEPT !.enabled = ~w.was.enabled, !.updatedAt = @ + 1] \in FlagDetail
    BY <2>1, UpdatedType, TreesAssumption
  <2> QED BY <1>1, <2>2, <2>3 DEF Apply, ConsoleTypeOK
<1>2. CASE w.op = "save"
  <2>1. stored' = [stored EXCEPT ![w.env] = [stored[w.env] EXCEPT !.rules = <<w.tree>>, !.updatedAt = @ + 1]]
    BY <1>2 DEF Apply, ConsoleTypeOK
  <2>2. [stored[w.env] EXCEPT !.rules = <<w.tree>>, !.updatedAt = @ + 1] \in FlagDetail
    BY UpdatedType
  <2> QED BY <1>2, <2>1, <2>2 DEF Apply, ConsoleTypeOK
<1>3. CASE w.op = "publish"
  <2>1. stored' = stored
    BY <1>3 DEF Apply
  <2>2. stored[w.env].updatedAt \in Nat
    BY DEF FlagDetail
  <2> QED BY <1>3, <2>1, <2>2 DEF Apply, ConsoleTypeOK
<1> QED BY <1>1, <1>2, <1>3 DEF Writes

LEMMA TypeInit ==
    ASSUME ConsoleInit
    PROVE  TypeInv
<1>1. [enabled |-> FALSE, rules |-> <<>>, updatedAt |-> 0] \in FlagDetail
  BY DEF FlagDetail
<1>2. ConsoleTypeOK
  BY <1>1, TreesAssumption DEF ConsoleInit, ConsoleTypeOK
<1>3. WasInv
  BY DEF ConsoleInit, WasInv
<1> QED BY <1>2, <1>3 DEF TypeInv

LEMMA ReadTypes ==
    ASSUME TypeInv, NEW r \in Slots, ReadStep(r)
    PROVE  TypeInv'
<1> USE DEF TypeInv
<1>1. CASE ServeRead(r)
  <2>1. reads[r] \in Reads /\ reads[r].env \in Environments
    BY <1>1 DEF ServeRead, ConsoleTypeOK, Reads
  <2>2. [reads[r] EXCEPT !.answer = stored[reads[r].env]] \in Reads
    BY <2>1 DEF ConsoleTypeOK, Reads
  <2>3. reads' = [reads EXCEPT ![r] = [reads[r] EXCEPT !.answer = stored[reads[r].env]]]
    BY <1>1 DEF ServeRead, ConsoleTypeOK
  <2>4. foreign' \in BOOLEAN
    BY <1>1 DEF ServeRead
  <2>5. reads' \in [Slots -> Reads \cup {Nothing}]
    BY <2>2, <2>3 DEF ConsoleTypeOK
  <2> QED BY <1>1, <2>4, <2>5 DEF ServeRead, ConsoleTypeOK, WasInv, serverVars, screenVars, editorVars
<1>2. CASE ReadArrives(r)
  <2>1. reads[r].answer \in FlagDetail
    BY <1>2 DEF ReadArrives, ConsoleTypeOK, Reads
  <2>2. tree' \in Trees /\ dirty' \in BOOLEAN
    BY <1>2, <2>1, FirstTreeType DEF ReadArrives, ConsoleTypeOK, editorVars
  <2>3. reads' \in [Slots -> Reads \cup {Nothing}]
    BY <1>2 DEF ReadArrives, ConsoleTypeOK
  <2> QED BY <1>2, <2>1, <2>2, <2>3 DEF ReadArrives, ConsoleTypeOK, WasInv, serverVars
<1>3. CASE ReadFails(r)
  <2>1. reads' \in [Slots -> Reads \cup {Nothing}]
    BY <1>3 DEF ReadFails, ConsoleTypeOK
  <2> QED BY <1>3, <2>1 DEF ReadFails, Fault, ConsoleTypeOK, WasInv, screenVars, editorVars
<1> QED BY <1>1, <1>2, <1>3 DEF ReadStep

LEMMA LoadTypes ==
    ASSUME TypeInv,
           \/ Boot
           \/ \E e \in Environments : Select(e)
           \/ HearEvent
    PROVE  TypeInv'
<1> USE DEF TypeInv
<1>1. CASE Boot
  <2>1. FirstEnvironment \in Environments
    BY EnvironmentAssumption
  <2>2. reads' \in [Slots -> Reads \cup {Nothing}] /\ crossed' \in BOOLEAN
    BY <1>1, <2>1, LoadType DEF Boot
  <2> QED BY <1>1, <2>1, <2>2 DEF Boot, ConsoleTypeOK, WasInv, serverVars, editorVars
<1>2. ASSUME NEW e \in Environments, Select(e) PROVE TypeInv'
  <2>1. reads' \in [Slots -> Reads \cup {Nothing}] /\ crossed' \in BOOLEAN
    BY <1>2, LoadType DEF Select
  <2> QED BY <1>2, <2>1 DEF Select, ConsoleTypeOK, WasInv, serverVars, editorVars
<1>3. ASSUME NEW v \in 1..MaxWrites, StreamEvent(v) PROVE TypeInv'
  <2>1. selected \in Environments
    BY <1>3 DEF StreamEvent, ConsoleTypeOK
  <2>2. reads' \in [Slots -> Reads \cup {Nothing}] /\ crossed' \in BOOLEAN
    BY <1>3, <2>1, LoadType DEF StreamEvent
  <2> QED BY <1>3, <2>2 DEF StreamEvent, ConsoleTypeOK, WasInv, serverVars, editorVars
<1> QED BY <1>1, <1>2, <1>3 DEF HearEvent

LEMMA SendTypes ==
    ASSUME TypeInv, save \/ toggleEnabled \/ publish
    PROVE  TypeInv'
<1> USE DEF TypeInv
<1>1. CASE save
  <2>1. write' \in Writes \cup {Nothing} /\ busy' \in BOOLEAN /\ writes' \in Nat
    BY <1>1, SendType DEF save
  <2>2. write'.op = "save"
    BY <1>1 DEF save, Send
  <2> QED BY <1>1, <2>1, <2>2 DEF save, ConsoleTypeOK, WasInv, editorVars
<1>2. CASE toggleEnabled
  <2>1. write' \in Writes \cup {Nothing} /\ busy' \in BOOLEAN /\ writes' \in Nat
    BY <1>2, SendType DEF toggleEnabled
  <2>2. write'.was # Nothing
    BY <1>2 DEF toggleEnabled, Send
  <2>3. shown' \in FlagDetail
    BY <1>2, UpdatedType, TreesAssumption DEF toggleEnabled, ConsoleTypeOK, FlagDetail
  <2> QED BY <1>2, <2>1, <2>2, <2>3, NothingAssumption DEF toggleEnabled, ConsoleTypeOK, WasInv, editorVars
<1>3. CASE publish
  <2>1. write' \in Writes \cup {Nothing} /\ busy' \in BOOLEAN /\ writes' \in Nat
    BY <1>3, SendType DEF publish
  <2>2. write'.op = "publish"
    BY <1>3 DEF publish, Send
  <2> QED BY <1>3, <2>1, <2>2 DEF publish, ConsoleTypeOK, WasInv, editorVars
<1> QED BY <1>1, <1>2, <1>3

LEMMA FailedType ==
    ASSUME TypeInv, Failed, write # Nothing
    PROVE  /\ shown' \in FlagDetail \cup {Nothing}
           /\ busy' \in BOOLEAN
           /\ write' = Nothing
           /\ UNCHANGED <<screen, selected, tree, dirty, heard, reads>>
<1>1. CASE write.op # "toggle"
  <2>1. shown' = shown
    BY <1>1 DEF Failed, Revert
  <2> QED BY <2>1 DEF Failed, TypeInv, ConsoleTypeOK, editorVars
<1>2. CASE write.op = "toggle"
  <2>1. write.was \in FlagDetail /\ write.was.enabled \in BOOLEAN /\ shown \in FlagDetail
    BY <1>2 DEF TypeInv, WasInv, ConsoleTypeOK, Writes, FlagDetail
  <2>2. CASE screen = "list"
    <3>1. shown' = [shown EXCEPT !.enabled = write.was.enabled]
      BY <1>2, <2>2 DEF Failed, Revert
    <3> QED BY <2>1, <3>1, UpdatedType, TreesAssumption DEF Failed, TypeInv, ConsoleTypeOK, editorVars
  <2>3. CASE screen # "list"
    <3>1. shown' = write.was
      BY <1>2, <2>3 DEF Failed, Revert
    <3> QED BY <2>1, <3>1 DEF Failed, TypeInv, ConsoleTypeOK, editorVars
  <2> QED BY <2>2, <2>3
<1> QED BY <1>1, <1>2

LEMMA WriteTypes ==
    ASSUME TypeInv, WriteStep
    PROVE  TypeInv'
<1> USE DEF TypeInv
<1>1. CASE ServeWrite
  <2>1. write \in Writes
    BY <1>1 DEF ServeWrite, ConsoleTypeOK
  <2>2. /\ stored' \in [Environments -> FlagDetail]
        /\ version' \in [Environments -> Nat]
        /\ publishedAt' \in [Environments -> Nat]
    BY <1>1, <2>1, ApplyType DEF ServeWrite, WasInv
  <2>3. write' \in Writes /\ write'.op = write.op /\ write'.was = write.was
    BY <1>1, <2>1 DEF ServeWrite, Writes
  <2>4. WasInv'
    BY <1>1, <2>1, <2>3 DEF ServeWrite, WasInv, screenVars
  <2> QED BY <1>1, <2>2, <2>3, <2>4 DEF ServeWrite, ConsoleTypeOK, screenVars, editorVars
<1>2. CASE ReadBack
  <2>1. write \in Writes
    BY <1>2 DEF ReadBack, ConsoleTypeOK
  <2>2. (IF write.op = "save" THEN stored[write.env] ELSE Nothing) \in FlagDetail \cup {Nothing}
    BY <2>1 DEF ConsoleTypeOK, Writes
  <2>3. write' \in Writes /\ write'.op = write.op /\ write'.was = write.was
    BY <1>2, <2>1, <2>2 DEF ReadBack, Writes
  <2>4. WasInv'
    BY <1>2, <2>1, <2>3 DEF ReadBack, WasInv, screenVars, serverVars
  <2> QED BY <1>2, <2>3, <2>4 DEF ReadBack, ConsoleTypeOK, serverVars, screenVars, editorVars
<1>3. CASE WriteSucceeds
  <2>1. write.answer \in FlagDetail \cup {Nothing}
    BY <1>3 DEF WriteSucceeds, ConsoleTypeOK, Writes
  <2>2. shown' \in FlagDetail \cup {Nothing} /\ dirty' \in BOOLEAN
    BY <1>3, <2>1 DEF WriteSucceeds, ConsoleTypeOK
  <2>3. WasInv'
    BY <1>3 DEF WriteSucceeds, WasInv, serverVars
  <2> QED BY <1>3, <2>2, <2>3 DEF WriteSucceeds, ConsoleTypeOK, serverVars
<1>4. CASE WriteRejected
  <2>1. /\ shown' \in FlagDetail \cup {Nothing}
        /\ busy' \in BOOLEAN
        /\ write' = Nothing
        /\ UNCHANGED <<screen, selected, tree, dirty, heard, reads>>
    BY <1>4, FailedType DEF WriteRejected
  <2> QED BY <1>4, <2>1 DEF WriteRejected, Fault, ConsoleTypeOK, WasInv
<1>5. CASE WriteTimesOut
  <2>1. /\ shown' \in FlagDetail \cup {Nothing}
        /\ busy' \in BOOLEAN
        /\ write' = Nothing
        /\ UNCHANGED <<screen, selected, tree, dirty, heard, reads>>
    BY <1>5, FailedType DEF WriteTimesOut
  <2>2. write \in Writes
    BY <1>5 DEF WriteTimesOut, ConsoleTypeOK
  <2>3. WasInv'
    BY <1>5, <2>1 DEF WriteTimesOut, WasInv
  <2> QED BY <1>5, <2>1, <2>2, <2>3 DEF WriteTimesOut, Fault, ConsoleTypeOK
<1>6. CASE WriteFailsLate
  <2>1. /\ shown' \in FlagDetail \cup {Nothing}
        /\ busy' \in BOOLEAN
        /\ write' = Nothing
        /\ UNCHANGED <<screen, selected, tree, dirty, heard, reads>>
    BY <1>6, FailedType DEF WriteFailsLate
  <2>2. crossed' \in BOOLEAN
    BY <1>6 DEF WriteFailsLate
  <2> QED BY <1>6, <2>1, <2>2 DEF WriteFailsLate, Fault, ConsoleTypeOK, WasInv
<1> QED BY <1>1, <1>2, <1>3, <1>4, <1>5, <1>6 DEF WriteStep

LEMMA OtherTypes ==
    ASSUME TypeInv,
           \/ \E t \in Trees : Edit(t)
           \/ \E w \in late : LateWrite(w)
           \/ \E e \in Shared :
                \/ \E enabled \in BOOLEAN, rules \in RuleLists : OtherWrite(e, enabled, rules)
                \/ OtherPublish(e)
    PROVE  TypeInv'
<1> USE DEF TypeInv
<1>1. ASSUME NEW t \in Trees, Edit(t) PROVE TypeInv'
  <2>1. crossed' \in BOOLEAN
    BY <1>1 DEF Edit
  <2> QED BY <1>1, <2>1 DEF Edit, ConsoleTypeOK, WasInv, serverVars
<1>2. ASSUME NEW w \in late, LateWrite(w) PROVE TypeInv'
  <2>1. w \in Writes /\ (w.op = "toggle" => w.was # Nothing)
    BY DEF ConsoleTypeOK, WasInv
  <2>2. /\ stored' \in [Environments -> FlagDetail]
        /\ version' \in [Environments -> Nat]
        /\ publishedAt' \in [Environments -> Nat]
    BY <1>2, <2>1, ApplyType DEF LateWrite
  <2>3. foreign' \in BOOLEAN
    BY <1>2 DEF LateWrite
  <2> QED BY <1>2, <2>2, <2>3 DEF LateWrite, ConsoleTypeOK, WasInv, screenVars, editorVars
<1>3. ASSUME NEW e \in Shared, NEW enabled \in BOOLEAN, NEW rules \in RuleLists,
             OtherWrite(e, enabled, rules)
      PROVE TypeInv'
  <2>1. e \in Environments /\ stored[e].updatedAt + 1 \in Nat
    BY SharedAssumption DEF ConsoleTypeOK, FlagDetail
  <2>2. rules \in Seq(Trees)
    BY DEF RuleLists
  <2>3. [enabled |-> enabled, rules |-> rules, updatedAt |-> stored[e].updatedAt + 1] \in FlagDetail
    BY <2>1, <2>2 DEF FlagDetail
  <2>4. stored' = [stored EXCEPT ![e] =
                     [enabled |-> enabled, rules |-> rules, updatedAt |-> stored[e].updatedAt + 1]]
    BY <1>3, <2>1 DEF OtherWrite, ConsoleTypeOK
  <2>5. foreign' \in BOOLEAN
    BY <1>3 DEF OtherWrite
  <2>6. WasInv'
    BY <1>3 DEF OtherWrite, WasInv, screenVars
  <2>7. stored' \in [Environments -> FlagDetail]
    BY <2>3, <2>4 DEF ConsoleTypeOK
  <2> QED BY <1>3, <2>5, <2>6, <2>7 DEF OtherWrite, ConsoleTypeOK, screenVars, editorVars
<1>4. ASSUME NEW e \in Shared, OtherPublish(e) PROVE TypeInv'
  <2>1. e \in Environments /\ stored[e].updatedAt \in Nat
    BY SharedAssumption DEF ConsoleTypeOK, FlagDetail
  <2> QED BY <1>4, <2>1 DEF OtherPublish, ConsoleTypeOK, WasInv, screenVars, editorVars
<1> QED BY <1>1, <1>2, <1>3, <1>4

LEMMA TypeStep ==
    ASSUME TypeInv, [ConsoleNext]_consoleVars
    PROVE  TypeInv'
<1>1. CASE ConsoleNext
  BY <1>1, ReadTypes, LoadTypes, SendTypes, WriteTypes, OtherTypes DEF ConsoleNext
<1>2. CASE UNCHANGED consoleVars
  BY <1>2 DEF consoleVars, serverVars, screenVars, editorVars, TypeInv, ConsoleTypeOK, WasInv
<1> QED BY <1>1, <1>2

\* The variables keep their types, whatever a request is answered with and
\* whenever: a screen never takes over anything but a flag.
THEOREM ConsoleTypeCorrect == ConsoleSpec => []ConsoleTypeOK
<1>1. ConsoleSpec => []TypeInv
  BY TypeInit, TypeStep, PTL DEF ConsoleSpec
<1>2. TypeInv => ConsoleTypeOK
  BY DEF TypeInv
<1> QED BY <1>1, <1>2, PTL

-----------------------------------------------------------------------------
(* What a screen shows.                                                    *)

LEMMA NotNothing ==
    /\ \A x \in Reads : x # Nothing
    /\ \A x \in Writes : x # Nothing
    /\ \A x \in FlagDetail : x # Nothing
  BY NoRequestAssumption, NothingAssumption

\* Once answers may have crossed, nothing is promised.
LEMMA CrossedStep ==
    ASSUME crossed'
    PROVE  AloneInv' /\ ViewInv'
  BY DEF AloneInv, ViewInv, AnswerInv, RestInv, ToggleInv, StoredSaveInv

\* Somebody else's write: either it is noted, or it leaves the selected
\* environment alone.
LEMMA ForeignStep ==
    ASSUME TypeInv, FlowInv, ViewInv,
           UNCHANGED <<screen, selected, shown, tree, dirty, busy, reads, write, crossed>>,
           \/ foreign'
           \/ ~foreign /\ (selected \in Environments => stored'[selected] = stored[selected])
    PROVE  FlowInv' /\ ViewInv'
<1>1. FlowInv'
  BY DEF FlowInv, BusyInv, AloneInv, SaveInv, Reading
<1>2. CASE foreign'
  BY <1>1, <1>2 DEF ViewInv, AnswerInv, RestInv, ToggleInv, StoredSaveInv
<1>3. CASE selected = NoEnvironment
  <2>1. \A r \in Slots : ~crossed => reads[r] = Nothing
    BY <1>3, EnvironmentAssumption DEF FlowInv, AloneInv, TypeInv, ConsoleTypeOK, Reads
  <2>2. ~crossed => write = Nothing \/ write.op = "publish"
    BY <1>3, EnvironmentAssumption DEF FlowInv, AloneInv, TypeInv, ConsoleTypeOK, Writes
  <2>3. AnswerInv'
    BY <2>1 DEF AnswerInv
  <2>4. RestInv'
    BY <1>3 DEF RestInv
  <2>5. ToggleInv' /\ StoredSaveInv'
    BY <2>2 DEF ToggleInv, ToggleSent, ToggleStored, StoredSaveInv, Save
  <2> QED BY <1>1, <2>3, <2>4, <2>5 DEF ViewInv
<1>4. CASE ~foreign /\ stored'[selected] = stored[selected]
  <2>1. AnswerInv'
    BY <1>4 DEF ViewInv, AnswerInv, Same
  <2>2. RestInv'
    BY <1>4 DEF ViewInv, RestInv, Racing, Reading, Current, Same, EditorFollows, firstTree
  <2>3. ToggleInv'
    BY <1>4 DEF ViewInv, ToggleInv, ToggleSent, ToggleStored, Current, Same, EditorFollows, firstTree
  <2>4. StoredSaveInv'
    BY <1>4 DEF ViewInv, StoredSaveInv, Save, Current, Same
  <2> QED BY <1>1, <2>1, <2>2, <2>3, <2>4 DEF ViewInv
<1> QED BY <1>2, <1>3, <1>4 DEF TypeInv, ConsoleTypeOK

\* Asking afresh: with nothing else in flight, the new read is all there is.
LEMMA LoadStep ==
    ASSUME TypeInv, FlowInv, NEW e \in Environments, NEW twice \in BOOLEAN, Load(e, twice),
           selected' = e,
           UNCHANGED <<stored, screen, shown, tree, dirty, busy, write, foreign>>
    PROVE  FlowInv' /\ ViewInv'
<1>1. CASE Racing \/ twice
  <2>1. crossed'
    BY <1>1 DEF Load
  <2>2. BusyInv' /\ SaveInv'
    BY <2>1 DEF FlowInv, BusyInv, SaveInv
  <2> QED BY <2>1, <2>2, CrossedStep DEF FlowInv
<1>2. CASE ~Racing /\ ~twice
  <2>1. /\ \A s \in Slots : reads[s] = Nothing
        /\ write = Nothing \/ write.op = "publish"
    BY <1>2 DEF Racing, Reading
  <2>2. PICK r, q \in Slots :
          /\ (r # q) = twice
          /\ reads' = [s \in Slots |-> IF s \in {r, q} THEN [env |-> e, answer |-> Nothing] ELSE reads[s]]
    BY DEF Load
  <2>3. r = q
    BY <1>2, <2>2
  <2>4. [env |-> e, answer |-> Nothing] \in Reads
    BY DEF Reads
  <2>5. [env |-> e, answer |-> Nothing] # Nothing
    BY <2>4, NotNothing
  <2>6. \A s \in Slots : /\ s = r => reads'[s] = [env |-> e, answer |-> Nothing]
                         /\ s # r => reads'[s] = Nothing
    BY <2>1, <2>2, <2>3
  <2>7. FlowInv'
    BY <2>1, <2>6 DEF FlowInv, BusyInv, AloneInv, SaveInv
  <2>8. AnswerInv'
    BY <2>6 DEF AnswerInv
  <2>9. RestInv'
    BY <2>5, <2>6 DEF RestInv, Racing, Reading
  <2>10. ToggleInv' /\ StoredSaveInv'
    BY <2>1 DEF ToggleInv, StoredSaveInv, ToggleSent, ToggleStored, Save
  <2> QED BY <2>7, <2>8, <2>9, <2>10 DEF ViewInv
<1> QED BY <1>1, <1>2

LEMMA LoadViews ==
    ASSUME TypeInv, FlowInv, ViewInv,
           \/ Boot
           \/ \E e \in Environments : Select(e)
           \/ HearEvent
    PROVE  FlowInv' /\ ViewInv'
<1>1. CASE Boot
  BY <1>1, LoadStep, EnvironmentAssumption DEF Boot, serverVars, editorVars
<1>2. ASSUME NEW e \in Environments, Select(e) PROVE FlowInv' /\ ViewInv'
  BY <1>2, LoadStep DEF Select, serverVars, editorVars
<1>3. ASSUME NEW v \in 1..MaxWrites, StreamEvent(v) PROVE FlowInv' /\ ViewInv'
  <2>1. selected \in Environments
    BY <1>3 DEF StreamEvent, TypeInv, ConsoleTypeOK
  <2> QED BY <1>3, <2>1, LoadStep DEF StreamEvent, serverVars, editorVars
<1> QED BY <1>1, <1>2, <1>3 DEF HearEvent

LEMMA ReadViews ==
    ASSUME TypeInv, FlowInv, ViewInv, NEW r \in Slots, ReadStep(r)
    PROVE  FlowInv' /\ ViewInv'
<1> reads \in [Slots -> Reads \cup {Nothing}]
  BY DEF TypeInv, ConsoleTypeOK
<1> BusyInv /\ AloneInv /\ SaveInv
  BY DEF FlowInv
<1>1. CASE ServeRead(r)
  <2> USE <1>1 DEF ServeRead
  <2>1. reads[r] \in Reads /\ reads[r].env \in Environments /\ stored[reads[r].env] \in FlagDetail
    BY DEF TypeInv, ConsoleTypeOK, Reads
  <2>2. reads' = [reads EXCEPT ![r] = [env |-> reads[r].env, answer |-> stored[reads[r].env]]]
    <3>1. [reads[r] EXCEPT !.answer = stored[reads[r].env]]
            = [env |-> reads[r].env, answer |-> stored[reads[r].env]]
      BY <2>1 DEF Reads
    <3> QED BY <3>1
  <2>3. [env |-> reads[r].env, answer |-> stored[reads[r].env]] # Nothing
    BY <2>1, NotNothing DEF Reads
  <2>4. BusyInv' /\ SaveInv'
    BY DEF BusyInv, SaveInv, screenVars, editorVars
  <2>5. CASE crossed
    BY <2>4, <2>5, CrossedStep DEF FlowInv
  <2>6. CASE ~crossed
    <3>1. \A s \in Slots : s # r => reads[s] = Nothing
      BY <2>6 DEF AloneInv
    <3>2. reads[r].env = selected /\ (write = Nothing \/ write.op = "publish")
      BY <2>6 DEF AloneInv, Reading
    <3>3. \A s \in Slots : /\ s = r => reads'[s] = [env |-> selected, answer |-> stored[selected]]
                           /\ s # r => reads'[s] = Nothing
      BY <2>2, <3>1, <3>2
    <3>4. AloneInv'
      BY <3>2, <3>3 DEF AloneInv, screenVars
    <3>5. AnswerInv'
      BY <3>3 DEF AnswerInv, Same, screenVars, serverVars
    <3>6. RestInv'
      BY <2>3, <3>2, <3>3 DEF RestInv, Racing, Reading
    <3>7. ToggleInv' /\ StoredSaveInv'
      BY <3>2 DEF ToggleInv, StoredSaveInv, ToggleSent, ToggleStored, Save
    <3> QED BY <2>4, <3>4, <3>5, <3>6, <3>7 DEF FlowInv, ViewInv
  <2> QED BY <2>5, <2>6
<1>2. CASE ReadArrives(r)
  <2> USE <1>2 DEF ReadArrives
  <2>1. reads[r] \in Reads /\ reads[r].answer \in FlagDetail
    BY DEF TypeInv, ConsoleTypeOK, Reads
  <2>2. BusyInv'
    BY DEF BusyInv
  <2>3. CASE crossed
    <3>1. SaveInv'
      BY <2>3 DEF SaveInv
    <3> QED BY <2>2, <2>3, <3>1, CrossedStep DEF FlowInv
  <2>4. CASE ~crossed
    <3>1. \A s \in Slots : reads'[s] = Nothing
      BY <2>4 DEF AloneInv
    <3>2. write = Nothing \/ write.op = "publish"
      BY <2>4 DEF AloneInv, Reading
    <3>3. AloneInv' /\ SaveInv'
      BY <3>1, <3>2 DEF AloneInv, SaveInv
    <3>4. AnswerInv'
      BY <3>1 DEF AnswerInv
    <3>5. ToggleInv' /\ StoredSaveInv'
      BY <3>2 DEF ToggleInv, StoredSaveInv, ToggleSent, ToggleStored, Save
    <3>6. RestInv'
      <4>1. EditorFollows'
        BY DEF EditorFollows, firstTree
      <4>2. SUFFICES ASSUME ~foreign PROVE Current'
        BY <4>1 DEF RestInv
      <4>3. Same(reads[r].answer, stored[selected])
        BY <2>4, <4>2 DEF ViewInv, AnswerInv
      <4> QED BY <4>3 DEF Current, Same, serverVars
    <3> QED BY <2>2, <3>3, <3>4, <3>5, <3>6 DEF FlowInv, ViewInv
  <2> QED BY <2>3, <2>4
<1>3. CASE ReadFails(r)
  <2>1. BusyInv' /\ SaveInv' /\ crossed'
    BY <1>3 DEF ReadFails, BusyInv, SaveInv, screenVars, editorVars
  <2> QED BY <2>1, CrossedStep DEF FlowInv
<1> QED BY <1>1, <1>2, <1>3 DEF ReadStep

LEMMA SendViews ==
    ASSUME TypeInv, FlowInv, ViewInv, save \/ toggleEnabled \/ publish
    PROVE  FlowInv' /\ ViewInv'
<1> BusyInv /\ AloneInv /\ SaveInv
  BY DEF FlowInv
<1> AnswerInv /\ RestInv
  BY DEF ViewInv
<1> selected \in Environments => selected # NoEnvironment
  BY EnvironmentAssumption
<1>1. CASE save
  <2> USE <1>1 DEF save
  <2>1. /\ write = Nothing
        /\ selected # NoEnvironment
        /\ busy' /\ write'.op = "save" /\ write'.state = "sent"
        /\ write'.env = selected /\ write'.tree = tree
    BY DEF Send, BusyInv
  <2>2. write' # Nothing
    <3>1. tree \in Trees /\ selected \in Environments
      BY <2>1 DEF TypeInv, ConsoleTypeOK
    <3>2. write' = [op |-> "save", env |-> selected, tree |-> tree, was |-> Nothing,
                    state |-> "sent", answer |-> Nothing]
      BY DEF Send
    <3>3. write' \in Writes
      BY <3>1, <3>2 DEF Writes
    <3> QED BY <3>3, NotNothing
  <2>3. BusyInv' /\ SaveInv'
    BY <2>1, <2>2 DEF BusyInv, SaveInv, editorVars
  <2>4. CASE crossed'
    BY <2>3, <2>4, CrossedStep DEF FlowInv
  <2>5. CASE ~crossed'
    <3>1. ~crossed /\ ~Reading /\ ~Racing
      BY <2>1, <2>5 DEF Racing
    <3>2. AloneInv'
      BY <2>1, <3>1 DEF AloneInv, Reading
    <3>3. AnswerInv'
      BY <3>1 DEF AnswerInv, Reading
    <3>4. RestInv' /\ ToggleInv'
      BY <2>1, <2>2 DEF RestInv, Racing, ToggleInv, ToggleSent, ToggleStored
    <3>5. ~foreign => Current
      BY <2>1, <3>1 DEF RestInv
    <3>6. StoredSaveInv'
      BY <2>1, <3>5 DEF StoredSaveInv, Save, Current, Same
    <3> QED BY <2>3, <3>2, <3>3, <3>4, <3>6 DEF FlowInv, ViewInv
  <2> QED BY <2>4, <2>5
<1>2. CASE toggleEnabled
  <2> USE <1>2 DEF toggleEnabled
  <2>1. /\ write = Nothing
        /\ selected # NoEnvironment /\ selected \in Environments
        /\ busy' /\ write'.op = "toggle" /\ write'.state = "sent"
        /\ write'.env = selected /\ write'.was = shown
        /\ shown \in FlagDetail
    BY DEF Send, BusyInv, TypeInv, ConsoleTypeOK
  <2>2. write' # Nothing
    <3>1. write' \in Writes
      BY <2>1, TreesAssumption DEF Send, Writes
    <3> QED BY <3>1, NotNothing
  <2>3. BusyInv' /\ SaveInv'
    BY <2>1, <2>2 DEF BusyInv, SaveInv
  <2>4. CASE crossed'
    BY <2>3, <2>4, CrossedStep DEF FlowInv
  <2>5. CASE ~crossed'
    <3>1. ~crossed /\ ~Reading /\ ~Racing
      BY <2>1, <2>5 DEF Racing
    <3>2. AloneInv'
      BY <2>1, <3>1 DEF AloneInv, Reading
    <3>3. AnswerInv'
      BY <3>1 DEF AnswerInv, Reading
    <3>4. RestInv' /\ StoredSaveInv'
      BY <2>1, <2>2 DEF RestInv, Racing, StoredSaveInv, Save
    <3>5. ~foreign => Current /\ EditorFollows
      BY <2>1, <3>1 DEF RestInv
    <3>6. shown' = [shown EXCEPT !.enabled = ~shown.enabled] /\ shown'.rules = shown.rules
      BY <2>1 DEF FlagDetail
    <3>7. shown' # Nothing
      <4>1. (~shown.enabled) \in BOOLEAN
        OBVIOUS
      <4>2. shown' \in FlagDetail
        BY <2>1, <3>6, <4>1, UpdatedType, TreesAssumption
      <4> QED BY <4>2, NothingAssumption
    <3>8. ~foreign => EditorFollows'
      BY <3>5, <3>6 DEF EditorFollows, firstTree, editorVars
    <3>9. ToggleInv'
      BY <2>1, <3>5, <3>6, <3>7, <3>8 DEF ToggleInv, ToggleSent, ToggleStored, Current, Same
    <3> QED BY <2>3, <3>2, <3>3, <3>4, <3>9 DEF FlowInv, ViewInv
  <2> QED BY <2>4, <2>5
<1>3. CASE publish
  <2> USE <1>3 DEF publish
  <2>1. write = Nothing /\ busy' /\ write'.op = "publish"
    BY DEF Send, BusyInv
  <2>2. write' # Nothing
    <3>1. selected \in Environments
      BY DEF Send, TypeInv, ConsoleTypeOK
    <3>2. write' = [op |-> "publish", env |-> selected, tree |-> EMPTY_TREE, was |-> Nothing,
                    state |-> "sent", answer |-> Nothing]
      BY DEF Send
    <3>3. write' \in Writes
      BY <3>1, <3>2, TreesAssumption DEF Writes
    <3> QED BY <3>3, NotNothing
  <2>3. FlowInv'
    BY <2>1, <2>2 DEF FlowInv, BusyInv, AloneInv, SaveInv
  <2>4. Racing' <=> Racing
    BY <2>1 DEF Racing, Reading
  <2>5. AnswerInv'
    BY DEF AnswerInv, Same
  <2>6. RestInv'
    BY <2>4 DEF RestInv, Current, Same, EditorFollows, firstTree, editorVars
  <2>7. ToggleInv' /\ StoredSaveInv'
    BY <2>1 DEF ToggleInv, StoredSaveInv, ToggleSent, ToggleStored, Save
  <2> QED BY <2>3, <2>5, <2>6, <2>7 DEF ViewInv
<1> QED BY <1>1, <1>2, <1>3

LEMMA EditViews ==
    ASSUME TypeInv, FlowInv, ViewInv, NEW t \in Trees, Edit(t)
    PROVE  FlowInv' /\ ViewInv'
<1> USE DEF Edit
<1>1. CASE crossed'
  <2>1. BusyInv' /\ SaveInv'
    BY <1>1 DEF FlowInv, BusyInv, SaveInv
  <2> QED BY <1>1, <2>1, CrossedStep DEF FlowInv
<1>2. CASE ~crossed'
  <2>1. ~crossed /\ (write # Nothing => write.op # "save")
    BY <1>2
  <2>2. FlowInv'
    BY <2>1 DEF FlowInv, BusyInv, AloneInv, SaveInv, Reading
  <2>3. EditorFollows'
    BY DEF EditorFollows
  <2>4. AnswerInv'
    BY <2>1 DEF ViewInv, AnswerInv, Same, serverVars
  <2>5. RestInv'
    BY <2>1, <2>3 DEF ViewInv, RestInv, Racing, Reading, Current, Same, serverVars
  <2>6. ToggleInv'
    BY <2>1, <2>3 DEF ViewInv, ToggleInv, ToggleSent, ToggleStored, Current, Same, serverVars
  <2>7. StoredSaveInv'
    BY <2>1 DEF StoredSaveInv, Save
  <2> QED BY <2>2, <2>4, <2>5, <2>6, <2>7 DEF ViewInv
<1> QED BY <1>1, <1>2

LEMMA ServeWriteViews ==
    ASSUME TypeInv, FlowInv, ViewInv, ServeWrite
    PROVE  FlowInv' /\ ViewInv'
<1> USE DEF ServeWrite
<1> BusyInv /\ AloneInv /\ SaveInv
  BY DEF FlowInv
<1>1. write \in Writes /\ stored \in [Environments -> FlagDetail]
  BY DEF TypeInv, ConsoleTypeOK
<1>2. /\ write' \in Writes /\ write' # Nothing
      /\ write'.op = write.op /\ write'.env = write.env /\ write'.tree = write.tree
      /\ write'.state = "stored"
  BY <1>1, NotNothing DEF Writes
<1>3. FlowInv'
  BY <1>2 DEF FlowInv, BusyInv, AloneInv, SaveInv, Reading, screenVars, editorVars
<1>4. Racing' <=> Racing
  BY <1>2 DEF Racing, Reading
<1>5. CASE crossed
  BY <1>3, <1>5, CrossedStep
<1>6. CASE foreign
  BY <1>3, <1>6 DEF ViewInv, AnswerInv, RestInv, ToggleInv, StoredSaveInv
<1>7. CASE ~crossed /\ ~foreign /\ write.op = "publish"
  <2>1. stored' = stored
    BY <1>7 DEF Apply
  <2>2. AnswerInv'
    BY <2>1 DEF ViewInv, AnswerInv, screenVars
  <2>3. RestInv'
    BY <1>4, <2>1 DEF ViewInv, RestInv, Current, EditorFollows, screenVars, editorVars
  <2>4. ToggleInv' /\ StoredSaveInv'
    BY <1>2, <1>7 DEF ToggleInv, StoredSaveInv, ToggleSent, ToggleStored, Save
  <2> QED BY <1>3, <2>2, <2>3, <2>4 DEF ViewInv
<1>8. CASE ~crossed /\ ~foreign /\ write.op = "toggle"
  <2>1. ~Reading /\ write.env = selected /\ selected \in Environments
    BY <1>1, <1>8 DEF AloneInv, Writes
  <2>2. /\ shown # Nothing /\ write.was # Nothing
        /\ Same(write.was, stored[selected])
        /\ shown = [write.was EXCEPT !.enabled = ~write.was.enabled]
        /\ EditorFollows
    BY <1>8 DEF ViewInv, ToggleInv, ToggleSent
  <2>3. write.was \in FlagDetail
    BY <1>1, <2>2 DEF Writes
  <2>4. stored'[selected].enabled = ~write.was.enabled /\ stored'[selected].rules = stored[selected].rules
    BY <1>1, <1>8, <2>1 DEF Apply, FlagDetail
  <2>5. Same(shown, stored'[selected])
    BY <2>2, <2>3, <2>4 DEF Same, FlagDetail
  <2>6. Current' /\ EditorFollows'
    BY <2>2, <2>5 DEF Current, EditorFollows, Same, firstTree, screenVars, editorVars
  <2>7. AnswerInv' /\ RestInv'
    BY <1>2, <1>8, <2>1 DEF AnswerInv, RestInv, Racing, Reading
  <2>8. ToggleInv' /\ StoredSaveInv'
    BY <1>2, <1>8, <2>6 DEF ToggleInv, StoredSaveInv, ToggleSent, ToggleStored, Save
  <2> QED BY <1>3, <2>7, <2>8 DEF ViewInv
<1>9. CASE ~crossed /\ ~foreign /\ write.op = "save"
  <2>1. ~Reading /\ write.env = selected /\ selected \in Environments
    BY <1>1, <1>9 DEF AloneInv, Writes
  <2>2. stored'[selected].rules = <<write.tree>>
    BY <1>1, <1>9, <2>1 DEF Apply, FlagDetail
  <2>3. AnswerInv' /\ RestInv'
    BY <1>2, <1>9, <2>1 DEF AnswerInv, RestInv, Racing, Reading
  <2>4. ToggleInv' /\ StoredSaveInv'
    BY <1>2, <1>9, <2>2 DEF ToggleInv, StoredSaveInv, ToggleSent, ToggleStored, Save, screenVars
  <2> QED BY <1>3, <2>3, <2>4 DEF ViewInv
<1> QED BY <1>1, <1>5, <1>6, <1>7, <1>8, <1>9 DEF Writes

LEMMA ReadBackViews ==
    ASSUME TypeInv, FlowInv, ViewInv, ReadBack
    PROVE  FlowInv' /\ ViewInv'
<1> USE DEF ReadBack
<1> BusyInv /\ AloneInv /\ SaveInv
  BY DEF FlowInv
<1>1. write \in Writes /\ stored \in [Environments -> FlagDetail] /\ stored' = stored
  BY DEF TypeInv, ConsoleTypeOK, serverVars
<1>2. (IF write.op = "save" THEN stored[write.env] ELSE Nothing) \in FlagDetail \cup {Nothing}
  BY <1>1 DEF Writes
<1>3. /\ write' \in Writes
      /\ write'.op = write.op /\ write'.env = write.env /\ write'.tree = write.tree
      /\ write'.state = "answered"
      /\ write.op = "save" => write'.answer = stored[write.env]
  BY <1>1, <1>2 DEF Writes
<1>4. write' # Nothing
  BY <1>3, NotNothing
<1>5. FlowInv'
  BY <1>3, <1>4 DEF FlowInv, BusyInv, AloneInv, SaveInv, Reading, screenVars, editorVars
<1>6. AnswerInv'
  BY <1>1 DEF ViewInv, AnswerInv, screenVars
<1>7. RestInv'
  BY <1>1, <1>3, <1>4 DEF ViewInv, RestInv, Racing, Reading, Current, EditorFollows, screenVars, editorVars
<1>8. ToggleInv'
  BY <1>1, <1>3, <1>4
  DEF ViewInv, ToggleInv, ToggleSent, ToggleStored, Current, EditorFollows, screenVars, editorVars
<1>9. StoredSaveInv'
  <2>1. SUFFICES ASSUME ~crossed, ~foreign, write.op = "save"
                 PROVE  /\ write'.answer # Nothing
                        /\ Same(write'.answer, stored[selected])
                        /\ write'.answer.rules = <<write'.tree>>
    BY <1>1, <1>3 DEF StoredSaveInv, Save, screenVars
  <2>2. write.env = selected /\ selected \in Environments
    BY <1>1, <2>1 DEF AloneInv, Writes
  <2>3. write'.answer = stored[selected] /\ stored[selected] \in FlagDetail
    BY <1>1, <1>3, <2>1, <2>2
  <2>4. stored[selected].rules = <<write.tree>>
    BY <2>1 DEF ViewInv, StoredSaveInv, Save
  <2> QED BY <1>3, <2>3, <2>4, NotNothing DEF Same
<1> QED BY <1>5, <1>6, <1>7, <1>8, <1>9 DEF ViewInv

LEMMA SucceedsViews ==
    ASSUME TypeInv, FlowInv, ViewInv, WriteSucceeds
    PROVE  FlowInv' /\ ViewInv'
<1> USE DEF WriteSucceeds
<1> BusyInv /\ AloneInv /\ SaveInv
  BY DEF FlowInv
<1>1. FlowInv'
  BY DEF FlowInv, BusyInv, AloneInv, SaveInv, Reading
<1>2. ToggleInv' /\ StoredSaveInv'
  BY DEF ToggleInv, StoredSaveInv, ToggleSent, ToggleStored, Save
<1>3. AnswerInv'
  BY DEF ViewInv, AnswerInv, serverVars
<1>4. RestInv'
  <2>1. SUFFICES ASSUME ~crossed, ~foreign, ~Reading, selected # NoEnvironment
                 PROVE  Current' /\ EditorFollows'
    BY DEF RestInv, Racing, Reading
  <2>2. CASE write.op = "save"
    <3>1. /\ write.answer # Nothing /\ Same(write.answer, stored[selected])
          /\ write.answer.rules = <<write.tree>>
      BY <2>1, <2>2 DEF ViewInv, StoredSaveInv, Save
    <3>2. tree = write.tree /\ shown' = write.answer
      BY <2>1, <2>2 DEF SaveInv
    <3>3. firstTree(write.answer) = write.tree
      BY <3>1 DEF firstTree
    <3> QED BY <3>1, <3>2, <3>3 DEF Current, EditorFollows, serverVars
  <2>3. CASE write.op # "save"
    <3>1. write.op \in {"toggle", "publish"}
      BY <2>3 DEF TypeInv, ConsoleTypeOK, Writes
    <3>2. CASE write.op = "toggle"
      <4>1. Current /\ EditorFollows
        BY <2>1, <3>2 DEF ViewInv, ToggleInv, ToggleStored
      <4> QED BY <2>3, <4>1 DEF Current, EditorFollows, serverVars
    <3>3. CASE write.op = "publish"
      <4>1. Current /\ EditorFollows
        BY <2>1, <3>3 DEF ViewInv, RestInv, Racing
      <4> QED BY <2>3, <4>1 DEF Current, EditorFollows, serverVars
    <3> QED BY <3>1, <3>2, <3>3
  <2> QED BY <2>2, <2>3
<1> QED BY <1>1, <1>2, <1>3, <1>4 DEF ViewInv

\* A toggle the server never took ends at the flag it started from.
LEMMA FailedViews ==
    ASSUME TypeInv, FlowInv, ViewInv, Failed, write # Nothing,
           write.state = "sent" \/ crossed' \/ write.op = "publish",
           crossed => crossed',
           UNCHANGED <<stored, foreign>>
    PROVE  FlowInv' /\ ViewInv'
<1> USE DEF Failed
<1> BusyInv /\ AloneInv /\ SaveInv
  BY DEF FlowInv
<1>1. BusyInv' /\ SaveInv'
  BY DEF BusyInv, SaveInv
<1>2. CASE crossed'
  BY <1>1, <1>2, CrossedStep DEF FlowInv
<1>3. CASE ~crossed'
  <2>1. ~crossed
    BY <1>3
  <2>2. AloneInv'
    BY <2>1 DEF AloneInv, Reading
  <2>3. ToggleInv' /\ StoredSaveInv'
    BY DEF ToggleInv, StoredSaveInv, ToggleSent, ToggleStored, Save
  <2>4. AnswerInv'
    BY <2>1 DEF ViewInv, AnswerInv
  <2>5. RestInv'
    <3>1. SUFFICES ASSUME ~foreign, ~Reading, selected # NoEnvironment
                   PROVE  Current' /\ EditorFollows'
      BY DEF RestInv, Racing, Reading
    <3>2. CASE write.op = "publish"
      <4>1. Current /\ EditorFollows
        BY <2>1, <3>1, <3>2 DEF ViewInv, RestInv, Racing
      <4>2. shown' = shown
        BY <3>2 DEF Revert
      <4> QED BY <4>1, <4>2 DEF Current, EditorFollows, editorVars
    <3>3. CASE write.op = "save"
      <4>1. Current /\ dirty
        BY <1>3, <2>1, <3>1, <3>3 DEF ViewInv, StoredSaveInv, Save, SaveInv
      <4>2. shown' = shown
        BY <3>3 DEF Revert
      <4> QED BY <4>1, <4>2 DEF Current, EditorFollows, editorVars
    <3>4. CASE write.op = "toggle"
      <4>1. /\ shown # Nothing /\ write.was # Nothing
            /\ Same(write.was, stored[selected])
            /\ shown = [write.was EXCEPT !.enabled = ~write.was.enabled]
            /\ EditorFollows
        BY <1>3, <2>1, <3>1, <3>4 DEF ViewInv, ToggleInv, ToggleSent
      <4>2. write.was \in FlagDetail /\ write.was # Nothing
        BY <4>1 DEF TypeInv, ConsoleTypeOK, Writes
      <4>3. shown.rules = write.was.rules
        BY <4>1, <4>2 DEF FlagDetail
      <4>4. shown' = write.was
        <5>1. CASE screen = "list"
          <6>1. shown' = [shown EXCEPT !.enabled = write.was.enabled]
            BY <3>4, <5>1 DEF Revert
          <6> QED BY <4>1, <4>2, <6>1 DEF FlagDetail
        <5>2. CASE screen # "list"
          BY <3>4, <5>2 DEF Revert
        <5> QED BY <5>1, <5>2
      <4>5. Current'
        BY <4>1, <4>4 DEF Current, Same
      <4>6. EditorFollows'
        BY <4>1, <4>3, <4>4 DEF EditorFollows, firstTree, editorVars
      <4> QED BY <4>5, <4>6
    <3> QED BY <3>2, <3>3, <3>4 DEF TypeInv, ConsoleTypeOK, Writes
  <2> QED BY <1>1, <2>2, <2>3, <2>4, <2>5 DEF FlowInv, ViewInv
<1> QED BY <1>2, <1>3

LEMMA WriteViews ==
    ASSUME TypeInv, FlowInv, ViewInv, WriteStep
    PROVE  FlowInv' /\ ViewInv'
<1>1. CASE WriteRejected
  BY <1>1, FailedViews DEF WriteRejected
<1>2. CASE WriteTimesOut
  BY <1>2, FailedViews DEF WriteTimesOut
<1>3. CASE WriteFailsLate
  BY <1>3, FailedViews DEF WriteFailsLate
<1> QED BY <1>1, <1>2, <1>3, ServeWriteViews, ReadBackViews, SucceedsViews DEF WriteStep

LEMMA OtherViews ==
    ASSUME TypeInv, FlowInv, ViewInv,
           \/ \E w \in late : LateWrite(w)
           \/ \E e \in Shared :
                \/ \E enabled \in BOOLEAN, rules \in RuleLists : OtherWrite(e, enabled, rules)
                \/ OtherPublish(e)
    PROVE  FlowInv' /\ ViewInv'
<1> stored \in [Environments -> FlagDetail]
  BY DEF TypeInv, ConsoleTypeOK
<1>1. ASSUME NEW w \in late, LateWrite(w) PROVE FlowInv' /\ ViewInv'
  <2>1. foreign' \/ (~foreign /\ w.env # selected)
    BY <1>1 DEF LateWrite
  <2>2. w.env # selected /\ selected \in Environments => stored'[selected] = stored[selected]
    <3>1. w.op \in {"save", "toggle", "publish"}
      BY DEF TypeInv, ConsoleTypeOK, Writes
    <3>2. CASE w.op = "save"
      BY <1>1, <3>2 DEF LateWrite, Apply
    <3>3. CASE w.op = "toggle"
      BY <1>1, <3>3 DEF LateWrite, Apply
    <3>4. CASE w.op = "publish"
      BY <1>1, <3>4 DEF LateWrite, Apply
    <3> QED BY <3>1, <3>2, <3>3, <3>4
  <2> QED BY <1>1, <2>1, <2>2, ForeignStep DEF LateWrite, screenVars, editorVars
<1>2. ASSUME NEW e \in Shared, NEW enabled \in BOOLEAN, NEW rules \in RuleLists,
             OtherWrite(e, enabled, rules)
      PROVE FlowInv' /\ ViewInv'
  <2>1. foreign' \/ (~foreign /\ e # selected)
    BY <1>2 DEF OtherWrite
  <2>2. e # selected /\ selected \in Environments => stored'[selected] = stored[selected]
    BY <1>2 DEF OtherWrite
  <2> QED BY <1>2, <2>1, <2>2, ForeignStep DEF OtherWrite, screenVars, editorVars
<1>3. ASSUME NEW e \in Shared, OtherPublish(e) PROVE FlowInv' /\ ViewInv'
  <2>1. foreign' \/ (~foreign /\ stored'[selected] = stored[selected])
    BY <1>3 DEF OtherPublish
  <2> QED BY <1>3, <2>1, ForeignStep DEF OtherPublish, screenVars, editorVars
<1> QED BY <1>1, <1>2, <1>3

LEMMA ConsoleStep ==
    ASSUME TypeInv, FlowInv, ViewInv, [ConsoleNext]_consoleVars
    PROVE  FlowInv' /\ ViewInv'
<1>1. CASE ConsoleNext
  BY <1>1, LoadViews, ReadViews, EditViews, SendViews, WriteViews, OtherViews DEF ConsoleNext
<1>2. CASE UNCHANGED consoleVars
  <2>1. stored' = stored /\ foreign' = foreign
    BY <1>2 DEF consoleVars, serverVars
  <2>2. UNCHANGED <<screen, selected, shown, tree, dirty, busy, reads, write, crossed>>
    BY <1>2 DEF consoleVars, screenVars, editorVars
  <2> QED BY <2>1, <2>2, ForeignStep
<1> QED BY <1>1, <1>2

LEMMA ConsoleStart ==
    ASSUME ConsoleInit
    PROVE  FlowInv /\ ViewInv
<1>1. \A r \in Slots : reads[r] = Nothing
  BY DEF ConsoleInit
<1> QED BY <1>1 DEF ConsoleInit, FlowInv, BusyInv, AloneInv, SaveInv, ViewInv, AnswerInv, RestInv,
                    ToggleInv, StoredSaveInv, ToggleSent, ToggleStored, Save

LEMMA AtRestShows ==
    ASSUME FlowInv, ViewInv
    PROVE  ShowsStored
<1>1. SUFFICES ASSUME AtRest, ~crossed, ~foreign
               PROVE  /\ shown # Nothing /\ Same(shown, stored[selected])
                      /\ screen = "flag" /\ ~dirty => tree = firstTree(stored[selected])
  BY DEF ShowsStored
<1>2. Current /\ EditorFollows
  BY <1>1 DEF AtRest, ViewInv, RestInv, Racing
<1> QED BY <1>2 DEF Current, EditorFollows, Same, firstTree

\* Whatever the interleaving of clicks, answers, failures and other people's
\* writes: a screen at rest whose answers did not cross shows what is stored.
THEOREM ConsoleShowsStored == ConsoleSpec => []ShowsStored
<1>1. ConsoleSpec => [](TypeInv /\ FlowInv /\ ViewInv)
  <2>1. ConsoleInit => TypeInv /\ FlowInv /\ ViewInv
    BY TypeInit, ConsoleStart
  <2>2. TypeInv /\ FlowInv /\ ViewInv /\ [ConsoleNext]_consoleVars => (TypeInv /\ FlowInv /\ ViewInv)'
    BY TypeStep, ConsoleStep
  <2> QED BY <2>1, <2>2, PTL DEF ConsoleSpec
<1>2. TypeInv /\ FlowInv /\ ViewInv => ShowsStored
  BY AtRestShows
<1> QED BY <1>1, <1>2, PTL
=============================================================================
