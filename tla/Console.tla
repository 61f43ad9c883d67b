------------------------------- MODULE Console -------------------------------
(***************************************************************************)
(* A screen of the console over the stored configuration of one flag: the  *)
(* flag list (FlagList.tsx) or the flag screen (FlagDetailView.tsx), the   *)
(* requests either has in flight (lib/api.ts through the server-side       *)
(* proxy), and everybody else who writes to the same flag.                 *)
(*                                                                         *)
(* A handler runs to its await; whatever the user does next, a timer or    *)
(* another answer may come before it goes on.  Nothing in the code orders  *)
(* answers or cancels a request, so any answer in flight may be the next   *)
(* to arrive.  A rule tree is a model value, and a rule is its tree; the   *)
(* control plane serves a request here in one step, or in two when it      *)
(* writes and then reads back (ControlPlane splits it further).            *)
(***************************************************************************)
EXTENDS Integers, Sequences, PlatformKeys

CONSTANTS
    Nothing,        \* undefined
    FirstEnvironment, \* environments[0]
    NoEnvironment,  \* the empty environmentId
    Shared,         \* environments that others write to as well
    Trees,          \* rule trees
    EMPTY_TREE,     \* the empty AND
    MaxReads,       \* bound: reads in flight at once
    MaxRules,       \* bound: rules others write
    MaxWrites,      \* bound: writes and publishes, by anybody
    MaxFaults       \* bound: requests that fail

ASSUME TreesAssumption == EMPTY_TREE \in Trees
ASSUME EnvironmentAssumption == FirstEnvironment \in Environments /\ NoEnvironment \notin Environments
ASSUME SharedAssumption == Shared \subseteq Environments
ASSUME ConsoleBounds == {MaxReads, MaxRules, MaxWrites, MaxFaults} \subseteq Nat

\* The flag as GET and PATCH answer it; updatedAt counts the writes of one
\* environment (the column is the flag's, and the screens compare it with nothing).
FlagDetail == [enabled : BOOLEAN, rules : Seq(Trees), updatedAt : Nat]
RuleLists == UNION {[1..n -> Trees] : n \in 0..MaxRules}
ASSUME NothingAssumption == Nothing \notin FlagDetail

Slots == 1..MaxReads
Reads == [env : Environments, answer : FlagDetail \cup {Nothing}]
Writes == [op : {"save", "toggle", "publish"}, env : Environments, tree : Trees,
           was : FlagDetail \cup {Nothing}, state : {"sent", "stored", "answered"},
           answer : FlagDetail \cup {Nothing}]
ASSUME NoRequestAssumption == Nothing \notin Reads \cup Writes

VARIABLES
    stored,         \* stored[e]: the flag's configuration in the database
    version,        \* version[e]: publishes of e
    publishedAt,    \* publishedAt[e]: updatedAt of what was last published (a history variable)
    late,           \* writes whose client was told they failed, still under way
    writes,         \* writes and publishes asked for
    faults,         \* failed requests
    screen,         \* which screen this is: "list" or "flag"
    selected,       \* environmentId
    shown,          \* flags, or flag: what the screen shows
    tree, dirty,    \* the flag screen's editor
    busy,           \* controls that write are disabled
    heard,          \* the version in the list's stream.lastEvent
    reads,          \* reads[r]: a GET in flight
    write,          \* the PATCH or POST in flight
    crossed,        \* answers may have crossed, or one was lost (a history variable)
    foreign         \* somebody else wrote since the last read (a history variable)

serverVars == <<stored, version, publishedAt, late, writes, faults>>
editorVars == <<tree, dirty>>
screenVars == <<screen, selected, shown, editorVars, busy, heard>>
consoleVars == <<serverVars, screenVars, reads, write, crossed, foreign>>

ConsoleTypeOK ==
    /\ stored \in [Environments -> FlagDetail]
    /\ version \in [Environments -> Nat]
    /\ publishedAt \in [Environments -> Nat]
    /\ late \subseteq Writes
    /\ writes \in Nat /\ faults \in Nat
    /\ screen \in {"list", "flag"}
    /\ selected \in Environments \cup {NoEnvironment}
    /\ shown \in FlagDetail \cup {Nothing}
    /\ tree \in Trees /\ dirty \in BOOLEAN
    /\ busy \in BOOLEAN
    /\ heard \in Nat
    /\ reads \in [Slots -> Reads \cup {Nothing}]
    /\ write \in Writes \cup {Nothing}
    /\ crossed \in BOOLEAN /\ foreign \in BOOLEAN

ConsoleInit ==
    /\ stored = [e \in Environments |-> [enabled |-> FALSE, rules |-> <<>>, updatedAt |-> 0]]
    /\ version = [e \in Environments |-> 0]
    /\ publishedAt = [e \in Environments |-> 0]
    /\ late = {}
    /\ writes = 0 /\ faults = 0
    /\ screen \in {"list", "flag"}
    /\ selected = NoEnvironment
    /\ shown = Nothing
    /\ tree = EMPTY_TREE /\ dirty = FALSE
    /\ busy = FALSE
    /\ heard = 0
    /\ reads = [r \in Slots |-> Nothing]
    /\ write = Nothing
    /\ crossed = FALSE /\ foreign = FALSE

-----------------------------------------------------------------------------
(* Reading.                                                                *)

Reading == \E r \in Slots : reads[r] # Nothing

\* A request is in flight whose answer depends on when it is served.
Racing == Reading \/ (write # Nothing /\ write.op # "publish")

\* load, and reload: ask for the flag in e, once or twice.
Load(e, twice) ==
    /\ \E r, q \in Slots :
         /\ r <= q /\ (r # q) = twice
         /\ reads[r] = Nothing /\ reads[q] = Nothing
         /\ \A s \in 1..q : s = r \/ s = q \/ reads[s] # Nothing
         /\ reads' = [s \in Slots |-> IF s \in {r, q} THEN [env |-> e, answer |-> Nothing] ELSE reads[s]]
    /\ crossed' = (Racing \/ twice)

\* The environments arrive; the first is selected, and its flag asked for.  Where the
\* tenants or environments cannot be fetched the screen stays empty: Boot never comes.
Boot ==
    /\ selected = NoEnvironment
    /\ selected' = FirstEnvironment
    /\ Load(FirstEnvironment, FALSE)
    /\ UNCHANGED <<serverVars, screen, shown, editorVars, busy, heard, write, foreign>>

\* Another environment is chosen, which is never disabled: its flag is asked for
\* and the stream starts over.  Where the stream has announced something, both of
\* the list's effects fetch: the one of reload, and the one of lastEvent.
Select(e) ==
    /\ selected \in Environments \ {e}
    /\ selected' = e
    /\ heard' = 0
    /\ Load(e, screen = "list" /\ heard > 0)
    /\ UNCHANGED <<serverVars, screen, shown, editorVars, busy, write, foreign>>

\* Faulty variant of StreamEvent: the version is shown and nothing fetched.
StreamEventIgnored(v) ==
    /\ screen = "list" /\ selected # NoEnvironment
    /\ heard < v /\ v <= version[selected]
    /\ heard' = v
    /\ UNCHANGED <<serverVars, screen, selected, shown, editorVars, busy, reads, write,
                   crossed, foreign>>

\* The stream announces a published version: the list is fetched again.
StreamEvent(v) ==
    /\ screen = "list" /\ selected # NoEnvironment
    /\ heard < v /\ v <= version[selected]
    /\ heard' = v
    /\ Load(selected, FALSE)
    /\ UNCHANGED <<serverVars, screen, selected, shown, editorVars, busy, write, foreign>>

\* The control plane answers a read.
ServeRead(r) ==
    /\ reads[r] # Nothing /\ reads[r].answer = Nothing
    /\ reads' = [reads EXCEPT ![r].answer = stored[reads[r].env]]
    /\ foreign' = (foreign /\ reads[r].env # selected)
    /\ UNCHANGED <<serverVars, screenVars, write, crossed>>

firstTree(flag) == IF flag.rules = <<>> THEN EMPTY_TREE ELSE flag.rules[1]

\* Faulty variant of ReadArrives: the envelope of the answer is shown for the flag.
ReadArrivesWrapped(r) ==
    /\ reads[r] # Nothing /\ reads[r].answer # Nothing
    /\ shown' = reads[r]
    /\ reads' = [reads EXCEPT ![r] = Nothing]
    /\ UNCHANGED <<serverVars, screen, selected, editorVars, busy, heard, write, crossed, foreign>>

\* The answer is shown, whatever is selected by now; the flag screen starts its
\* editor over from the first rule.
ReadArrives(r) ==
    /\ reads[r] # Nothing /\ reads[r].answer # Nothing
    /\ shown' = reads[r].answer
    /\ IF screen = "flag"
       THEN tree' = firstTree(reads[r].answer) /\ dirty' = FALSE
       ELSE UNCHANGED editorVars
    /\ reads' = [reads EXCEPT ![r] = Nothing]
    /\ UNCHANGED <<serverVars, screen, selected, busy, heard, write, crossed, foreign>>

Fault == faults < MaxFaults /\ faults' = faults + 1

\* An error, or the proxy's time-out: the screen keeps what it shows.
ReadFails(r) ==
    /\ Fault
    /\ reads[r] # Nothing
    /\ reads' = [reads EXCEPT ![r] = Nothing]
    /\ crossed' = TRUE
    /\ UNCHANGED <<stored, version, publishedAt, late, writes, screenVars, write, foreign>>

-----------------------------------------------------------------------------
(* Editing and writing.                                                    *)

\* RuleBuilder's onChange; the editor is never disabled.
Edit(t) ==
    /\ screen = "flag" /\ shown # Nothing
    /\ tree' = t /\ dirty' = TRUE
    /\ crossed' = (crossed \/ (write # Nothing /\ write.op = "save"))
    /\ UNCHANGED <<serverVars, screen, selected, shown, busy, heard, reads, write, foreign>>

\* A write leaves the screen, whose controls are disabled until it is answered.
Send(op) ==
    /\ ~busy /\ busy' = TRUE
    /\ writes < MaxWrites /\ writes' = writes + 1
    /\ selected # NoEnvironment
    /\ write' = [op |-> op, env |-> selected,
                 tree |-> IF op = "save" THEN tree ELSE EMPTY_TREE,
                 was |-> IF op = "toggle" THEN shown ELSE Nothing,
                 state |-> "sent", answer |-> Nothing]

save ==
    /\ screen = "flag" /\ shown # Nothing /\ dirty
    /\ Send("save")
    /\ crossed' = (crossed \/ Reading)
    /\ UNCHANGED <<stored, version, publishedAt, late, faults, screen, selected, shown,
                   editorVars, heard, reads, foreign>>

\* toggle, and toggleEnabled: shown at once.
toggleEnabled ==
    /\ shown # Nothing
    /\ Send("toggle")
    /\ shown' = [shown EXCEPT !.enabled = ~@]
    /\ crossed' = (crossed \/ Reading)
    /\ UNCHANGED <<stored, version, publishedAt, late, faults, screen, selected, editorVars,
                   heard, reads, foreign>>

publish ==
    /\ screen = "flag" => shown # Nothing
    /\ Send("publish")
    /\ UNCHANGED <<stored, version, publishedAt, late, faults, screen, selected, shown,
                   editorVars, heard, reads, crossed, foreign>>

\* What the control plane does for a write: PATCH changes the fields it was given,
\* POST /v1/publish publishes what is stored.
Apply(w) ==
    /\ stored' = CASE w.op = "toggle" ->
                        [stored EXCEPT ![w.env].enabled = ~w.was.enabled, ![w.env].updatedAt = @ + 1]
                   [] w.op = "save" ->
                        [stored EXCEPT ![w.env].rules = <<w.tree>>, ![w.env].updatedAt = @ + 1]
                   [] OTHER -> stored
    /\ version' = IF w.op = "publish" THEN [version EXCEPT ![w.env] = @ + 1] ELSE version
    /\ publishedAt' = IF w.op = "publish"
                      THEN [publishedAt EXCEPT ![w.env] = stored[w.env].updatedAt]
                      ELSE publishedAt

ServeWrite ==
    /\ write # Nothing /\ write.state = "sent"
    /\ Apply(write)
    /\ write' = [write EXCEPT !.state = "stored"]
    /\ UNCHANGED <<late, writes, faults, screenVars, reads, crossed, foreign>>

\* The audit entry is written and the flag read back for the answer.
ReadBack ==
    /\ write # Nothing /\ write.state = "stored"
    /\ write' = [write EXCEPT !.state = "answered",
                             !.answer = IF write.op = "save" THEN stored[write.env] ELSE Nothing]
    /\ UNCHANGED <<serverVars, screenVars, reads, crossed, foreign>>

\* Faulty variant of WriteSucceeds: a save is marked saved, and the flag of
\* before it still shown.
WriteSucceedsUnseen ==
    /\ write # Nothing /\ write.state = "answered"
    /\ busy' = FALSE /\ write' = Nothing
    /\ dirty' = (dirty /\ write.op # "save")
    /\ UNCHANGED <<serverVars, screen, selected, shown, tree, heard, reads, crossed, foreign>>

\* The answer of a save is shown and its changes are no longer marked unsaved; the
\* answers of a toggle and of a publish carry nothing the screen takes over.
WriteSucceeds ==
    /\ write # Nothing /\ write.state = "answered"
    /\ busy' = FALSE /\ write' = Nothing
    /\ IF write.op = "save" THEN shown' = write.answer /\ dirty' = FALSE
       ELSE UNCHANGED <<shown, dirty>>
    /\ UNCHANGED <<serverVars, screen, selected, tree, heard, reads, crossed, foreign>>

\* A failed toggle is taken back: the list sets the flag it now shows to what the
\* clicked one was, the flag screen puts back the whole flag of the click.
Revert ==
    shown' = IF write.op # "toggle" THEN shown
             ELSE IF screen = "list" THEN [shown EXCEPT !.enabled = write.was.enabled]
             ELSE write.was

\* Faulty variant of Failed: no finally, so that only success frees the screen.
FailedBusy ==
    /\ Revert
    /\ write' = Nothing
    /\ UNCHANGED <<screen, selected, editorVars, busy, heard, reads>>

\* The catch and the finally of the handlers.
Failed ==
    /\ Revert
    /\ busy' = FALSE /\ write' = Nothing
    /\ UNCHANGED <<screen, selected, editorVars, heard, reads>>

\* The control plane refuses the write, or cannot be reached.
WriteRejected ==
    /\ Fault
    /\ write # Nothing /\ write.state = "sent"
    /\ Failed
    /\ UNCHANGED <<stored, version, publishedAt, late, writes, crossed, foreign>>

\* The proxy gives up after its time-out while the control plane works on.
WriteTimesOut ==
    /\ Fault
    /\ write # Nothing /\ write.state = "sent"
    /\ Failed
    /\ late' = late \cup {write}
    /\ UNCHANGED <<stored, version, publishedAt, writes, crossed, foreign>>

\* The write is stored, and then its audit entry fails or its answer is lost.
WriteFailsLate ==
    /\ Fault
    /\ write # Nothing /\ write.state # "sent"
    /\ Failed
    /\ crossed' = (crossed \/ write.op # "publish")
    /\ UNCHANGED <<stored, version, publishedAt, late, writes, foreign>>

LateWrite(w) ==
    /\ w \in late
    /\ Apply(w)
    /\ late' = late \ {w}
    /\ foreign' = (foreign \/ w.env = selected)
    /\ UNCHANGED <<writes, faults, screenVars, reads, write, crossed>>

-----------------------------------------------------------------------------
(* Everybody else: another tab, another operator, a script on the API.     *)

\* A PATCH of one field.
OtherWrite(e, enabled, rules) ==
    /\ writes < MaxWrites /\ writes' = writes + 1
    /\ enabled = stored[e].enabled \/ rules = stored[e].rules
    /\ stored' = [stored EXCEPT ![e] = [enabled |-> enabled, rules |-> rules, updatedAt |-> @.updatedAt + 1]]
    /\ foreign' = (foreign \/ e = selected)
    /\ UNCHANGED <<version, publishedAt, late, faults, screenVars, reads, write, crossed>>

OtherPublish(e) ==
    /\ writes < MaxWrites /\ writes' = writes + 1
    /\ version' = [version EXCEPT ![e] = @ + 1]
    /\ publishedAt' = [publishedAt EXCEPT ![e] = stored[e].updatedAt]
    /\ UNCHANGED <<stored, late, faults, screenVars, reads, write, crossed, foreign>>

-----------------------------------------------------------------------------
ReadStep(r) == ServeRead(r) \/ ReadArrives(r) \/ ReadFails(r)

WriteStep ==
    \/ ServeWrite \/ ReadBack \/ WriteSucceeds
    \/ WriteRejected \/ WriteTimesOut \/ WriteFailsLate

HearEvent == \E v \in 1..MaxWrites : StreamEvent(v)

ConsoleNext ==
    \/ Boot \/ \E e \in Environments : Select(e)
    \/ HearEvent
    \/ \E r \in Slots : ReadStep(r)
    \/ \E t \in Trees : Edit(t)
    \/ save \/ toggleEnabled \/ publish
    \/ WriteStep
    \/ \E w \in late : LateWrite(w)
    \/ \E e \in Shared :
         \/ \E enabled \in BOOLEAN, rules \in RuleLists : OtherWrite(e, enabled, rules)
         \/ OtherPublish(e)

ConsoleSpec == ConsoleInit /\ [][ConsoleNext]_consoleVars

\* Every request is answered, by the control plane or by the proxy's time-out;
\* users, and writes whose client has given up, may stop.  Nothing makes the stream
\* announce a publish: the push behind it is attempted once, and an EventSource that
\* was answered with a 502 hears nothing more.  A request to the proxy itself that
\* is never answered, for which lib/api.ts sets no limit, is left out.
FairConsoleSpec ==
    /\ ConsoleSpec
    /\ \A r \in Slots : WF_consoleVars(ReadStep(r))
    /\ WF_consoleVars(WriteStep)

-----------------------------------------------------------------------------
AtRest == selected # NoEnvironment /\ ~Reading /\ write = Nothing

Same(f, g) == f.enabled = g.enabled /\ f.rules = g.rules

\* A screen that has its answers shows what is stored, as long as none of them
\* crossed or got lost and nobody else wrote: optimistic toggles end, confirmed or
\* taken back, at the stored value; a flag marked 'Saved' has its first rule stored
\* as the editor shows it.
ShowsStored ==
    AtRest /\ ~crossed /\ ~foreign =>
        /\ shown # Nothing /\ Same(shown, stored[selected])
        /\ screen = "flag" /\ ~dirty => tree = firstTree(stored[selected])

\* The list does not show what was last published, though the stream announced it
\* and no answer crossed or failed.
Behind ==
    /\ screen = "list" /\ selected # NoEnvironment /\ ~crossed
    /\ heard > 0 /\ heard = version[selected]
    /\ shown = Nothing \/ shown.updatedAt < publishedAt[selected]

\* "Refetching on the stream event is what makes this a live view" (FlagList.tsx):
\* once a publish, whoever's, is announced, the list comes to show it.  That it is
\* announced is not claimed, as a lost push is made up by nothing; and fetches that
\* cross are excepted, as the earlier answer may arrive last and stay.
LiveView == Behind ~> ~Behind

\* A screen never stays disabled: whatever fails, its controls come back.
ScreenFrees == busy ~> ~busy
=============================================================================
