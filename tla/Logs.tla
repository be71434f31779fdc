-------------------------------- MODULE Logs --------------------------------
(***************************************************************************)
(* The Logs tab (tui/workspace/logs.tsx): one file of the run on screen, a   *)
(* page at a time, and the pages themselves (persistence/log-pager.ts).      *)
(*                                                                         *)
(* A line is known by its file and number, and is quiet or loud; a key is    *)
(* answered by the handlers of the last frame, so that what it reads may be  *)
(* behind what it changes; the answers of reads come in any order.  Drawing  *)
(* a frame runs the effect that reads the newest page.  Of the filters the   *)
(* severity is here, and the others work as it does; the search (stepMatch)  *)
(* only moves the window.                                                    *)
(***************************************************************************)
EXTENDS Functions, Integers, Sequences, FiniteSets, SequencesExt, FiniteSetsExt

CONSTANTS
  Limit,      \* execution.outputBufferLines
  Rows,     \* the rows of the panel
  Page,       \* PAGE
  MaxLines,   \* bound: lines of all files
  MaxReads,   \* bound: older pages being read
  MaxAttempts \* bound: attempts of the task

VARIABLES
  attempts,  \* attempts of the task
  length,    \* of each file: its lines
  panel,     \* view, filters, chosen file, offset from the newest line; active: on screen
  page,      \* what is held of a file
  tail,      \* the file whose newest page is being read
  older,     \* the older pages being read, as they were asked for
  effect,    \* the file the effect last ran for, and whether it is to run again
  drawn      \* what the last frame was drawn from

vars == <<attempts, length, panel, page, tail, older, effect, drawn>>

None == [kind |-> "none", attempt |-> 0]

-----------------------------------------------------------------------------
(* logSources: the run's own file, then the attempts', the newest first. *)
Views == <<"events", "stderr">>
ViewOf(kind) == IF kind = "stderr" THEN "stderr" ELSE "events"

LogSources(n) ==
  <<[kind |-> "run-events", attempt |-> 0]>>
    \o [i \in 1..(2 * n) |-> [kind    |-> IF i % 2 = 1 THEN "attempt-events" ELSE "stderr",
                             attempt |-> n - (i - 1) \div 2]]

Sources == ToSet(LogSources(MaxAttempts))

(* visibleSources: of those, the ones of a view. *)
VisibleSources(n, view) == SelectSeq(LogSources(n), LAMBDA s : ViewOf(s.kind) = view)

Now == [panel |-> panel, page |-> page, attempts |-> attempts]

Visible(f) == VisibleSources(f.attempts, f.panel.view)

(* The chosen file while the filters allow it, else the first they do. *)
SourceOf(f) ==
  LET visible == Visible(f)
  IN IF f.panel.chosen \in ToSet(visible) THEN f.panel.chosen ELSE IF visible = <<>> THEN None ELSE visible[1]

(* parseLogLine: the severity a line has; filterRecords: what the floor lets through. *)
Loud(line) == line.of.kind = "stderr" \/ line.n % 2 = 0
LogLines(raw, loudOnly) == SelectSeq(raw, LAMBDA line : loudOnly => Loud(line))

Lines(f) == LogLines(f.page.raw, f.panel.loudOnly)

-----------------------------------------------------------------------------
(* The pages, as the state machine sees them: lines from and up to a number. *)
FileLines(source, from, to) == [i \in 1..(to - from + 1) |-> [of |-> source, n |-> from + i - 1]]

TailPage(source) ==
  LET from == Max({1, length[source] - Limit + 1})
  IN [source |-> source, raw |-> FileLines(source, from, length[source]), start |-> from,
      atStart |-> from = 1, atEnd |-> TRUE, loading |-> FALSE, upTo |-> length[source]]

Empty(source, atStart, loading) ==
  [source |-> source, raw |-> <<>>, start |-> 1, atStart |-> atStart, atEnd |-> TRUE,
   loading |-> loading, upTo |-> 0]

Sum(f) == FoldFunction(+, 0, f)

Init ==
  /\ attempts = 0 /\ length = [s \in Sources |-> 0]
  /\ panel = [view |-> "events", loudOnly |-> FALSE, chosen |-> None,
              offset |-> 0, active |-> FALSE]
  /\ page = Empty(None, FALSE, TRUE)
  /\ tail = None /\ older = <<>>
  /\ effect = [ran |-> None, again |-> FALSE]
  /\ drawn = Now

-----------------------------------------------------------------------------
(* What the orchestrator does to the files. *)
Grows ==
  /\ \/ \E s \in ToSet(LogSources(attempts)) :
          Sum(length) < MaxLines /\ length' = [length EXCEPT ![s] = @ + 1] /\ UNCHANGED attempts
     \/ attempts < MaxAttempts /\ attempts' = attempts + 1 /\ UNCHANGED length
  /\ UNCHANGED <<panel, page, tail, older, effect, drawn>>

-----------------------------------------------------------------------------
(* A frame, and the effect that reads the newest page of another file, of the *)
(* same file again, or cancels the read of a panel that is put away.          *)
Draw ==
  LET source == IF panel.active THEN SourceOf(Now) ELSE None
      runs   == source # effect.ran \/ effect.again
  IN /\ drawn # Now \/ runs
     /\ page' = IF runs /\ source # None THEN Empty(source, FALSE, TRUE) ELSE page
     /\ tail' = IF runs THEN source ELSE tail
     /\ effect' = [ran |-> source, again |-> FALSE]
     /\ drawn' = [Now EXCEPT !.page = page']
     /\ UNCHANGED <<attempts, length, panel, older>>

(* The newest page; a file that cannot be read is an empty one. *)
TailArrives ==
  /\ tail # None /\ tail' = None
  /\ page' \in {TailPage(tail), Empty(tail, TRUE, FALSE)}
  /\ UNCHANGED <<attempts, length, panel, older, effect, drawn>>

-----------------------------------------------------------------------------
(* loadOlder: asked of the page of the frame, which it puts back, loading. *)
Asks ==
  /\ ~drawn.page.atStart /\ ~drawn.page.loading /\ SourceOf(drawn) # None

Step == Max({1, Min({Page, IF Limit - Rows > 0 THEN Limit - Rows ELSE Limit \div 2})})

LoadOlder ==
  IF Asks
  THEN /\ Len(older) < MaxReads
       /\ older' = Append(older, [source |-> drawn.page.source, of |-> SourceOf(drawn), at |-> drawn.page.start])
       /\ page' = [drawn.page EXCEPT !.loading = TRUE]
  ELSE UNCHANGED <<older, page>>

(* readPageBefore. *)
PageBefore(read) ==
  LET from == Max({1, read.at - Step})
  IN [raw |-> FileLines(read.of, from, read.at - 1), start |-> from, atStart |-> from = 1]

(* Mutant: the page is still the end of the file after it gave up its end. *)
PrependedKeepsEnd(p, before) ==
  LET merged == before.raw \o p.raw
  IN [p EXCEPT !.raw = SubSeq(merged, 1, Min({Limit, Len(merged)})),
               !.start = before.start, !.atStart = before.atStart, !.loading = FALSE]

(* Prepended, and what is over the limit given up at the newest end. *)
Prepended(p, before) ==
  LET merged == before.raw \o p.raw
  IN [p EXCEPT !.raw = SubSeq(merged, 1, Min({Limit, Len(merged)})),
               !.start = before.start, !.atStart = before.atStart,
               !.atEnd = @ /\ Len(merged) <= Limit, !.loading = FALSE]

(* The lines given up are counted while the page is updated, which is when the *)
(* frame is drawn unless nothing else waits to be: the offset may be moved by  *)
(* none of them.                                                               *)
OlderArrives ==
  \E i \in DOMAIN older :
    LET read   == older[i]
        before == PageBefore(read)
        shed   == LogLines(SubSeq(before.raw \o page.raw, Limit + 1, Len(before.raw \o page.raw)), panel.loudOnly)
    IN /\ older' = RemoveAt(older, i)
       /\ \/ /\ read.source = page.source
             /\ page' = Prepended(page, before)
             /\ \E n \in {0, Len(shed)} : panel' = [panel EXCEPT !.offset = Max({0, @ - n})]
          \/ read.source # page.source /\ UNCHANGED <<page, panel>>
          \/ page' = [page EXCEPT !.loading = FALSE] /\ UNCHANGED panel
       /\ UNCHANGED <<attempts, length, tail, effect, drawn>>

-----------------------------------------------------------------------------
(* The keys. *)

Clamp(n) == Max({0, Min({n, Len(Lines(drawn)) - Rows})})

Scroll ==
  \E delta \in {-1, 1} :
    LET next == Clamp(drawn.panel.offset - delta)
    IN /\ panel' = [panel EXCEPT !.offset = next]
       /\ IF Len(Lines(drawn)) - next <= Rows THEN LoadOlder ELSE UNCHANGED <<older, page>>
       /\ UNCHANGED effect

ToOldest ==
  panel' = [panel EXCEPT !.offset = Clamp(Len(Lines(drawn)))] /\ LoadOlder /\ UNCHANGED effect

(* toNewest reads again what the buffer no longer ends with; reload in any case. *)
ToNewest ==
  /\ panel' = [panel EXCEPT !.offset = 0]
  /\ effect' = [effect EXCEPT !.again = @ \/ ~drawn.page.atEnd]
  /\ UNCHANGED <<older, page>>

Reload ==
  /\ panel' = [panel EXCEPT !.offset = 0]
  /\ effect' = [effect EXCEPT !.again = TRUE]
  /\ UNCHANGED <<older, page>>

(* cycleView: the same attempt's file keeps the position. *)
CycleView ==
  LET next == CHOOSE v \in ToSet(Views) : v # drawn.panel.view
      same == SelectSeq(VisibleSources(drawn.attempts, next),
                        LAMBDA s : s.attempt = SourceOf(drawn).attempt)
      keeps == SourceOf(drawn) # None /\ same # <<>>
  IN /\ panel' = [panel EXCEPT !.view = next, !.chosen = IF keeps THEN same[1] ELSE None,
                               !.offset = IF keeps THEN @ ELSE 0]
     /\ UNCHANGED <<older, page, effect>>

CycleSource ==
  LET visible == Visible(drawn)
      index   == SelectInSeq(visible, LAMBDA s : s = SourceOf(drawn))
  IN /\ visible # <<>>
     /\ panel' = [panel EXCEPT !.chosen = visible[(index % Len(visible)) + 1], !.offset = 0]
     /\ UNCHANGED <<older, page, effect>>

CycleSeverity ==
  /\ panel' = [panel EXCEPT !.loudOnly = ~@, !.offset = 0] /\ UNCHANGED <<older, page, effect>>

(* Another tab, and back. *)
Switch == panel' = [panel EXCEPT !.active = ~@] /\ UNCHANGED <<older, page, effect>>

Key ==
  /\ \/ Switch
     \/ drawn.panel.active /\ (Scroll \/ ToOldest \/ ToNewest \/ Reload \/ CycleView \/ CycleSource \/ CycleSeverity)
  /\ UNCHANGED <<attempts, length, tail, drawn>>

Next == Grows \/ Draw \/ TailArrives \/ OlderArrives \/ Key

-----------------------------------------------------------------------------
(* A page of a file has lines of that file only, within the bound the operator *)
(* set (outputBufferLines), whatever order the answers of the reads come in.   *)
(* In which order, and whether once: see the README.                           *)
OneFile ==
  Len(page.raw) <= Limit /\ \A i \in DOMAIN page.raw : page.raw[i].of = page.source

(* The end of the page is called the end of the file only when the newest line *)
(* that was read, if any was, is still held: toNewest reads again by it (atEnd, *)
(* loadOlder).                                                                 *)
EndIsEnd ==
  page.atEnd /\ page.upTo > 0 => Last(page.raw).n = page.upTo

(* The panel waits only for an answer that is on its way: "Reading" goes away, *)
(* and an older page can be asked for again.                                   *)
Awaited ==
  effect.ran # None /\ page.loading =>
    tail = page.source \/ \E i \in DOMAIN older : older[i].source = page.source

(* The panel mixes no files, calls no old page the end and waits for no answer *)
(* that will not come, whatever is read and typed (useLogs).                   *)
PanelTrue == OneFile /\ EndIsEnd /\ Awaited
=============================================================================
