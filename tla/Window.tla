------------------------------- MODULE Window -------------------------------
(***************************************************************************)
(* The keys of the workspace (tui/app.tsx): the selection, the overlays that *)
(* take the keys, the message composer, the task editor and the answer form, *)
(* and the commands they send, to the controller of the run this process     *)
(* executes, to the session that resumes an ended one, or to its owner.      *)
(*                                                                         *)
(* A key is answered by the handler of the last frame that was drawn: what   *)
(* the handler reads of the frame may be behind what it reads of the store   *)
(* and of the run, which is changed in place.  Of a text it matters how many *)
(* keys it is of; whether a form or an answer says anything is left open.    *)
(* What the session does with a window is module Terminal, what a controller *)
(* does with a command are modules Messages and Scheduler, and the buffer of *)
(* the composer is module Composer.  Left out are the panels and views that  *)
(* send nothing, the search, and which panel is focused: Tab reaches each.   *)
(***************************************************************************)
EXTENDS Integers, Sequences, FiniteSets, SequencesExt, FiniteSetsExt, Functions

CONSTANTS
  TaskList,   \* the tasks, in the order of the file
  States,     \* the states the run's tasks may come to
  MaxText,    \* bound: keys of a text
  MaxSending, \* bound: messages the controller has not answered
  MaxBehind   \* bound: keys answered between two frames

VARIABLES
  role,      \* owner; displaced, told that another process took the run; watching it
  tasks,     \* the run's tasks: their states
  ended,     \* nothing executes the run
  resuming,  \* the session was asked to resume it
  store,     \* the presentation store: tab, cursor, overlay
  drafts,    \* of each task: the message kept for it
  composer,  \* the composer that is open: its task and text
  sending,   \* of each task: messages the controller has not answered
  frame,     \* what the last frame was drawn from
  behind,    \* keys answered since
  did        \* what the last key had sent

vars == <<role, tasks, ended, resuming, store, drafts, composer, sending, frame, behind, did>>
runVars == <<role, tasks, ended>>

Tasks == ToSet(TaskList)
Nobody == "nobody"
Closed == [kind |-> "none"]
NoComposer == [task |-> Nobody, text |-> 0]
Nothing == [kind |-> "nothing"]

-----------------------------------------------------------------------------
(* What the frames show. *)

Now == [tab |-> store.tab, cursor |-> store.cursor, overlay |-> store.overlay,
        composer |-> composer, ended |-> ended, role |-> role]

Selected(f) == TaskList[f.cursor]

Observing(f) == f.role = "watching"
CanResume(f) == f.role = "owner"
ComposerHolds(f) == f.composer # NoComposer /\ f.tab = "session" /\ f.overlay = Closed

(* promptRow: what a message to the task would be. *)
PromptMode(t) ==
  IF t = Nobody THEN "none"
  ELSE CASE tasks[t] = "running" -> "steer"
         [] tasks[t] \in {"failed", "cancelled", "needs_input", "suspended"} -> "followUp"
         [] OTHER -> "none"

(* The task an ended run is about: the first that failed, or that asks. *)
LeadTask ==
  LET of(states) == SelectSeq(TaskList, LAMBDA t : tasks[t] \in states)
      leads == of({"failed", "blocked"}) \o of({"needs_input", "awaiting_approval", "waiting"})
  IN IF leads = <<>> THEN Nobody ELSE leads[1]

-----------------------------------------------------------------------------
Init ==
  /\ role = "owner" /\ tasks \in [Tasks -> States] /\ ended = FALSE /\ resuming = FALSE
  /\ store = [tab |-> "overview", cursor |-> 1, overlay |-> Closed]
  /\ drafts = [t \in Tasks |-> 0]
  /\ composer = NoComposer /\ sending = [t \in Tasks |-> 0]
  /\ frame = Now /\ behind = 0 /\ did = Nothing

Key == behind < MaxBehind /\ behind' = behind + 1 /\ UNCHANGED <<runVars, frame>>
Reads == did' = Nothing /\ UNCHANGED resuming

Show(s, kind)    == [s EXCEPT !.overlay = [kind |-> kind]]
ShowOf(s, kind, t) == [s EXCEPT !.overlay = [kind |-> kind, task |-> t, asking |-> FALSE]]

Shows(s) == store' = s /\ Reads /\ UNCHANGED <<drafts, composer, sending>>

-----------------------------------------------------------------------------
(* What a key of a panel and an entry of the palette do alike; the palette has *)
(* been closed in s before.                                                    *)

(* Commands about the run or the selected task: to the controller (pauseRun,    *)
(* restart, suspendOrContinue), which refuses those it gets once the run has    *)
(* ended; to the session (endedActions: resume the run, this task, or from this *)
(* task on), or to the owner (observerActions, as the task is).                 *)
About(kind, S) == [kind : {kind}, task : {Nobody} \cup S]

Submits(f) ==
  IF Observing(f) THEN {} ELSE [kind : {"submit"}, task : {Selected(f)} \cup (IF f.ended THEN {} ELSE {Nobody})]
Resumes(f) == IF f.ended /\ CanResume(f) THEN About("resume", {Selected(f)}) ELSE {}
ObserverActions(f) ==
  IF ~Observing(f) THEN {}
  ELSE About("ask", {t \in {Selected(f)} :
                       tasks[t] \in {"running", "waiting", "suspended", "failed", "blocked", "cancelled", "skipped"}})

Command(f, s) ==
  /\ did' \in Submits(f) \cup Resumes(f) \cup ObserverActions(f)
  /\ resuming' = (resuming \/ did' \in Resumes(f)) /\ store' = s
  /\ UNCHANGED <<drafts, composer, sending>>

(* editRejection: with restart a worker is stopped for the edit. *)
EditRejected(t, restart) ==
  \/ tasks[t] \in {"success", "skipped", "awaiting_approval"}
  \/ ~restart /\ tasks[t] \in {"running", "waiting"}

(* openEdit: an ended run has no worker to stop. *)
OpenEdit(f, s) ==
  LET t == Selected(f)
  IN ~Observing(f) /\ ~EditRejected(t, ~f.ended) /\ Shows(ShowOf(s, "edit", t))

(* Mutant: the composer opens with nothing in it. *)
OpenEmptyComposer(f, s) ==
  /\ store' = s /\ Reads
  /\ composer' = IF PromptMode(Selected(f)) = "none" THEN composer
                 ELSE [task |-> Selected(f), text |-> 0]
  /\ UNCHANGED <<drafts, sending>>

(* openComposer: the draft is picked up where it was left. *)
OpenComposer(f, s) ==
  /\ store' = s /\ Reads
  /\ composer' = IF PromptMode(Selected(f)) = "none" THEN composer
                 ELSE [task |-> Selected(f), text |-> drafts[Selected(f)]]
  /\ UNCHANGED <<drafts, sending>>

(* runAction's answer: a form of its own. *)
OpenAnswer(f, s) ==
  LET t == Selected(f)
  IN f.ended /\ CanResume(f) /\ tasks[t] = "needs_input" /\ Shows(ShowOf(s, "answer", t))

(* requestQuit while the run is executed; otherwise the window is left. *)
AskToQuit(f, s) ==
  ~f.ended /\ ~Observing(f) /\ Shows(Show(s, "quit"))

Does(f, s) == Command(f, s) \/ OpenEdit(f, s) \/ OpenAnswer(f, s) \/ AskToQuit(f, s)

(* Ctrl+P, wherever the keys are. *)
TogglePalette ==
  Key /\ Shows(IF frame.overlay.kind = "palette" THEN [store EXCEPT !.overlay = Closed] ELSE Show(store, "palette"))

ChoosePalette ==
  LET s == [store EXCEPT !.overlay = Closed]
  IN /\ Key /\ frame.overlay.kind = "palette"
     /\ \/ Does(frame, s)
        \/ ~Observing(frame) /\ OpenComposer(frame, [s EXCEPT !.tab = "session"])
        \/ \E tab \in {"overview", "session"} : Shows([s EXCEPT !.tab = tab])
        \/ \E i \in DOMAIN TaskList : Shows([s EXCEPT !.cursor = i, !.tab = "overview"])

(* Ctrl+C, wherever the keys are: who does not watch interrupts the session. *)
Interrupt ==
  /\ Key /\ UNCHANGED <<store, resuming, drafts, composer, sending>>
  /\ did' = IF Observing(frame) THEN [kind |-> "ask", task |-> Nobody] ELSE Nothing

PanelKey ==
  /\ Key /\ frame.overlay = Closed /\ ~ComposerHolds(frame)
  /\ \/ Does(frame, store)
     \/ frame.tab = "session" /\ OpenComposer(frame, store)
     \/ \E tab \in {"overview", "session"} : Shows([store EXCEPT !.tab = tab])
     \/ \E d \in {-1, 1} :
          Shows([store EXCEPT !.cursor = Max({1, Min({@ + d, Len(TaskList)})})])

(* answerQuit: stay, stop and quit, or go on in plain output. *)
QuitKey ==
  /\ Key /\ frame.overlay.kind = "quit" /\ store' = [store EXCEPT !.overlay = Closed]
  /\ did' \in {Nothing, [kind |-> "stopAndQuit", task |-> Nobody]}
  /\ UNCHANGED <<resuming, drafts, composer, sending>>

(* Enter with an answer resumes the run to carry it. *)
AnswerKey ==
  /\ Key /\ frame.overlay.kind = "answer" /\ store' = [store EXCEPT !.overlay = Closed]
  /\ \/ Reads
     \/ resuming' = TRUE /\ did' = [kind |-> "answer", task |-> frame.overlay.task]
  /\ UNCHANGED <<drafts, composer, sending>>

-----------------------------------------------------------------------------
(* The task editor: editKey, submitEdit.  A key may also write into a field, or *)
(* find nothing to send: no error of the form and no unchanged one leaves it.   *)

SubmitEdit(restart) ==
  /\ store' = [store EXCEPT !.overlay = Closed] /\ UNCHANGED resuming
  /\ did' = [kind |-> IF frame.ended THEN "offlineEdit" ELSE "edit", task |-> frame.overlay.task,
             restart |-> restart]

(* Mutant: Save restarts a running task without asking. *)
SaveAndRestart == SubmitEdit(tasks[frame.overlay.task] = "running")

(* Enter on Save: a task that works is asked about first (restartPlanFor). *)
Save ==
  IF tasks[frame.overlay.task] \in {"running", "waiting"}
  THEN Reads /\ store' = [store EXCEPT !.overlay = [frame.overlay EXCEPT !.asking = TRUE]]
  ELSE SubmitEdit(FALSE)

EditKey ==
  /\ Key /\ frame.overlay.kind = "edit"
  /\ \/ Reads /\ UNCHANGED store
     \/ frame.overlay.asking /\ Reads /\ store' = [store EXCEPT !.overlay = [frame.overlay EXCEPT !.asking = FALSE]]
     \/ frame.overlay.asking /\ \E restart \in BOOLEAN : SubmitEdit(restart)
     \/ ~frame.overlay.asking /\ Reads /\ store' = [store EXCEPT !.overlay = Closed]
     \/ ~frame.overlay.asking /\ Save
  /\ UNCHANGED <<drafts, composer, sending>>

-----------------------------------------------------------------------------
(* The composer: composerKey, submitPrompt. *)

(* editComposer: the draft is kept as it is written. *)
Write(text) ==
  IF composer = NoComposer THEN UNCHANGED <<composer, drafts>>
  ELSE composer' = [composer EXCEPT !.text = text] /\ drafts' = [drafts EXCEPT ![composer.task] = text]

(* Ctrl+O: the text as $EDITOR left it; an empty one is refused.  The terminal is *)
(* the editor's until then.                                                     *)
ComposeInEditor == \E text \in 1..MaxText : Write(text)

WriteKey ==
  /\ (\E text \in 0..MaxText : Write(text)) \/ ComposeInEditor
  /\ Reads /\ UNCHANGED sending

(* Mutant: Esc throws away what was written. *)
CloseAndForget ==
  /\ composer' = NoComposer /\ Reads /\ UNCHANGED sending
  /\ drafts' = IF composer = NoComposer THEN drafts ELSE [drafts EXCEPT ![composer.task] = 0]

CloseComposer ==
  /\ composer' = NoComposer /\ Reads /\ UNCHANGED sending
  /\ drafts' = IF composer = NoComposer THEN drafts ELSE [drafts EXCEPT ![composer.task] = composer.text]

(* On an ended run the message is handed to the resume; on a live one it is a *)
(* command, of which the draft survives the refusal.                          *)
SubmitPrompt ==
  LET open == frame.composer
      gone == frame.ended \/ ended
      message(kind) == [kind |-> kind, task |-> open.task, text |-> open.text]
  IN IF open.text = 0 \/ Observing(frame) \/ PromptMode(open.task) = "none"
          \/ (gone /\ (PromptMode(open.task) # "followUp" \/ ~CanResume(frame)))
     THEN Reads /\ UNCHANGED <<composer, drafts, sending>>
     ELSE IF gone
     THEN /\ did' = message("followUp") /\ resuming' = TRUE
          /\ drafts' = [drafts EXCEPT ![open.task] = 0] /\ composer' = NoComposer /\ UNCHANGED sending
     ELSE /\ FoldFunction(+, 0, sending) < MaxSending
          /\ did' = message("prompt") /\ sending' = [sending EXCEPT ![open.task] = @ + 1]
          /\ UNCHANGED <<resuming, drafts, composer>>

ComposerKey ==
  /\ Key /\ ComposerHolds(frame)
  /\ \/ WriteKey \/ CloseComposer \/ SubmitPrompt
  /\ UNCHANGED store

(* An acknowledged message clears the draft, and the composer it is still in. *)
Acknowledged(t) ==
  /\ drafts' = [drafts EXCEPT ![t] = 0]
  /\ composer' = IF composer.task = t THEN [task |-> t, text |-> 0] ELSE composer

-----------------------------------------------------------------------------
(* What goes on beside the keys. *)

Aside == did' = Nothing /\ UNCHANGED behind

Answered(t) ==
  /\ sending[t] > 0 /\ sending' = [sending EXCEPT ![t] = @ - 1]
  /\ Acknowledged(t) \/ UNCHANGED <<drafts, composer>>
  /\ Aside /\ UNCHANGED <<runVars, resuming, store, frame>>

(* followRun commits what has happened since, all of it in one frame. *)
NextFrame == frame' = Now /\ behind' = 0 /\ did' = Nothing

(* A frame; the one that shows the end of the run goes to the task it is about. *)
Draw ==
  LET index == SelectInSeq(TaskList, LAMBDA t : t = LeadTask)
  IN /\ frame # Now \/ behind > 0
     /\ NextFrame
     /\ store' = IF ended /\ ~frame.ended /\ index > 0 THEN [store EXCEPT !.cursor = index] ELSE store
     /\ UNCHANGED <<runVars, resuming, drafts, composer, sending>>

(* The workspace is put away and opened again: the store outlives its tree. *)
Remount ==
  /\ composer' = NoComposer
  /\ frame' = [Now EXCEPT !.composer = NoComposer] /\ behind' = 0 /\ did' = Nothing
  /\ UNCHANGED <<runVars, resuming, store, drafts, sending>>

TaskMoves ==
  /\ ~ended \/ role # "owner"
  /\ \E t \in Tasks, to \in States :
       /\ tasks[t] # to /\ "running" \in {tasks[t], to} /\ "success" # tasks[t]
       /\ tasks' = [tasks EXCEPT ![t] = to]
  /\ UNCHANGED <<role, ended, resuming>>

(* The execution ends; the session resumes it, does not, or finds that another *)
(* process did, follows it, and sees it let go.                                *)
Executes ==
  \/ ~ended /\ (\A t \in Tasks : tasks[t] # "running") /\ ended' = TRUE /\ UNCHANGED <<role, resuming>>
  \/ /\ role = "owner" /\ ended /\ resuming /\ resuming' = FALSE
     /\ \/ ended' \in BOOLEAN /\ UNCHANGED role
        \/ role' = "displaced" /\ UNCHANGED ended
  \/ role = "displaced" /\ role' = "watching" /\ UNCHANGED <<ended, resuming>>
  \/ role = "watching" /\ role' = "owner" /\ UNCHANGED <<ended, resuming>>

RunMoves ==
  /\ TaskMoves \/ (Executes /\ UNCHANGED tasks)
  /\ Aside /\ UNCHANGED <<store, drafts, composer, sending, frame>>

Next ==
  \/ TogglePalette \/ Interrupt \/ ChoosePalette \/ PanelKey \/ QuitKey \/ AnswerKey \/ EditKey \/ ComposerKey
  \/ \E t \in Tasks : Answered(t)
  \/ Draw \/ Remount \/ RunMoves

-----------------------------------------------------------------------------
(* What is kept is what is shown: the draft of a message is what its composer  *)
(* holds, so that closing it, another tab, another task or putting the window  *)
(* away loses no word (saveComposerDraft, app.tsx, store.ts).                  *)
FormsAgree ==
  composer # NoComposer => drafts[composer.task] = composer.text

(* A message that was written is lost to nothing but its own sending: only the *)
(* answer to a message to the same task, the resume that carries it, or the    *)
(* operator, in the composer that stays open, empties a draft (submitPrompt,   *)
(* closeComposer).                                                             *)
DraftsKept ==
  [][\A t \in Tasks :
       drafts[t] > 0 /\ drafts'[t] = 0 =>
         \/ sending'[t] < sending[t]
         \/ did'.kind = "followUp" /\ did'.task = t
         \/ composer.task = t /\ composer'.task = t]_vars

(* What a window does to a run that it executes or would resume; what a form or *)
(* a question that was open when it came to watch does is not among them.      *)
Drives == {"submit", "prompt", "followUp", "resume"}

(* Whichever key, menu or form it comes from, and whatever has changed since   *)
(* the frame: a window that is shown as watching drives nothing (app.tsx), and *)
(* a worker is stopped by an edit only after the question about it was on the  *)
(* screen (edit.tsx).                                                          *)
CommandsMeant ==
  /\ frame.role = "watching" => did.kind \notin Drives
  /\ did.kind = "edit" /\ did.restart => frame.overlay.kind = "edit" /\ frame.overlay.asking

(* The window keeps what is written in it, and sends what is meant. *)
WindowTrue == [](FormsAgree /\ CommandsMeant) /\ DraftsKept
=============================================================================
