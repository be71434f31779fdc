----------------------------- MODULE MCWorkspace -----------------------------
(***************************************************************************)
(* What stands between an operator and a run: the keys of the workspace     *)
(* (Window), its log panel (Logs), and the inbox by which another process    *)
(* asks the owner of a run for something (RequestInbox).  They do not share  *)
(* state; a behaviour is about one of them, and the others wait in their     *)
(* first state.                                                              *)
(***************************************************************************)
EXTENDS MCRequestInbox

CONSTANTS TaskList, States, MaxText, MaxSending, MaxBehind,
          Limit, Rows, Page, MaxLines, MaxReads, MaxAttempts

VARIABLES subject,
          role, tasks, ended, resuming, store, drafts, composer, sending, frame, behind, did,
          attempts, length, panel, page, tail, older, effect, drawn

K == INSTANCE Window
L == INSTANCE Logs

windowVars == <<role, tasks, ended, resuming, store, drafts, composer, sending, frame, behind, did>>
logsVars   == <<attempts, length, panel, page, tail, older, effect, drawn>>

ASSUME WorkspaceAssumption ==
  /\ States \subseteq {"pending", "running", "waiting", "awaiting_approval", "suspended", "success",
                       "failed", "cancelled", "skipped", "blocked", "needs_input"}
  /\ {MaxText, MaxSending, MaxBehind, Limit, Rows, Page} \subseteq Nat \ {0}
  /\ {MaxLines, MaxReads, MaxAttempts} \subseteq Nat

MCTasks == <<"a", "b">>

InitAll ==
  /\ subject \in {"inbox", "window", "logs"}
  /\ Init /\ K!Init /\ L!Init
  /\ subject # "window" => tasks = [t \in K!Tasks |-> CHOOSE s \in States : TRUE]

NextInbox  == subject = "inbox" /\ UNCHANGED <<subject, windowVars, logsVars>> /\ Next
NextWindow == subject = "window" /\ UNCHANGED <<subject, vars, logsVars>> /\ K!Next
NextLogs   == subject = "logs" /\ UNCHANGED <<subject, vars, windowVars>> /\ L!Next

SpecAll == InitAll /\ [][NextInbox \/ NextWindow \/ NextLogs]_<<subject, vars, windowVars, logsVars>>

\* The window keeps what is written in it, and sends what is meant (Window).
WindowTrue == K!WindowTrue

\* The log panel mixes no files and calls no old page the end (Logs).
PanelTrue == subject = "logs" => L!PanelTrue
=============================================================================
