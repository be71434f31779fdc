----------------------------- MODULE CodexQuota -----------------------------
(***************************************************************************)
(* The quota monitor of the workspace (runners/codex/quota.ts): an app-server *)
(* process that is started, shaken hands with, asked for the account and the  *)
(* limits every five minutes, and started again when it is gone.  Attempts    *)
(* that run meanwhile push limits of their own.  What it says is the chip.    *)
(* Time is one boolean: five minutes have passed since the process was lost.  *)
(***************************************************************************)
EXTENDS Naturals

VARIABLES
  monitor,   \* "detecting", "on", "off"
  channel,   \* "none", "opening" (the handshake is under way), "ready"
  waiting,   \* answers to the newest read that have not come
  said,      \* what the newest read has said of the account
  windows,   \* some limits are known
  authBlocked,
  cooling,   \* lost the process, less than five minutes ago (crashedAt)
  chip       \* the state of the last snapshot

vars == <<monitor, channel, waiting, said, windows, authBlocked, cooling, chip>>

Init ==
  /\ monitor = "detecting" /\ channel = "none" /\ waiting = {} /\ said = "none"
  /\ windows = FALSE /\ authBlocked = FALSE /\ cooling = FALSE /\ chip = "loading"

(* publishReading, degrade: silent once an account without quotas was seen.   *)
PublishReading(blocked) == chip' = IF blocked THEN chip ELSE "ok"
DegradeAlways(blocked) == chip' = IF windows THEN "stale" ELSE "error"   \* mutant
Degrade(blocked) == chip' = IF blocked THEN chip ELSE IF windows THEN "stale" ELSE "error"

Detect ==
  /\ monitor = "detecting"
  /\ \/ monitor' = "on" /\ channel' = "opening" /\ UNCHANGED chip
     \/ monitor' = "off" /\ chip' = "unavailable" /\ UNCHANGED channel
  /\ UNCHANGED <<waiting, said, windows, authBlocked, cooling>>

(* read, and connect, from the timer or from a refresh, which does not start  *)
(* the process again within five minutes.                                     *)
StartsRead ==
  /\ authBlocked' = FALSE /\ waiting' = {"account", "limits"} /\ said' = "none"

ReadAgain ==
  /\ monitor = "on" /\ channel = "ready"
  /\ StartsRead
  /\ UNCHANGED <<monitor, channel, windows, cooling, chip>>

Connect ==
  /\ channel' = "opening" /\ cooling' = FALSE
  /\ UNCHANGED <<monitor, waiting, said, windows, authBlocked, chip>>

Tick == monitor = "on" /\ channel = "none" /\ Connect
Refresh == monitor = "on" /\ channel = "none" /\ ~cooling /\ Connect

CoolsDown ==
  /\ cooling /\ cooling' = FALSE
  /\ UNCHANGED <<monitor, channel, waiting, said, windows, authBlocked, chip>>

(* handle. *)
Handshake ==
  /\ channel = "opening"
  /\ channel' = "ready" /\ StartsRead
  /\ UNCHANGED <<monitor, windows, cooling, chip>>

(* The process is lost: it refuses or misses the handshake, or exits. *)
Lost ==
  /\ channel # "none"
  /\ channel' = "none" /\ waiting' = {} /\ cooling' = TRUE
  /\ Degrade(authBlocked)
  /\ UNCHANGED <<monitor, said, windows, authBlocked>>

AccountRead ==
  /\ "account" \in waiting
  /\ waiting' = waiting \ {"account"}
  /\ \/ said' = "error" /\ Degrade(authBlocked) /\ UNCHANGED authBlocked
     \/ said' = "apiKey" /\ authBlocked' = TRUE /\ chip' = "authRequired"
     \/ said' = "plan" /\ UNCHANGED <<authBlocked, chip>>
  /\ UNCHANGED <<monitor, channel, windows, cooling>>

LimitsRead ==
  /\ "limits" \in waiting
  /\ waiting' = waiting \ {"limits"}
  /\ \/ Degrade(authBlocked) /\ UNCHANGED <<windows, authBlocked>>
     \/ authBlocked' = TRUE /\ chip' = "authRequired" /\ UNCHANGED windows
     \/ windows' = TRUE /\ PublishReading(authBlocked) /\ UNCHANGED authBlocked
  /\ UNCHANGED <<monitor, channel, said, cooling>>

(* fold, of a push from the process or from an attempt. *)
Pushed ==
  /\ monitor \in {"detecting", "on"}
  /\ windows' = TRUE
  /\ PublishReading(authBlocked)
  /\ UNCHANGED <<monitor, channel, waiting, said, authBlocked, cooling>>

Stop ==
  /\ monitor # "off"
  /\ monitor' = "off" /\ channel' = "none" /\ waiting' = {}
  /\ UNCHANGED <<said, windows, authBlocked, cooling, chip>>

Next ==
  \/ Detect \/ ReadAgain \/ Tick \/ Refresh \/ CoolsDown \/ Handshake \/ Lost
  \/ AccountRead \/ LimitsRead \/ Pushed \/ Stop
=============================================================================
