---------------------------- MODULE MCOwnership ----------------------------
(* Commands for the configurations of OwnershipProperties. *)
EXTENDS OwnershipProperties, TLC

CONSTANTS a, p, q

Resume(named, answer, retryFailed) ==
  [kind |-> "resume", named |-> named, answer |-> answer, question |-> FALSE,
   approve |-> {}, reject |-> {}, retryFailed |-> retryFailed]

Owners == Permutations(Procs)

PlainCommands == {[kind |-> "run"], Resume({}, {}, TRUE)}
ResumeCommands ==
  PlainCommands \cup {[Resume({a}, {}, FALSE) EXCEPT !.approve = {a}]}
RunCommands == {[kind |-> "run"]}
=============================================================================
