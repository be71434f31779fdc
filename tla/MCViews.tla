------------------------------ MODULE MCViews -------------------------------
(***************************************************************************)
(* The two views on a run from outside its scheduler: the window of its    *)
(* operator (Terminal), and the registry that others read (Registry).  The *)
(* two do not share state; a behaviour is about one of them.               *)
(***************************************************************************)
EXTENDS TerminalProperties

CONSTANTS Pids, Reapers, MaxHolds, Stale, Retain, p1, p2, q

VARIABLES subject, entry, owner, phase, emits, held, holds, chain, beat, reaping, last

ASSUME TimesAssumption == Stale \in Nat \ {0} /\ Retain \in Nat

R == INSTANCE Registry

registryVars == <<entry, owner, phase, emits, held, holds, chain, beat, reaping, last>>

InitBoth == subject \in {"window", "registry"} /\ Init /\ R!Init

NextWindow == subject = "window" /\ UNCHANGED <<subject, registryVars>> /\ Next
NextRegistry == subject = "registry" /\ UNCHANGED <<subject, vars>> /\ R!Next

\* Fairness of Terminal.
FairWindow ==
    /\ WF_vars(subject = "window" /\ Tick)
    /\ WF_vars(subject = "window" /\ (Attach \/ ExecutionEnded \/ Leave))
    /\ WF_vars(subject = "window" /\ interrupts > 0 /\ ReleaseRun)
    /\ WF_vars(subject = "window" /\ (Prepared \/ NotPrepared \/ BecomeObserver))

\* FairSpec of Registry.
FairRegistry ==
    /\ WF_registryVars(subject = "registry" /\ R!Execute)
    /\ WF_registryVars(subject = "registry" /\ R!Heartbeat)
    /\ WF_registryVars(subject = "registry" /\ R!WriteEntry)
    /\ WF_registryVars(subject = "registry" /\ R!Release)
    /\ WF_registryVars(subject = "registry" /\ R!Reap)
    /\ WF_registryVars(subject = "registry" /\ R!Tick)

SpecBoth ==
    /\ InitBoth /\ [][NextWindow \/ NextRegistry]_<<subject, vars, registryVars>>
    /\ FairWindow /\ FairRegistry

\* The registry is true to the run, and lists it as long as it should (Registry).
RegistryTrue == R!RegistryTrue
=============================================================================
