----------------------------- MODULE HostBridge -----------------------------
(***************************************************************************)
(* Calls in both directions between the plugin and CPA, and the locks they *)
(* cross (cmd/cpa-auto-refresh-quota/main.go): abiHost.call holds abiHost.mu *)
(* while it is in the host; the host asks scheduler.pick back before it    *)
(* answers a model request; plugin.shutdown holds serviceLifecycle until   *)
(* all goroutines have ended; the management API passes through it.        *)
(*                                                                         *)
(* What a goroutine does is here the sequence of its host calls. A context *)
(* has a clock from the moment it is made.                                 *)
(***************************************************************************)
EXTENDS Integers, Sequences

CONSTANTS
    Goroutines,
    Program,    \* the host calls of each
    Timeout,    \* of the context of each kind of call
    MaxElapsed  \* where the clocks stop

Kinds == {"log", "list", "recovery", "model", "restore"}

ASSUME BridgeAssumption ==
    /\ "" \notin Goroutines
    /\ Program \in [Goroutines -> Seq(Kinds)]
    /\ Timeout \in [Kinds -> Nat]
    /\ MaxElapsed \in Nat

VARIABLES
    at,         \* the call each goroutine is at
    pc,         \* "look", "lock", "hold", "enter" or "host"
    elapsed,    \* age of the call's context
    mu,         \* who holds abiHost.mu, "" for none
    pick,       \* scheduler.pick for the model request: "none", "asked", "done"
    canceled,   \* the contexts of runs, scheduler and recovery
    lifecycle,  \* serviceLifecycle is held for writing
    shutdown,   \* plugin.shutdown: "none", "asked", "waits", "done"
    status,     \* a GET status: "none", "asked", "done"
    late        \* observer: calls that entered the host after the contexts
                \* they have were canceled

vars == <<at, pc, elapsed, mu, pick, canceled, lifecycle, shutdown, status,
          late>>

goroutines == <<at, pc, elapsed, mu, pick, late>>
entrypoints == <<lifecycle, shutdown, status>>

-----------------------------------------------------------------------------
Running(g) == at[g] <= Len(Program[g])

Kind(g) == Program[g][at[g]]

(* Log has the background context and a restore one of its own, with a     *)
(* deadline; so have the startup recovery and, below the run's context,    *)
(* the model request.                                                      *)
Cancelable == {"list", "recovery", "model"}

Limited == {"recovery", "model", "restore"}

Done(g) ==
    \/ canceled /\ Kind(g) \in Cancelable
    \/ Kind(g) \in Limited /\ elapsed[g] >= Timeout[Kind(g)]

Init ==
    /\ at = [g \in Goroutines |-> 1]
    /\ pc = [g \in Goroutines |-> "look"]
    /\ elapsed = [g \in Goroutines |-> 0]
    /\ mu = "" /\ pick = "none" /\ canceled = FALSE
    /\ lifecycle = FALSE /\ shutdown = "none" /\ status = "none"
    /\ late = 0

(* The call ends, with an answer or an error.                              *)
Ends(g) ==
    /\ at' = [at EXCEPT ![g] = @ + 1]
    /\ pc' = [pc EXCEPT ![g] = "look"]
    /\ elapsed' = [elapsed EXCEPT ![g] = 0]

(* abiHost.call: a look at the context before the lock,                    *)
Look(g) ==
    /\ Running(g) /\ pc[g] = "look"
    /\ \/ Done(g) /\ Ends(g)
       \/ /\ ~Done(g) /\ pc' = [pc EXCEPT ![g] = "lock"]
          /\ UNCHANGED <<at, elapsed>>
    /\ UNCHANGED <<mu, pick, canceled, late, entrypoints>>

(* then the lock,                                                          *)
Lock(g) ==
    /\ Running(g) /\ pc[g] = "lock" /\ mu = ""
    /\ mu' = g /\ pc' = [pc EXCEPT ![g] = "hold"]
    /\ UNCHANGED <<at, elapsed, pick, canceled, late, entrypoints>>

(* Mutant: no second look.                                                 *)
EnterUnseen(g) ==
    /\ Running(g) /\ pc[g] = "hold"
    /\ pc' = [pc EXCEPT ![g] = "enter"]
    /\ UNCHANGED <<at, elapsed, mu, pick, canceled, late, entrypoints>>

(* a second look with the lock in hand,                                    *)
LookAgain(g) ==
    /\ Running(g) /\ pc[g] = "hold"
    /\ \/ Done(g) /\ Ends(g) /\ mu' = ""
       \/ /\ ~Done(g) /\ pc' = [pc EXCEPT ![g] = "enter"]
          /\ UNCHANGED <<at, elapsed, mu>>
    /\ UNCHANGED <<pick, canceled, late, entrypoints>>

(* and the host, whatever has happened to the context since.               *)
Enter(g) ==
    /\ Running(g) /\ pc[g] = "enter"
    /\ pc' = [pc EXCEPT ![g] = "host"]
    /\ late' = IF canceled /\ Kind(g) \in Cancelable THEN late + 1 ELSE late
    /\ UNCHANGED <<at, elapsed, mu, pick, canceled, entrypoints>>

(* The host (external) asks scheduler.pick and waits for its answer.       *)
PickAsked(g) ==
    /\ Running(g) /\ pc[g] = "host" /\ Kind(g) = "model" /\ pick = "none"
    /\ pick' = "asked"
    /\ UNCHANGED <<at, pc, elapsed, mu, canceled, late, entrypoints>>

(* Mutant: pick goes through the service, as the management API does.      *)
PickThroughService ==
    /\ pick = "asked" /\ ~lifecycle /\ pick' = "done"
    /\ UNCHANGED <<at, pc, elapsed, mu, canceled, late, entrypoints>>

(* pickPinnedAuth takes the registry's lock only, see PinRegistry.         *)
Pick ==
    /\ pick = "asked" /\ pick' = "done"
    /\ UNCHANGED <<at, pc, elapsed, mu, canceled, late, entrypoints>>

HostReturns(g) ==
    /\ Running(g) /\ pc[g] = "host" /\ pick # "asked"
    /\ mu' = "" /\ pick' = "none" /\ Ends(g)
    /\ UNCHANGED <<canceled, late, entrypoints>>

Tick ==
    /\ \E g \in Goroutines : Running(g) /\ elapsed[g] < MaxElapsed
    /\ elapsed' = [g \in Goroutines |->
                     IF Running(g) /\ elapsed[g] < MaxElapsed
                     THEN elapsed[g] + 1 ELSE elapsed[g]]
    /\ UNCHANGED <<at, pc, mu, pick, canceled, late, entrypoints>>

-----------------------------------------------------------------------------
(* applyConfiguration: what it cancels it does not wait for.               *)
Reconfigure ==
    /\ ~lifecycle /\ shutdown \in {"none", "asked"} /\ ~canceled
    /\ canceled' = TRUE
    /\ UNCHANGED <<goroutines, entrypoints>>

ShutdownAsked ==
    /\ shutdown = "none" /\ shutdown' = "asked"
    /\ UNCHANGED <<goroutines, canceled, lifecycle, status>>

(* shutdownService takes the lock, Shutdown cancels                        *)
ShutdownCancels ==
    /\ shutdown = "asked" /\ ~lifecycle
    /\ lifecycle' = TRUE /\ canceled' = TRUE /\ shutdown' = "waits"
    /\ UNCHANGED <<goroutines, status>>

(* and waits for the goroutines, the lock in hand.                         *)
ShutdownReturns ==
    /\ shutdown = "waits" /\ \A g \in Goroutines : ~Running(g)
    /\ lifecycle' = FALSE /\ shutdown' = "done"
    /\ UNCHANGED <<goroutines, canceled, status>>

StatusAsked ==
    /\ status = "none" /\ status' = "asked"
    /\ UNCHANGED <<goroutines, canceled, lifecycle, shutdown>>

(* currentService and Status.                                              *)
Status ==
    /\ status = "asked" /\ ~lifecycle /\ status' = "done"
    /\ UNCHANGED <<goroutines, canceled, lifecycle, shutdown>>

-----------------------------------------------------------------------------
Next ==
    \/ \E g \in Goroutines :
          \/ Look(g) \/ Lock(g) \/ LookAgain(g) \/ Enter(g)
          \/ PickAsked(g) \/ HostReturns(g)
    \/ Pick \/ Tick
    \/ Reconfigure \/ ShutdownAsked \/ ShutdownCancels \/ ShutdownReturns
    \/ StatusAsked \/ Status

Spec == Init /\ [][Next]_vars

(* The host returns from each call, and goroutines are scheduled. A free   *)
(* mutex goes to the one that waits longest before it starves.             *)
Fairness ==
    /\ \A g \in Goroutines : /\ WF_vars(Look(g)) /\ SF_vars(Lock(g))
                             /\ WF_vars(LookAgain(g)) /\ WF_vars(Enter(g))
                             /\ WF_vars(HostReturns(g))
    /\ WF_vars(Pick)
    /\ WF_vars(ShutdownCancels) /\ WF_vars(ShutdownReturns) /\ WF_vars(Status)

FairSpec == Spec /\ Fairness

-----------------------------------------------------------------------------
(* After the contexts are canceled at most one listing or model request    *)
(* still enters the host, over all goroutines: the one that had the lock   *)
(* and its second look behind it. None of those does that were waiting for *)
(* the lock, however many they are.                                        *)
OneLateCall == late <= 1

(* The calls of the host return: Shutdown, although a request may be in    *)
(* the host when it begins and the host must be answered for it to end,    *)
(* and a status that is asked for while Shutdown has serviceLifecycle.     *)
EntryPointsReturn ==
    /\ shutdown = "asked" ~> shutdown = "done"
    /\ status = "asked" ~> status = "done"

(* "The longest time of a single model request" (docs/CONFIGURATION.md:36) *)
(* is request_timeout. The request's context has that deadline, but the    *)
(* host is not told and the call is not left when it passes.               *)
RequestBounded ==
    \A g \in Goroutines :
        Running(g) /\ pc[g] = "host" /\ Kind(g) = "model" =>
            elapsed[g] <= Timeout["model"]
=============================================================================
