-------------------------- MODULE HostBridge_proofs -------------------------
(***************************************************************************)
(* Proofs about HostBridge, for any goroutines with any sequences of host  *)
(* calls and any deadlines.                                                *)
(***************************************************************************)
EXTENDS HostBridge, TLAPS

Types ==
    /\ at \in [Goroutines -> Nat]
    /\ pc \in [Goroutines -> {"look", "lock", "hold", "enter", "host"}]
    /\ elapsed \in [Goroutines -> Nat]

(* abiHost.mu is held from the lock to the return of the host, by one      *)
(* goroutine at a time.                                                    *)
Inside == {"hold", "enter", "host"}

LockShape ==
    /\ \A g \in Goroutines : pc[g] \in Inside => mu = g /\ Running(g)
    /\ mu # "" => mu \in Goroutines /\ pc[mu] \in Inside

(* As long as the one that looked in time has not entered, none has.       *)
LateShape ==
    /\ late \in {0, 1}
    /\ late = 1 => canceled
    /\ late = 1 => \A g \in Goroutines :
                      pc[g] = "enter" => Kind(g) \notin Cancelable

(* scheduler.pick is asked on behalf of a model request in the host.       *)
PickShape ==
    pick # "none" => /\ mu \in Goroutines /\ pc[mu] = "host"
                     /\ Kind(mu) = "model"

(* Shutdown returns after the last goroutine.                              *)
ShutdownShape == shutdown = "done" => \A g \in Goroutines : ~Running(g)

IInv == Types /\ LockShape /\ LateShape /\ PickShape /\ ShutdownShape

(* No call yet.                                                            *)
LEMMA InitInv == Init => IInv
<1> SUFFICES ASSUME Init PROVE IInv
  OBVIOUS
<1>1. Types /\ \A g \in Goroutines : pc[g] = "look"
  BY DEF Init, Types
<1>2. mu = "" /\ pick = "none" /\ shutdown = "none"
  BY DEF Init
<1>3. LockShape
  BY <1>1, <1>2 DEF LockShape, Inside
<1>4. LateShape
  <2>1. late = 0
    BY DEF Init
  <2>2. late \in {0, 1} /\ late # 1
    BY <2>1
  <2> QED
    BY <2>2 DEF LateShape
<1>5. PickShape /\ ShutdownShape
  BY <1>2 DEF PickShape, ShutdownShape
<1> QED
  BY <1>1, <1>3, <1>4, <1>5 DEF IInv

(* A call ends: the goroutine is at its next one.                          *)
LEMMA EndsEffect ==
    ASSUME Types, NEW g \in Goroutines, Ends(g), Running(g)
    PROVE  /\ Types'
           /\ pc'[g] = "look"
           /\ \A h \in Goroutines \ {g} :
                 pc'[h] = pc[h] /\ (Running(h)' <=> Running(h)) /\ Kind(h)' = Kind(h)
<1>1. Types'
  BY DEF Types, Ends
<1>2. /\ pc'[g] = "look"
      /\ \A h \in Goroutines \ {g} : pc'[h] = pc[h] /\ at'[h] = at[h]
  BY DEF Types, Ends
<1> QED
  BY <1>1, <1>2 DEF Running, Kind

(* What a step of one goroutine leaves alone, if it does not ask the host  *)
(* and the host does not return: the others, and what they have.           *)
Others(g) ==
    \A h \in Goroutines \ {g} :
        pc'[h] = pc[h] /\ (Running(h)' <=> Running(h)) /\ Kind(h)' = Kind(h)

(* A goroutine moves on within its call.                                   *)
LEMMA MoveEffect ==
    ASSUME Types, NEW g \in Goroutines,
           NEW to \in {"look", "lock", "hold", "enter", "host"},
           pc' = [pc EXCEPT ![g] = to], UNCHANGED <<at, elapsed>>
    PROVE  /\ Types' /\ pc'[g] = to /\ Others(g)
           /\ (Running(g)' <=> Running(g)) /\ Kind(g)' = Kind(g)
BY DEF Types, Others, Running, Kind

(* The look at the context before the lock.                                *)
LEMMA LookInv ==
    ASSUME IInv, NEW g \in Goroutines, Look(g)
    PROVE  IInv'
<1>1. /\ Running(g) /\ pc[g] = "look"
      /\ UNCHANGED <<mu, pick, shutdown, late, canceled>>
  BY DEF Look, entrypoints
<1>2. mu # g
  BY <1>1, BridgeAssumption DEF IInv, LockShape, Inside
<1>3. shutdown # "done"
  BY <1>1 DEF IInv, ShutdownShape
<1>4. Types' /\ pc'[g] \in {"look", "lock"} /\ Others(g)
  <2>1. CASE Ends(g)
    BY <1>1, <2>1, EndsEffect DEF IInv, Others
  <2>2. CASE pc' = [pc EXCEPT ![g] = "lock"] /\ UNCHANGED <<at, elapsed>>
    BY <2>2, MoveEffect DEF IInv
  <2> QED
    BY <2>1, <2>2 DEF Look
<1>5. LockShape' /\ PickShape' /\ ShutdownShape'
  BY <1>1, <1>2, <1>3, <1>4
     DEF IInv, LockShape, PickShape, ShutdownShape, Inside, Others
<1>6. LateShape'
  BY <1>1, <1>4 DEF IInv, LateShape, Others
<1> QED
  BY <1>4, <1>5, <1>6 DEF IInv

(* The lock is free, so nobody is inside.                                  *)
LEMMA LockInv ==
    ASSUME IInv, NEW g \in Goroutines, Lock(g)
    PROVE  IInv'
<1>1. /\ Running(g) /\ pc[g] = "lock" /\ mu = "" /\ mu' = g
      /\ pc' = [pc EXCEPT ![g] = "hold"]
      /\ UNCHANGED <<at, elapsed, pick, shutdown, late, canceled>>
  BY DEF Lock, entrypoints
<1>2. shutdown # "done"
  BY <1>1 DEF IInv, ShutdownShape
<1>3. pick = "none" /\ \A h \in Goroutines : pc[h] \notin Inside
  BY <1>1, BridgeAssumption DEF IInv, LockShape, PickShape
<1>4. /\ Types' /\ pc'[g] = "hold" /\ Others(g)
      /\ (Running(g)' <=> Running(g))
  BY <1>1, MoveEffect DEF IInv
<1>5. LockShape' /\ PickShape' /\ ShutdownShape'
  BY <1>1, <1>2, <1>3, <1>4
     DEF IInv, LockShape, PickShape, ShutdownShape, Inside, Others
<1>6. LateShape'
  BY <1>1, <1>4 DEF IInv, LateShape, Others
<1> QED
  BY <1>4, <1>5, <1>6 DEF IInv

(* A goroutine that holds the lock is alone inside, and Shutdown has not   *)
(* returned.                                                               *)
LEMMA AloneInside ==
    ASSUME IInv, NEW g \in Goroutines, pc[g] \in Inside
    PROVE  /\ mu = g /\ Running(g) /\ shutdown # "done"
           /\ \A h \in Goroutines \ {g} : pc[h] \notin Inside
BY DEF IInv, LockShape, ShutdownShape

(* The second look lets no canceled call through.                          *)
LEMMA LookAgainInv ==
    ASSUME IInv, NEW g \in Goroutines, LookAgain(g)
    PROVE  IInv'
<1>1. /\ Running(g) /\ pc[g] = "hold"
      /\ UNCHANGED <<pick, shutdown, late, canceled>>
  BY DEF LookAgain, entrypoints
<1>2. /\ mu = g /\ shutdown # "done" /\ pick = "none"
      /\ \A h \in Goroutines \ {g} : pc[h] \notin Inside
  BY <1>1, AloneInside DEF IInv, PickShape, Inside
<1>3. CASE Ends(g) /\ mu' = ""
  <2>1. Types' /\ pc'[g] = "look" /\ Others(g)
    BY <1>1, <1>3, EndsEffect DEF IInv, Others
  <2>2. LockShape' /\ PickShape' /\ ShutdownShape'
    BY <1>1, <1>2, <1>3, <2>1
       DEF LockShape, PickShape, ShutdownShape, Inside, Others
  <2>3. LateShape'
    BY <1>1, <2>1 DEF IInv, LateShape, Others
  <2> QED
    BY <2>1, <2>2, <2>3 DEF IInv
<1>4. CASE ~Done(g) /\ pc' = [pc EXCEPT ![g] = "enter"]
           /\ UNCHANGED <<at, elapsed, mu>>
  <2>1. /\ Types' /\ pc'[g] = "enter" /\ Others(g)
        /\ (Running(g)' <=> Running(g)) /\ Kind(g)' = Kind(g)
    BY <1>4, MoveEffect DEF IInv
  <2>2. LockShape' /\ PickShape' /\ ShutdownShape'
    BY <1>1, <1>2, <1>4, <2>1
       DEF LockShape, PickShape, ShutdownShape, Inside, Others
  <2>3. LateShape'
    <3>1. canceled => Kind(g) \notin Cancelable
      BY <1>4 DEF Done
    <3> QED
      BY <1>1, <2>1, <3>1 DEF IInv, LateShape, Others
  <2> QED
    BY <2>1, <2>2, <2>3 DEF IInv
<1> QED
  BY <1>3, <1>4 DEF LookAgain

(* The one that looked in time enters: it is the only one inside.          *)
LEMMA EnterInv ==
    ASSUME IInv, NEW g \in Goroutines, Enter(g)
    PROVE  IInv'
<1>1. /\ Running(g) /\ pc[g] = "enter" /\ pc' = [pc EXCEPT ![g] = "host"]
      /\ UNCHANGED <<at, elapsed, mu, pick, shutdown, canceled>>
      /\ late' = IF canceled /\ Kind(g) \in Cancelable THEN late + 1 ELSE late
  BY DEF Enter, entrypoints
<1>2. /\ mu = g /\ shutdown # "done" /\ pick = "none"
      /\ \A h \in Goroutines \ {g} : pc[h] \notin Inside
  BY <1>1, AloneInside DEF IInv, PickShape, Inside
<1>3. /\ Types' /\ pc'[g] = "host" /\ Others(g)
      /\ (Running(g)' <=> Running(g))
  BY <1>1, MoveEffect DEF IInv
<1>4. LockShape' /\ PickShape' /\ ShutdownShape'
  BY <1>1, <1>2, <1>3
     DEF LockShape, PickShape, ShutdownShape, Inside, Others
<1>5. LateShape'
  <2>1. \A h \in Goroutines : pc'[h] # "enter"
    BY <1>2, <1>3 DEF Others, Inside
  <2>2. late' \in {0, 1} /\ (late' = 1 => canceled)
    BY <1>1 DEF IInv, LateShape
  <2> QED
    BY <1>1, <2>1, <2>2 DEF LateShape
<1> QED
  BY <1>3, <1>4, <1>5 DEF IInv

(* The host asks back, gets its answer, or returns.                        *)
LEMMA HostInv ==
    ASSUME IInv, NEW g \in Goroutines, PickAsked(g) \/ HostReturns(g)
    PROVE  IInv'
<1>1. pc[g] = "host" /\ Running(g) /\ UNCHANGED <<shutdown, late, canceled>>
  BY DEF PickAsked, HostReturns, entrypoints
<1>2. /\ mu = g /\ shutdown # "done"
      /\ \A h \in Goroutines \ {g} : pc[h] \notin Inside
  BY <1>1, AloneInside DEF Inside
<1>3. CASE PickAsked(g)
  <2>1. Kind(g) = "model" /\ UNCHANGED <<at, pc, elapsed, mu>>
    BY <1>3 DEF PickAsked
  <2>2. \A h : (Running(h)' <=> Running(h)) /\ Kind(h)' = Kind(h)
    BY <2>1 DEF Running, Kind
  <2>3. Types' /\ LockShape'
    BY <2>1, <2>2 DEF IInv, Types, LockShape
  <2>4. PickShape'
    BY <1>1, <1>2, <2>1, <2>2 DEF PickShape
  <2>5. LateShape' /\ ShutdownShape'
    BY <1>1, <2>1, <2>2 DEF IInv, LateShape, ShutdownShape
  <2> QED
    BY <2>3, <2>4, <2>5 DEF IInv
<1>4. CASE HostReturns(g)
  <2>1. Types' /\ pc'[g] = "look" /\ Others(g)
    BY <1>1, <1>4, EndsEffect DEF HostReturns, IInv, Others
  <2>2. LockShape' /\ PickShape' /\ ShutdownShape'
    BY <1>1, <1>2, <1>4, <2>1
       DEF HostReturns, LockShape, PickShape, ShutdownShape, Inside, Others
  <2>3. LateShape'
    BY <1>1, <2>1 DEF IInv, LateShape, Others
  <2> QED
    BY <2>1, <2>2, <2>3 DEF IInv
<1> QED
  BY <1>3, <1>4

(* Clocks, callbacks and the entry points change nobody's place.           *)
LEMMA OtherInv ==
    ASSUME IInv,
           \/ Pick \/ Tick \/ Reconfigure \/ ShutdownAsked \/ ShutdownCancels
           \/ ShutdownReturns \/ StatusAsked \/ Status \/ UNCHANGED vars
    PROVE  IInv'
<1> USE DEF goroutines, entrypoints, vars
<1>1. UNCHANGED <<at, pc, mu, late>>
  BY DEF Pick, Tick, Reconfigure, ShutdownAsked, ShutdownCancels,
         ShutdownReturns, StatusAsked, Status
<1>2. elapsed' \in [Goroutines -> Nat]
  <2>1. CASE Tick
    <3>1. \A g \in Goroutines : elapsed[g] \in Nat /\ elapsed[g] + 1 \in Nat
      BY DEF IInv, Types
    <3> QED
      BY <2>1, <3>1 DEF Tick
  <2>2. CASE UNCHANGED elapsed
    BY <2>2 DEF IInv, Types
  <2> QED
    BY <2>1, <2>2 DEF Pick, Reconfigure, ShutdownAsked, ShutdownCancels,
                      ShutdownReturns, StatusAsked, Status
<1>3. Types'
  BY <1>1, <1>2 DEF IInv, Types
<1>4. \A g : (Running(g)' <=> Running(g)) /\ Kind(g)' = Kind(g)
  BY <1>1 DEF Running, Kind
<1>5. LockShape'
  BY <1>1, <1>4 DEF IInv, LockShape
<1>6. PickShape'
  <2>1. pick' # "none" => pick # "none"
    BY DEF Pick, Tick, Reconfigure, ShutdownAsked, ShutdownCancels,
           ShutdownReturns, StatusAsked, Status
  <2> QED
    BY <1>1, <1>4, <2>1 DEF IInv, PickShape
<1>7. ShutdownShape'
  <2>1. shutdown' = "done" =>
           shutdown = "done" \/ \A g \in Goroutines : ~Running(g)
    BY DEF Pick, Tick, Reconfigure, ShutdownAsked, ShutdownCancels,
           ShutdownReturns, StatusAsked, Status
  <2> QED
    BY <1>4, <2>1 DEF IInv, ShutdownShape
<1>8. LateShape'
  <2>1. canceled => canceled'
    BY DEF Pick, Tick, Reconfigure, ShutdownAsked, ShutdownCancels,
           ShutdownReturns, StatusAsked, Status
  <2>2. late \in {0, 1} /\ (late = 1 => canceled)
    BY DEF IInv, LateShape
  <2> QED
    BY <1>1, <1>4, <2>1, <2>2 DEF IInv, LateShape
<1> QED
  BY <1>3, <1>5, <1>6, <1>7, <1>8 DEF IInv

(* The invariant holds throughout.                                         *)
LEMMA Inductive == Spec => []IInv
<1>1. IInv /\ [Next]_vars => IInv'
  BY LookInv, LockInv, LookAgainInv, EnterInv, HostInv, OtherInv DEF Next
<1> QED
  BY <1>1, InitInv, PTL DEF Spec

-----------------------------------------------------------------------------
(* The host is entered only under abiHost.mu: a call waits for the other   *)
(* to return, and once plugin.shutdown has returned none is in the host,   *)
(* holds the lock or waits for an answer of scheduler.pick.                *)
HostLeftAlone ==
    /\ \A g, h \in Goroutines : pc[g] = "host" /\ pc[h] = "host" => g = h
    /\ shutdown = "done" =>
          /\ \A g \in Goroutines : pc[g] # "host"
          /\ mu = "" /\ pick = "none"

(* For whatever calls the goroutines make, one at a time is in the host,   *)
(* and none when Shutdown has returned.                                    *)
THEOREM LeftAlone == Spec => []HostLeftAlone
<1>1. IInv => HostLeftAlone
  BY BridgeAssumption DEF IInv, LockShape, PickShape, ShutdownShape, Inside,
                          HostLeftAlone
<1> QED
  BY <1>1, Inductive, PTL

(* However many calls wait for abiHost.mu when their contexts are canceled, *)
(* none of them enters the host: only the call that has the lock and its    *)
(* second look behind it may, and there is at most one of those.            *)
THEOREM OneAtMost == Spec => []OneLateCall
<1>1. IInv => OneLateCall
  BY DEF IInv, LateShape, OneLateCall
<1> QED
  BY <1>1, Inductive, PTL
=============================================================================
