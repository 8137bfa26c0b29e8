----------------------------- MODULE PinRegistry -----------------------------
(***************************************************************************)
(* Pinning of a model request to one credential: the registry of routing   *)
(* tokens and the scheduler.pick callback (cmd/cpa-auto-refresh-quota/     *)
(* pin.go), and ExecutePinned, which sends the request (main.go).          *)
(*                                                                         *)
(* A refresh run makes one ExecutePinned call after the other. The host    *)
(* serves each with any number of attempts, in goroutines of its own that  *)
(* may outlive the call, and asks the plugin which credential to use. Each *)
(* block under authPinRegistry.mu is one step.                             *)
(***************************************************************************)
EXTENDS Naturals, Sequences

CONSTANTS
    Auths,          \* credentials
    NoAuth,         \* the empty AuthID of a zero authPinState
    Pickers,        \* scheduler.pick callbacks at a time
    MaxExecutions   \* ExecutePinned calls

ASSUME PinAssumption ==
    /\ NoAuth \notin Auths
    /\ MaxExecutions \in Nat

VARIABLES
    pins,     \* token -> authPinState
    pc,       \* of ExecutePinned
    n,        \* calls so far; the n-th random token is n
    target,   \* token -> req.AuthID
    consults, \* token -> does the host ask scheduler.pick in this call
    result,   \* what host.model.execute returned to the call going on
    outcome,  \* token -> what ExecutePinned returned
    picks,    \* the callbacks
    sent      \* <<token, auth>>: upstream requests made by the host

vars == <<pins, pc, n, target, consults, result, outcome, picks, sent>>

Tokens == 1..MaxExecutions

(* A header value that is not a token of this plugin.                      *)
Foreign == 0

NoPin == [auth |-> NoAuth, seen |-> FALSE, selected |-> FALSE]
Exists(t) == t \in Tokens /\ pins[t].auth # NoAuth

(* for is the call an attempt serves, Foreign for the host's other         *)
(* traffic; values are the non-empty values of the pin header.             *)
NoPick == [pc |-> "idle", for |-> Foreign, present |-> FALSE, values |-> <<>>,
           candidates |-> {}, token |-> Foreign, auth |-> NoAuth]

Asking(for, present, values, candidates) ==
    [pc |-> "ask", for |-> for, present |-> present, values |-> values,
     candidates |-> candidates, token |-> Foreign, auth |-> NoAuth]

Init ==
    /\ pins = [t \in Tokens |-> NoPin]
    /\ pc = "idle" /\ n = 0 /\ result = "none"
    /\ target = [t \in Tokens |-> NoAuth]
    /\ consults = [t \in Tokens |-> TRUE]
    /\ outcome = [t \in Tokens |-> "none"]
    /\ picks = [p \in Pickers |-> NoPick]
    /\ sent = {}

-----------------------------------------------------------------------------
(* ExecutePinned: register a token, call the host, finish the token. The   *)
(* host either asks scheduler.pick for every attempt of a call or, when    *)
(* the plugin is not its scheduler, for none.                              *)
Register(a, asks) ==
    /\ pc = "idle" /\ n < MaxExecutions
    /\ n' = n + 1
    /\ pins' = [pins EXCEPT ![n'] = [NoPin EXCEPT !.auth = a]]
    /\ target' = [target EXCEPT ![n'] = a]
    /\ consults' = [consults EXCEPT ![n'] = asks]
    /\ pc' = "call"
    /\ UNCHANGED <<result, outcome, picks, sent>>

(* No token: the auth ID is empty or the random source fails.              *)
RegisterFails ==
    /\ pc = "idle" /\ n < MaxExecutions
    /\ n' = n + 1
    /\ outcome' = [outcome EXCEPT ![n'] = "unregistered"]
    /\ UNCHANGED <<pins, pc, target, consults, result, picks, sent>>

(* The context is done before the host is called, which so asks nothing.   *)
CallRefused ==
    /\ pc = "call"
    /\ pc' = "returned" /\ result' = "error"
    /\ consults' = [consults EXCEPT ![n] = FALSE]
    /\ UNCHANGED <<pins, n, target, outcome, picks, sent>>

CallHost ==
    /\ pc = "call"
    /\ pc' = "host"
    /\ UNCHANGED <<pins, n, target, consults, result, outcome, picks, sent>>

(* The host answers with a response only if it sent a request.             *)
HostReturns(answer) ==
    /\ pc = "host"
    /\ answer = "response" => \E a \in Auths : <<n, a>> \in sent
    /\ pc' = "returned" /\ result' = answer
    /\ UNCHANGED <<pins, n, target, consults, outcome, picks, sent>>

(* Mutant: a response is taken as it comes.                                *)
OutcomeOfCall(state) ==
    IF result = "error" THEN "callError" ELSE "response"

Outcome(state) ==
    IF ~state.selected
    THEN IF state.seen /\ result = "error" THEN "callError" ELSE "notSelected"
    ELSE IF result = "error" THEN "callError" ELSE "response"

Finish ==
    /\ pc = "returned"
    /\ outcome' = [outcome EXCEPT ![n] = Outcome(pins[n])]
    /\ pins' = [pins EXCEPT ![n] = NoPin]
    /\ pc' = "idle" /\ result' = "none"
    /\ UNCHANGED <<n, target, consults, picks, sent>>

-----------------------------------------------------------------------------
(* The host routes an attempt of call t, in time or late, with the header  *)
(* as it was sent or spoiled on the way; it offers the candidates it has   *)
(* left. Other traffic has no header, or one of its own.                   *)
Attempt(p, t, values, candidates) ==
    /\ picks[p].pc = "idle"
    /\ t \in 1..n /\ consults[t] /\ target[t] # NoAuth
    /\ t = n => pc # "call"
    /\ picks' = [picks EXCEPT ![p] = Asking(t, TRUE, values, candidates)]
    /\ UNCHANGED <<pins, pc, n, target, consults, result, outcome, sent>>

OtherTraffic(p, present) ==
    /\ picks[p].pc = "idle"
    /\ picks' = [picks EXCEPT ![p] =
           Asking(Foreign, present, IF present THEN <<Foreign>> ELSE <<>>, Auths)]
    /\ UNCHANGED <<pins, pc, n, target, consults, result, outcome, sent>>

(* A host that does not ask routes by itself.                              *)
Bypass(a) ==
    /\ pc = "host" /\ ~consults[n]
    /\ sent' = sent \cup {<<n, a>>}
    /\ UNCHANGED <<pins, pc, n, target, consults, result, outcome, picks>>

(* The header has one value, and it is a live token.                       *)
Routes(values) == Len(values) = 1 /\ Exists(values[1])

(* Mutant of MarkSeen: a fresh state is stored.                            *)
MarkSeenAfresh(values) ==
    [t \in Tokens |->
        IF Exists(t) /\ \E k \in DOMAIN values : values[k] = t
        THEN [NoPin EXCEPT !.auth = pins[t].auth, !.seen = TRUE]
        ELSE pins[t]]

MarkSeen(values) ==
    [t \in Tokens |->
        IF Exists(t) /\ \E k \in DOMAIN values : values[k] = t
        THEN [pins[t] EXCEPT !.seen = TRUE] ELSE pins[t]]

(* The host uses the credential it is given; the callback is over.         *)
Answer(p, a) ==
    /\ sent' = sent \cup {<<picks[p].for, a>>}
    /\ picks' = [picks EXCEPT ![p] = NoPick]

AnswerError(p) ==
    /\ picks' = [picks EXCEPT ![p] = NoPick]
    /\ UNCHANGED sent

(* Mutant of PickUnhandled: unknown tokens are left to the host.           *)
PickUnknownUnhandled(p) ==
    /\ picks[p].pc = "ask"
    /\ ~\E k \in DOMAIN picks[p].values : Exists(picks[p].values[k])
    /\ \E a \in picks[p].candidates : Answer(p, a)
    /\ UNCHANGED <<pins, pc, n, target, consults, result, outcome>>

(* Without the header the request is not handled: the host chooses.        *)
PickUnhandled(p) ==
    /\ picks[p].pc = "ask" /\ ~picks[p].present
    /\ \E a \in picks[p].candidates : Answer(p, a)
    /\ UNCHANGED <<pins, pc, n, target, consults, result, outcome>>

(* matchHeader: the pins named are marked seen even when they are refused. *)
Match(p) ==
    LET values == picks[p].values IN
    /\ picks[p].pc = "ask" /\ picks[p].present
    /\ pins' = MarkSeen(values)
    /\ \/ /\ ~Routes(values)
          /\ AnswerError(p)
       \/ /\ Routes(values)
          /\ picks' = [picks EXCEPT ![p].pc = "matched", ![p].token = values[1],
                                    ![p].auth = pins[values[1]].auth]
          /\ UNCHANGED sent
    /\ UNCHANGED <<pc, n, target, consults, result, outcome>>

(* Mutant of MarkSelected: the pin is stored whether or not it exists.     *)
MarkSelectedAnyway(p) ==
    [pins EXCEPT ![picks[p].token] =
        [auth |-> picks[p].auth, seen |-> TRUE, selected |-> TRUE]]

(* markSelected: the call may have finished since the match.               *)
MarkSelected(p) ==
    LET t == picks[p].token IN
    IF Exists(t)
    THEN [pins EXCEPT ![t].seen = TRUE, ![t].selected = TRUE]
    ELSE pins

Select(p) ==
    /\ picks[p].pc = "matched"
    /\ \/ /\ picks[p].auth \in picks[p].candidates
          /\ pins' = MarkSelected(p)
          /\ Answer(p, picks[p].auth)
       \/ /\ picks[p].auth \notin picks[p].candidates
          /\ AnswerError(p)
          /\ UNCHANGED pins
    /\ UNCHANGED <<pc, n, target, consults, result, outcome>>

-----------------------------------------------------------------------------
(* The header as sent, emptied, repeated, or next to another value.        *)
Headers(t) == {<<t>>, <<>>, <<t, t>>, <<Foreign, t>>}

ExecuteStep ==
    \/ \E a \in Auths, asks \in BOOLEAN : Register(a, asks)
    \/ RegisterFails \/ CallRefused \/ CallHost
    \/ \E answer \in {"response", "error"} : HostReturns(answer)
    \/ Finish

HostStep(p) ==
    \/ \E t \in Tokens : \E values \in Headers(t), c \in SUBSET Auths :
          Attempt(p, t, values, c)
    \/ \E present \in BOOLEAN : OtherTraffic(p, present)

PickStep(p) == PickUnhandled(p) \/ Match(p) \/ Select(p)

Next ==
    \/ ExecuteStep
    \/ \E a \in Auths : Bypass(a)
    \/ \E p \in Pickers : HostStep(p) \/ PickStep(p)

Spec == Init /\ [][Next]_vars

-----------------------------------------------------------------------------
PinStates == [auth : Auths \cup {NoAuth}, seen : BOOLEAN, selected : BOOLEAN]

PickStates ==
    [pc : {"idle", "ask", "matched"}, for : 0..MaxExecutions,
     present : BOOLEAN, values : Seq(0..MaxExecutions),
     candidates : SUBSET Auths, token : 0..MaxExecutions,
     auth : Auths \cup {NoAuth}]

(* Types of the variables.                                                 *)
TypeOK ==
    /\ pins \in [Tokens -> PinStates]
    /\ pc \in {"idle", "call", "host", "returned"}
    /\ n \in 0..MaxExecutions
    /\ target \in [Tokens -> Auths \cup {NoAuth}]
    /\ consults \in [Tokens -> BOOLEAN]
    /\ result \in {"none", "response", "error"}
    /\ outcome \in [Tokens -> {"none", "unregistered", "callError",
                               "notSelected", "response"}]
    /\ picks \in [Pickers -> PickStates]
    /\ sent \subseteq (0..MaxExecutions) \X Auths

(* A host that asks scheduler.pick never sends a request of a pinned call  *)
(* on another credential: not when the pinned one is missing from the      *)
(* candidates of a retry, not with a spoiled header, and not for an        *)
(* attempt that comes after ExecutePinned has finished the token.          *)
PinnedOnly ==
    \A t \in Tokens, a \in Auths :
        <<t, a>> \in sent /\ consults[t] => a = target[t]

(* A response from ExecutePinned is one the pinned credential gave, and no *)
(* other was used on the way: a host that routed by itself is found out.   *)
SuccessMeansPinned ==
    \A t \in Tokens : outcome[t] = "response" =>
        /\ <<t, target[t]>> \in sent
        /\ \A a \in Auths : <<t, a>> \in sent => a = target[t]

(* No pin outlives its call, although a callback that matched it may mark  *)
(* it selected after it was deleted: the registry cannot grow.             *)
PinsBounded ==
    \A t \in Tokens : Exists(t) => t = n /\ pc # "idle"

(* The mark that the pinned credential was handed out is never lost to     *)
(* another callback for the same token: it lasts until ExecutePinned has   *)
(* read it, and then the call is not reported as not selected.             *)
LosesSelection(t) ==
    /\ pins[t].selected /\ ~pins'[t].selected
    /\ outcome'[t] \notin {"response", "callError"}

NoLostSelection == [][\A t \in Tokens : ~LosesSelection(t)]_vars
=============================================================================
