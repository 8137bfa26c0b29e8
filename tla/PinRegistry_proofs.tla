-------------------------- MODULE PinRegistry_proofs --------------------------
(***************************************************************************)
(* Proofs about PinRegistry, for any number of credentials, callbacks and  *)
(* calls.                                                                  *)
(***************************************************************************)
EXTENDS PinRegistry, TLAPS

(* A pin belongs to the call going on and names its credential.            *)
PinShape ==
    \A t \in Tokens : Exists(t) =>
        t = n /\ pc # "idle" /\ pins[t].auth = target[t]

(* A pin that is marked selected: a request went out on its credential,    *)
(* by way of scheduler.pick.                                               *)
SelectedSent ==
    \A t \in Tokens : pins[t].selected =>
        Exists(t) /\ consults[t] /\ <<t, target[t]>> \in sent

(* A callback that serves a call carries that call's token or none.        *)
AskShape ==
    \A p \in Pickers : picks[p].pc = "ask" =>
        IF picks[p].for = Foreign
        THEN picks[p].values \in {<<>>, <<Foreign>>}
        ELSE picks[p].present /\ picks[p].values \in Headers(picks[p].for)

MatchedShape ==
    \A p \in Pickers : picks[p].pc = "matched" =>
        /\ picks[p].token \in Tokens
        /\ picks[p].for = picks[p].token
        /\ picks[p].auth = target[picks[p].token]
        /\ picks[p].auth # NoAuth

(* Callbacks and requests belong to calls that have reached the host.      *)
PicksBegun ==
    \A p \in Pickers : picks[p].for # Foreign =>
        /\ picks[p].for <= n /\ consults[picks[p].for]
        /\ pc = "call" => picks[p].for # n

SentBegun ==
    \A t \in Tokens, a \in Auths : <<t, a>> \in sent =>
        t <= n /\ (pc = "call" => t # n)

(* Only finished calls have an outcome; a response was given by a host     *)
(* that asked.                                                             *)
OutcomeShape ==
    \A t \in Tokens :
        /\ t > n \/ (t = n /\ pc # "idle") => outcome[t] = "none"
        /\ outcome[t] = "response" => consults[t] /\ <<t, target[t]>> \in sent

(* A call beyond the setup has registered a token.                         *)
Counted == pc # "idle" => n \in Tokens

IInv ==
    /\ TypeOK /\ PinShape /\ SelectedSent /\ AskShape /\ MatchedShape
    /\ PicksBegun /\ SentBegun /\ OutcomeShape /\ Counted /\ PinnedOnly

-------------------------------------------------------------------------------
(* The zero authPinState.                                                  *)
LEMMA NoPinType ==
    /\ NoPin \in PinStates
    /\ NoPin.auth = NoAuth /\ NoPin.selected = FALSE
    /\ \A a \in Auths : [NoPin EXCEPT !.auth = a] \in PinStates
BY DEF NoPin, PinStates

(* Marking a pin keeps its type and its credential.                        *)
LEMMA MarkedType ==
    ASSUME NEW s \in PinStates
    PROVE  /\ [s EXCEPT !.seen = TRUE] \in PinStates
           /\ [s EXCEPT !.seen = TRUE].auth = s.auth
           /\ [s EXCEPT !.seen = TRUE].selected = s.selected
           /\ [s EXCEPT !.seen = TRUE, !.selected = TRUE] \in PinStates
           /\ [s EXCEPT !.seen = TRUE, !.selected = TRUE].auth = s.auth
           /\ [s EXCEPT !.seen = TRUE, !.selected = TRUE].selected
BY DEF PinStates

(* An idle callback.                                                       *)
LEMMA NoPickType ==
    /\ NoPick \in PickStates
    /\ NoPick.pc = "idle" /\ NoPick.for = Foreign
BY PinAssumption DEF NoPick, Foreign, PickStates

(* A callback that begins.                                                 *)
LEMMA AskType ==
    ASSUME NEW t \in 0..MaxExecutions, NEW present \in BOOLEAN,
           NEW values \in Headers(t) \cup {<<Foreign>>}, NEW c \in SUBSET Auths
    PROVE  /\ Asking(t, present, values, c) \in PickStates
           /\ Asking(t, present, values, c).pc = "ask"
           /\ Asking(t, present, values, c).for = t
           /\ Asking(t, present, values, c).present = present
           /\ Asking(t, present, values, c).values = values
<1>1. values \in Seq(0..MaxExecutions)
  <2>1. 0 \in 0..MaxExecutions
    BY PinAssumption
  <2>2. CASE values = <<t>>
    BY <2>2
  <2>3. CASE values = <<>>
    BY <2>3
  <2>4. CASE values = <<t, t>>
    BY <2>4
  <2>5. CASE values = <<Foreign, t>>
    BY <2>1, <2>5 DEF Foreign
  <2>6. CASE values = <<Foreign>>
    BY <2>1, <2>6 DEF Foreign
  <2> QED
    BY <2>2, <2>3, <2>4, <2>5, <2>6 DEF Headers
<1> QED
  BY <1>1, PinAssumption DEF Asking, PickStates, Foreign

(* A callback that has found its pin.                                      *)
LEMMA MatchedType ==
    ASSUME NEW s \in PickStates, NEW t \in 0..MaxExecutions,
           NEW a \in Auths \cup {NoAuth}
    PROVE  [s EXCEPT !.pc = "matched", !.token = t, !.auth = a] \in PickStates
BY DEF PickStates

(* What the type of a callback says of its parts.                          *)
LEMMA PickFields ==
    ASSUME TypeOK, NEW p \in Pickers
    PROVE  /\ picks[p] \in PickStates
           /\ picks[p].for \in 0..MaxExecutions
           /\ picks[p].token \in 0..MaxExecutions
           /\ picks[p].candidates \subseteq Auths
           /\ picks[p].present \in BOOLEAN
           /\ picks[p].auth \in Auths \cup {NoAuth}
<1>1. picks[p] \in PickStates
  BY DEF TypeOK
<1> QED
  BY <1>1 DEF PickStates

(* The invariant holds initially.                                         *)
LEMMA InitInv == Init => IInv
<1> SUFFICES ASSUME Init PROVE IInv
  OBVIOUS
<1>1. TypeOK
  BY NoPinType, NoPickType, PinAssumption DEF Init, TypeOK
<1>2. PinShape /\ SelectedSent
  BY NoPinType DEF Init, PinShape, SelectedSent, Exists
<1>3. AskShape /\ MatchedShape /\ PicksBegun
  BY NoPickType DEF Init, AskShape, MatchedShape, PicksBegun
<1>4. SentBegun /\ OutcomeShape /\ Counted /\ PinnedOnly
  BY DEF Init, SentBegun, OutcomeShape, Counted, PinnedOnly
<1> QED
  BY <1>1, <1>2, <1>3, <1>4 DEF IInv

(* ExecutePinned registers the next token.                                 *)
LEMMA RegisterInv ==
    ASSUME IInv, NEW a \in Auths, NEW asks \in BOOLEAN, Register(a, asks)
    PROVE  IInv'
<1> USE PinAssumption DEF Register, Tokens, IInv
<1>0. /\ n' \in Tokens /\ n' = n + 1 /\ n \in Nat
      /\ a # NoAuth
  BY DEF TypeOK
<1>a. \A t \in Tokens : t # n' => pins'[t] = pins[t] /\ target'[t] = target[t]
                                    /\ consults'[t] = consults[t]
  BY <1>0 DEF TypeOK
<1>b. /\ pins'[n'].auth = a /\ pins'[n'].selected = FALSE
      /\ target'[n'] = a /\ consults'[n'] = asks
  BY <1>0 DEF TypeOK, NoPin
<1>c. \A t \in Tokens : ~Exists(t)
  BY DEF PinShape
<1>1. TypeOK'
  BY <1>0, NoPinType DEF TypeOK
<1>2. PinShape'
  BY <1>a, <1>b, <1>c DEF PinShape, Exists
<1>3. SelectedSent'
  BY <1>a, <1>b, <1>c DEF SelectedSent, Exists
<1>4. AskShape'
  BY DEF AskShape, Headers
<1>5. MatchedShape'
  <2>1. ASSUME NEW p \in Pickers, picks[p].pc = "matched"
        PROVE  picks[p].token # n'
    <3>1. picks[p].for \in Tokens /\ picks[p].for = picks[p].token
      BY <2>1 DEF MatchedShape
    <3>2. picks[p].for <= n
      BY <3>1 DEF PicksBegun, Foreign
    <3> QED
      BY <1>0, <3>1, <3>2
  <2> QED
    BY <2>1, <1>a DEF MatchedShape
<1>6. PicksBegun'
  <2>1. ASSUME NEW p \in Pickers, picks[p].for # Foreign
        PROVE  /\ picks[p].for <= n' /\ picks[p].for # n'
               /\ consults'[picks[p].for]
    <3>1. /\ picks[p].for <= n /\ consults[picks[p].for]
          /\ picks[p].for \in Tokens
      BY <2>1, PickFields DEF PicksBegun, Foreign
    <3> QED
      BY <1>0, <1>a, <3>1
  <2> QED
    BY <2>1 DEF PicksBegun
<1>7. SentBegun'
  BY <1>0 DEF SentBegun
<1>8. OutcomeShape'
  <2>1. ASSUME NEW t \in Tokens, t > n' \/ t = n' PROVE outcome[t] = "none"
    <3>1. t > n
      BY <1>0, <2>1
    <3> QED
      BY <3>1 DEF OutcomeShape
  <2> QED
    BY <2>1, <1>0, <1>a DEF OutcomeShape
<1>9. Counted' /\ PinnedOnly'
  BY <1>0, <1>a DEF Counted, PinnedOnly, SentBegun
<1> QED
  BY <1>1, <1>2, <1>3, <1>4, <1>5, <1>6, <1>7, <1>8, <1>9

(* The other steps of ExecutePinned before the token is finished.          *)
LEMMA CallInv ==
    ASSUME IInv,
           \/ RegisterFails \/ CallRefused \/ CallHost
           \/ \E answer \in {"response", "error"} : HostReturns(answer)
    PROVE  IInv'
<1> USE PinAssumption DEF Tokens, IInv
<1>1. CASE RegisterFails
  <2>0. n' \in Tokens /\ n' = n + 1 /\ n \in Nat
    BY <1>1 DEF RegisterFails, TypeOK
  <2>1. TypeOK'
    BY <1>1, <2>0 DEF RegisterFails, TypeOK
  <2>2. PinShape' /\ SelectedSent' /\ AskShape' /\ MatchedShape'
    BY <1>1 DEF RegisterFails, PinShape, SelectedSent, AskShape, MatchedShape,
                Exists, Headers
  <2>3. PicksBegun'
    <3>1. \A p \in Pickers : picks[p].for \in 0..MaxExecutions
      BY PickFields
    <3> QED
      BY <1>1, <2>0, <3>1 DEF RegisterFails, PicksBegun
  <2>5. SentBegun' /\ Counted' /\ PinnedOnly'
    BY <1>1, <2>0 DEF RegisterFails, SentBegun, Counted, PinnedOnly
  <2>4. OutcomeShape'
    BY <1>1, <2>0 DEF RegisterFails, OutcomeShape, TypeOK
  <2> QED
    BY <2>1, <2>2, <2>3, <2>4, <2>5
<1>2. CASE CallRefused
  <2>0. n \in Tokens
    BY <1>2 DEF CallRefused, Counted
  <2>1. TypeOK'
    BY <1>2, <2>0 DEF CallRefused, TypeOK
  <2>2. ~pins[n].selected
    BY <1>2, <2>0 DEF CallRefused, SelectedSent, SentBegun, TypeOK, PinShape,
                      Exists
  <2>3. SelectedSent'
    BY <1>2, <2>0, <2>2 DEF CallRefused, SelectedSent, TypeOK, Exists
  <2>4. PinShape' /\ AskShape' /\ MatchedShape' /\ Counted'
    BY <1>2 DEF CallRefused, PinShape, AskShape, MatchedShape, Exists, Headers,
                Counted
  <2>5. PicksBegun' /\ SentBegun'
    BY <1>2, <2>0 DEF CallRefused, PicksBegun, SentBegun, TypeOK, Foreign
  <2>6. OutcomeShape' /\ PinnedOnly'
    BY <1>2, <2>0 DEF CallRefused, OutcomeShape, PinnedOnly, TypeOK
  <2> QED
    BY <2>1, <2>3, <2>4, <2>5, <2>6
<1>3. CASE CallHost \/ \E answer \in {"response", "error"} : HostReturns(answer)
  <2> USE <1>3 DEF CallHost, HostReturns
  <2>1. TypeOK'
    BY DEF TypeOK
  <2>2. PinShape' /\ SelectedSent' /\ AskShape' /\ MatchedShape'
    BY DEF PinShape, SelectedSent, AskShape, MatchedShape, Exists, Headers
  <2>3. PicksBegun' /\ SentBegun' /\ Counted' /\ PinnedOnly'
    BY DEF PicksBegun, SentBegun, Counted, PinnedOnly
  <2>4. OutcomeShape'
    BY DEF OutcomeShape
  <2> QED
    BY <2>1, <2>2, <2>3, <2>4
<1> QED
  BY <1>1, <1>2, <1>3

(* ExecutePinned finishes its token.                                       *)
LEMMA FinishInv ==
    ASSUME IInv, Finish
    PROVE  IInv'
<1> USE PinAssumption DEF Finish, Tokens, IInv
<1>0. n \in Tokens
  BY DEF Counted
<1>1. TypeOK'
  BY <1>0, NoPinType DEF TypeOK, Outcome
<1>2. \A t \in Tokens : ~Exists(t)' /\ ~pins'[t].selected
  <2>1. \A t \in Tokens : t # n => ~Exists(t) /\ pins'[t] = pins[t]
    BY <1>0 DEF PinShape, TypeOK
  <2>2. pins'[n] = NoPin
    BY <1>0 DEF TypeOK
  <2> QED
    BY <2>1, <2>2, NoPinType DEF Exists, SelectedSent, TypeOK
<1>3. PinShape' /\ SelectedSent'
  BY <1>2 DEF PinShape, SelectedSent
<1>4. AskShape' /\ MatchedShape' /\ PicksBegun' /\ SentBegun' /\ Counted' /\ PinnedOnly'
  BY DEF AskShape, MatchedShape, PicksBegun, SentBegun, Counted, PinnedOnly,
         Headers
<1>5. OutcomeShape'
  <2>1. \A t \in Tokens : t # n => outcome'[t] = outcome[t]
    BY <1>0 DEF TypeOK
  <2>2. outcome'[n] = "response" => pins[n].selected
    BY <1>0 DEF Outcome, TypeOK
  <2>3. n \in Nat
    BY DEF TypeOK
  <2> QED
    BY <1>0, <2>1, <2>2, <2>3 DEF OutcomeShape, SelectedSent
<1> QED
  BY <1>1, <1>3, <1>4, <1>5

(* The host begins an attempt, or routes by itself.                        *)
LEMMA HostInv ==
    ASSUME IInv,
           \/ \E a \in Auths : Bypass(a)
           \/ \E p \in Pickers : HostStep(p)
    PROVE  IInv'
<1> USE PinAssumption DEF Tokens, IInv
<1>1. ASSUME NEW a \in Auths, Bypass(a) PROVE IInv'
  <2> USE <1>1 DEF Bypass
  <2>0. n \in Tokens
    BY DEF Counted
  <2>1. TypeOK'
    BY <2>0 DEF TypeOK
  <2>2. PinShape' /\ SelectedSent' /\ AskShape' /\ MatchedShape'
    BY DEF PinShape, SelectedSent, AskShape, MatchedShape, Exists, Headers
  <2>3. PicksBegun' /\ SentBegun' /\ Counted' /\ PinnedOnly'
    BY <2>0 DEF PicksBegun, SentBegun, Counted, PinnedOnly
  <2>4. OutcomeShape'
    BY DEF OutcomeShape
  <2> QED
    BY <2>1, <2>2, <2>3, <2>4
<1>2. ASSUME NEW p \in Pickers, NEW t \in Tokens, NEW values \in Headers(t),
             NEW c \in SUBSET Auths, Attempt(p, t, values, c)
      PROVE  IInv'
  <2> USE <1>2 DEF Attempt
  <2>a. t \in 0..MaxExecutions /\ TRUE \in BOOLEAN /\ t # Foreign
        /\ values \in Headers(t) \cup {<<Foreign>>}
    BY DEF Foreign
  <2>b. Asking(t, TRUE, values, c) \in PickStates
    BY <2>a, AskType
  <2>0. /\ \A q \in Pickers : q # p => picks'[q] = picks[q]
        /\ picks'[p].pc = "ask" /\ picks'[p].for = t
        /\ picks'[p].present /\ picks'[p].values = values
    BY DEF TypeOK, Asking
  <2>1. TypeOK'
    BY <2>b DEF TypeOK
  <2>2. PinShape' /\ SelectedSent' /\ SentBegun' /\ Counted' /\ PinnedOnly'
    BY DEF PinShape, SelectedSent, SentBegun, Counted, PinnedOnly, Exists
  <2>3. AskShape'
    <3>1. values \in Headers(t) /\ t # Foreign
      BY <2>a
    <3>2. \A q \in Pickers : picks[q].pc = "ask" =>
             IF picks[q].for = Foreign
             THEN picks[q].values \in {<<>>, <<Foreign>>}
             ELSE picks[q].present /\ picks[q].values \in Headers(picks[q].for)
      BY Zenon DEF AskShape
    <3> HIDE <1>2, PinAssumption DEF IInv, Attempt, Tokens
    <3> QED
      BY <2>0, <3>1, <3>2 DEF AskShape
  <2>4. MatchedShape'
    <3>1. MatchedShape /\ target' = target
      OBVIOUS
    <3> HIDE <1>2, PinAssumption DEF IInv, Attempt, Tokens
    <3> QED
      BY <2>0, <3>1 DEF MatchedShape
  <2>5. PicksBegun'
    <3>1. /\ t <= n /\ consults[t] /\ (pc = "call" => t # n)
          /\ UNCHANGED <<pc, n, consults>> /\ PicksBegun
      BY DEF TypeOK
    <3> HIDE <1>2, PinAssumption DEF IInv, Attempt, Tokens
    <3> QED
      BY <2>0, <3>1 DEF PicksBegun
  <2>6. OutcomeShape'
    BY DEF OutcomeShape
  <2> QED
    BY <2>1, <2>2, <2>3, <2>4, <2>5, <2>6
<1>3. ASSUME NEW p \in Pickers, NEW present \in BOOLEAN, OtherTraffic(p, present)
      PROVE  IInv'
  <2> USE <1>3 DEF OtherTraffic
  <2>0. /\ \A q \in Pickers : q # p => picks'[q] = picks[q]
        /\ picks'[p].pc = "ask" /\ picks'[p].for = Foreign
        /\ picks'[p].values \in {<<>>, <<Foreign>>}
    BY DEF TypeOK, Asking
  <2>1. TypeOK'
    <3> DEFINE v == IF present THEN <<Foreign>> ELSE <<>>
    <3>1. Foreign \in 0..MaxExecutions /\ v \in Headers(Foreign) \cup {<<Foreign>>}
      BY DEF Headers, Foreign
    <3>2. Asking(Foreign, present, v, Auths) \in PickStates
      BY <3>1, AskType
    <3> QED
      BY <3>2 DEF TypeOK
  <2>2. PinShape' /\ SelectedSent' /\ SentBegun' /\ Counted' /\ PinnedOnly'
    BY DEF PinShape, SelectedSent, SentBegun, Counted, PinnedOnly, Exists
  <2>3. AskShape'
    BY <2>0 DEF AskShape, Headers
  <2>4. MatchedShape' /\ PicksBegun'
    BY <2>0 DEF MatchedShape, PicksBegun
  <2>5. OutcomeShape'
    BY DEF OutcomeShape
  <2> QED
    BY <2>1, <2>2, <2>3, <2>4, <2>5
<1> QED
  BY <1>1, <1>2, <1>3 DEF HostStep

(* A callback ends: the host has its answer, a credential that is the      *)
(* pinned one if the callback serves a call, or an error.                  *)
LEMMA AnswerInv ==
    ASSUME IInv, NEW p \in Pickers,
           UNCHANGED <<pc, n, target, consults, result, outcome>>,
           picks' = [picks EXCEPT ![p] = NoPick],
           NEW S \in SUBSET Auths,
           sent' = sent \cup {<<picks[p].for, a>> : a \in S},
           picks[p].for # Foreign => S \subseteq {target[picks[p].for]},
           picks[p].for \in 0..MaxExecutions
    PROVE  /\ sent' \subseteq (0..MaxExecutions) \X Auths
           /\ AskShape' /\ MatchedShape' /\ PicksBegun' /\ SentBegun'
           /\ OutcomeShape' /\ Counted' /\ PinnedOnly'
<1> USE PinAssumption DEF Tokens, IInv
<1>0. /\ \A q \in Pickers : q # p => picks'[q] = picks[q]
      /\ picks'[p].pc = "idle" /\ picks'[p].for = Foreign
  BY NoPickType DEF TypeOK
<1>1. AskShape' /\ MatchedShape'
  BY <1>0 DEF AskShape, MatchedShape, Headers
<1>2. PicksBegun'
  BY <1>0 DEF PicksBegun
<1>3. sent' \subseteq (0..MaxExecutions) \X Auths
  BY DEF TypeOK
<1>4. SentBegun'
  BY DEF SentBegun, PicksBegun, Foreign
<1>5. OutcomeShape' /\ Counted'
  BY DEF OutcomeShape, Counted
<1>6. PinnedOnly'
  BY DEF PinnedOnly, Foreign
<1> QED
  BY <1>1, <1>2, <1>3, <1>4, <1>5, <1>6

(* A callback that ends with an error.                                     *)
LEMMA ErrorInv ==
    ASSUME IInv, NEW p \in Pickers, AnswerError(p),
           UNCHANGED <<pc, n, target, consults, result, outcome>>,
           picks[p].for \in 0..MaxExecutions
    PROVE  /\ sent' \subseteq (0..MaxExecutions) \X Auths
           /\ AskShape' /\ MatchedShape' /\ PicksBegun' /\ SentBegun'
           /\ OutcomeShape' /\ Counted' /\ PinnedOnly'
<1>1. {} \in SUBSET Auths /\ {} \subseteq {target[picks[p].for]}
  OBVIOUS
<1>2. sent' = sent \cup {<<picks[p].for, a>> : a \in {}}
  BY DEF AnswerError
<1>3. picks' = [picks EXCEPT ![p] = NoPick]
  BY DEF AnswerError
<1> QED
  BY Zenon, <1>1, <1>2, <1>3, AnswerInv

(* The steps of scheduler.pick.                                            *)
LEMMA PickInv ==
    ASSUME IInv, NEW p \in Pickers, PickStep(p)
    PROVE  IInv'
<1> USE PinAssumption DEF Tokens, IInv
<1>0. picks[p].for \in 0..MaxExecutions
  BY PickFields
<1>t. picks' = [picks EXCEPT ![p] = NoPick]
         => picks' \in [Pickers -> PickStates]
  BY NoPickType DEF TypeOK
<1>1. CASE PickUnhandled(p)
  <2>1. PICK a \in picks[p].candidates : Answer(p, a)
    BY <1>1 DEF PickUnhandled
  <2>2. a \in Auths /\ {a} \in SUBSET Auths
    BY <2>1, PickFields
  <2>3. picks[p].for = Foreign
    BY <1>1 DEF PickUnhandled, AskShape
  <2>4. sent' = sent \cup {<<picks[p].for, b>> : b \in {a}}
    BY <2>1 DEF Answer
  <2>5. /\ sent' \subseteq (0..MaxExecutions) \X Auths
        /\ AskShape' /\ MatchedShape' /\ PicksBegun' /\ SentBegun'
        /\ OutcomeShape' /\ Counted' /\ PinnedOnly'
    BY <1>0, <1>1, <2>1, <2>2, <2>3, <2>4, AnswerInv DEF PickUnhandled, Answer
  <2>6. TypeOK'
    BY <1>1, <1>t, <2>1, <2>5 DEF PickUnhandled, Answer, TypeOK
  <2>7. PinShape' /\ SelectedSent'
    BY <1>1, <2>1 DEF PickUnhandled, Answer, PinShape, SelectedSent, Exists
  <2> QED
    BY <2>5, <2>6, <2>7
<1>2. CASE Match(p)
  <2> DEFINE values == picks[p].values
  <2>1. \A t \in Tokens : /\ pins'[t].auth = pins[t].auth
                           /\ pins'[t].selected = pins[t].selected
    BY <1>2, MarkedType DEF Match, MarkSeen, TypeOK
  <2>2. pins' \in [Tokens -> PinStates]
    BY <1>2, MarkedType DEF Match, MarkSeen, TypeOK
  <2>3. UNCHANGED <<pc, n, target, consults, result, outcome>>
    BY <1>2 DEF Match
  <2>4. PinShape'
    BY <2>1, <2>3 DEF PinShape, Exists
  <2>5. sent \subseteq sent' => SelectedSent'
    BY <2>1, <2>3 DEF SelectedSent, Exists
  <2>6. CASE AnswerError(p)
    <3>2. /\ sent' \subseteq (0..MaxExecutions) \X Auths
          /\ AskShape' /\ MatchedShape' /\ PicksBegun' /\ SentBegun'
          /\ OutcomeShape' /\ Counted' /\ PinnedOnly'
      BY Zenon, <1>0, <2>3, <2>6, ErrorInv
    <3>3. TypeOK'
      BY <1>t, <2>2, <2>3, <2>6, <3>2 DEF AnswerError, TypeOK
    <3> QED
      BY <2>4, <2>5, <2>6, <3>2, <3>3 DEF AnswerError
  <2>7. CASE /\ Routes(values) /\ UNCHANGED sent
             /\ picks' = [picks EXCEPT ![p].pc = "matched",
                                       ![p].token = values[1],
                                       ![p].auth = pins[values[1]].auth]
    <3>1. /\ Len(values) = 1 /\ values[1] \in Tokens
          /\ pins[values[1]].auth # NoAuth
      BY <2>7 DEF Routes, Exists
    <3>2. picks[p].for = values[1]
      <4>1. picks[p].pc = "ask"
        BY <1>2 DEF Match
      <4>2. picks[p].for # Foreign
        BY <3>1, <4>1 DEF AskShape, Foreign
      <4>3. values \in Headers(picks[p].for)
        BY <4>1, <4>2 DEF AskShape
      <4>4. \/ values = <<picks[p].for>> \/ values = <<>>
            \/ values = <<picks[p].for, picks[p].for>>
            \/ values = <<Foreign, picks[p].for>>
        BY Zenon, <4>3 DEF Headers
      <4> HIDE DEF values, IInv, Tokens
      <4> QED
        BY <3>1, <4>4
    <3>3. /\ \A q \in Pickers : q # p => picks'[q] = picks[q]
          /\ picks'[p].pc = "matched" /\ picks'[p].for = picks[p].for
          /\ picks'[p].token = values[1]
          /\ picks'[p].auth = pins[values[1]].auth
      BY <2>7 DEF TypeOK
    <3>4. pins[values[1]].auth = target[values[1]]
      BY <3>1 DEF PinShape, Exists
    <3>5. TypeOK'
      <4>1. picks[p] \in PickStates /\ pins[values[1]].auth \in Auths \cup {NoAuth}
        BY <3>1 DEF TypeOK, PinStates
      <4>2. [picks[p] EXCEPT !.pc = "matched", !.token = values[1],
                             !.auth = pins[values[1]].auth] \in PickStates
        <5>1. values[1] \in 0..MaxExecutions
          BY <3>1
        <5> HIDE DEF values
        <5> QED
          BY <4>1, <5>1, MatchedType
      <4> QED
        BY <2>2, <2>3, <2>7, <4>2 DEF TypeOK
    <3>6. AskShape'
      BY <3>3 DEF AskShape, Headers
    <3>7. MatchedShape'
      BY <2>3, <3>1, <3>2, <3>3, <3>4 DEF MatchedShape
    <3>8. PicksBegun'
      BY <2>3, <3>3 DEF PicksBegun
    <3>9. SentBegun' /\ OutcomeShape' /\ Counted' /\ PinnedOnly'
      BY <2>3, <2>7 DEF SentBegun, OutcomeShape, Counted, PinnedOnly
    <3> QED
      BY <2>4, <2>5, <2>7, <3>5, <3>6, <3>7, <3>8, <3>9
  <2> QED
    BY <1>2, <2>6, <2>7 DEF Match
<1>3. CASE Select(p)
  <2>0. /\ picks[p].token \in Tokens /\ picks[p].for = picks[p].token
        /\ picks[p].auth = target[picks[p].token] /\ picks[p].auth # NoAuth
    BY <1>3 DEF Select, MatchedShape
  <2>1. UNCHANGED <<pc, n, target, consults, result, outcome>>
    BY <1>3 DEF Select
  <2>2. CASE /\ picks[p].auth \in picks[p].candidates
             /\ pins' = MarkSelected(p) /\ Answer(p, picks[p].auth)
    <3>1. {picks[p].auth} \in SUBSET Auths
      BY <2>0 DEF TypeOK
    <3>2. sent' = sent \cup {<<picks[p].for, b>> : b \in {picks[p].auth}}
      BY <2>2 DEF Answer
    <3>3. /\ sent' \subseteq (0..MaxExecutions) \X Auths
          /\ AskShape' /\ MatchedShape' /\ PicksBegun' /\ SentBegun'
          /\ OutcomeShape' /\ Counted' /\ PinnedOnly'
      BY <1>0, <2>0, <2>1, <2>2, <3>1, <3>2, AnswerInv DEF Answer
    <3>4. /\ pins' \in [Tokens -> PinStates]
          /\ \A t \in Tokens : pins'[t].auth = pins[t].auth
          /\ \A t \in Tokens : pins'[t].selected =>
                 pins[t].selected \/ (t = picks[p].token /\ Exists(t))
      BY <2>0, <2>2, MarkedType DEF MarkSelected, TypeOK, Exists
    <3>5. TypeOK'
      BY <1>t, <2>1, <2>2, <3>3, <3>4 DEF Answer, TypeOK
    <3>6. PinShape'
      BY <2>1, <3>4 DEF PinShape, Exists
    <3>7. consults[picks[p].token]
      BY <2>0 DEF PicksBegun, Foreign
    <3>8. SelectedSent'
      BY <2>0, <2>1, <3>2, <3>4, <3>7 DEF SelectedSent, Exists
    <3> QED
      BY <3>3, <3>5, <3>6, <3>8
  <2>3. CASE AnswerError(p) /\ UNCHANGED pins
    <3>2. /\ sent' \subseteq (0..MaxExecutions) \X Auths
          /\ AskShape' /\ MatchedShape' /\ PicksBegun' /\ SentBegun'
          /\ OutcomeShape' /\ Counted' /\ PinnedOnly'
      BY Zenon, <1>0, <2>1, <2>3, ErrorInv
    <3>3. TypeOK' /\ PinShape' /\ SelectedSent'
      BY <1>t, <2>1, <2>3, <3>2 DEF AnswerError, TypeOK, PinShape, SelectedSent,
                                    Exists
    <3> QED
      BY <3>2, <3>3
  <2> QED
    BY <1>3, <2>2, <2>3 DEF Select
<1> QED
  BY <1>1, <1>2, <1>3 DEF PickStep

(* The invariant is inductive.                                             *)
LEMMA NextInv == IInv /\ [Next]_vars => IInv'
<1> SUFFICES ASSUME IInv, [Next]_vars PROVE IInv'
  OBVIOUS
<1>1. CASE ExecuteStep
  BY <1>1, RegisterInv, CallInv, FinishInv DEF ExecuteStep
<1>2. CASE \E a \in Auths : Bypass(a)
  BY <1>2, HostInv
<1>3. CASE \E p \in Pickers : HostStep(p) \/ PickStep(p)
  BY <1>3, HostInv, PickInv
<1>4. CASE UNCHANGED vars
  BY <1>4 DEF vars, IInv, TypeOK, PinShape, SelectedSent, AskShape,
              MatchedShape, PicksBegun, SentBegun, OutcomeShape, Counted,
              PinnedOnly, Exists, Headers
<1> QED
  BY <1>1, <1>2, <1>3, <1>4 DEF Next

(* The inductive invariant holds throughout.                               *)
THEOREM Inductive == Spec => []IInv
BY InitInv, NextInv, PTL DEF Spec

(* Every variable keeps its type.                                          *)
THEOREM TypeCorrect == Spec => []TypeOK
<1>1. IInv => TypeOK
  BY DEF IInv
<1> QED
  BY <1>1, Inductive, PTL

(* Whatever the host's callbacks do, and however late they come, a host    *)
(* that asks scheduler.pick sends the requests of an ExecutePinned call on *)
(* the pinned credential only.                                             *)
THEOREM OnlyPinned == Spec => []PinnedOnly
<1>1. IInv => PinnedOnly
  BY DEF IInv
<1> QED
  BY <1>1, Inductive, PTL

(* A response from ExecutePinned was given by the pinned credential.       *)
THEOREM Pinned == Spec => []SuccessMeansPinned
<1>1. IInv => SuccessMeansPinned
  BY DEF IInv, OutcomeShape, PinnedOnly, SuccessMeansPinned
<1> QED
  BY <1>1, Inductive, PTL

(* The registry holds at most the pin of the call going on.                *)
THEOREM Bounded == Spec => []PinsBounded
<1>1. IInv => PinsBounded
  BY DEF IInv, PinShape, PinsBounded
<1> QED
  BY <1>1, Inductive, PTL

(* The mark of a handed out credential reaches ExecutePinned.              *)
THEOREM SelectionKept == Spec => NoLostSelection
<1>1. IInv /\ [Next]_vars => [\A t \in Tokens : ~LosesSelection(t)]_vars
  <2> SUFFICES ASSUME IInv, Next, NEW t \in Tokens, LosesSelection(t)
               PROVE  FALSE
    OBVIOUS
  <2> USE DEF LosesSelection, IInv
  <2>1. pins[t].selected /\ t = n /\ pc # "idle" /\ pins # pins'
    BY DEF SelectedSent, PinShape, Exists
  <2>2. CASE ExecuteStep
    <3>1. Finish
      BY <2>1, <2>2 DEF ExecuteStep, Register, RegisterFails, CallRefused,
                        CallHost, HostReturns
    <3> QED
      BY <2>1, <3>1 DEF Finish, Outcome, TypeOK
  <2>3. CASE \E p \in Pickers : PickStep(p)
    <3>1. PICK p \in Pickers : Match(p) \/ Select(p)
      BY <2>1, <2>3 DEF PickStep, PickUnhandled
    <3>2. CASE Match(p)
      BY <2>1, <3>2, MarkedType DEF Match, MarkSeen, TypeOK
    <3>3. CASE Select(p)
      <4>1. pins' = MarkSelected(p)
        BY <2>1, <3>3 DEF Select
      <4>2. pins'[t] = pins[t]
            \/ pins'[t] = [pins[t] EXCEPT !.seen = TRUE, !.selected = TRUE]
        BY <4>1 DEF MarkSelected, TypeOK
      <4>3. pins[t] \in PinStates
        BY DEF TypeOK
      <4>4. pins'[t].selected /\ pins'[t].auth = pins[t].auth
        BY <2>1, <4>2, <4>3, MarkedType
      <4> QED
        BY Zenon, <2>1, <4>4
    <3> QED
      BY <3>1, <3>2, <3>3
  <2>4. CASE \E a \in Auths : Bypass(a)
    BY <2>1, <2>4 DEF Bypass
  <2>5. CASE \E p \in Pickers : HostStep(p)
    BY <2>1, <2>5 DEF HostStep, Attempt, OtherTraffic
  <2> QED
    BY <2>2, <2>3, <2>4, <2>5 DEF Next
<1> QED
  BY <1>1, Inductive, PTL DEF Spec, NoLostSelection
===============================================================================
