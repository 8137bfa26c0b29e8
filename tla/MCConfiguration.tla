-------------------------- MODULE MCConfiguration --------------------------
(***************************************************************************)
(* Documents for Configuration: a schedule, a plugin without one, a        *)
(* disabled plugin, and every change of one setting of each to another     *)
(* value, at a bound, beyond it, or spelled differently.                   *)
(***************************************************************************)
EXTENDS Configuration

Node(kind, items) == [kind |-> kind, items |-> items]

Absent == Node("null", <<>>)

Padded(n) == [Word(n) EXCEPT !.padded = TRUE]

Upper(n) == [Word(n) EXCEPT !.upper = TRUE]

Scheduled ==
    [well |-> TRUE, enabled |-> <<>>, schedule |-> TRUE, timezone |-> Word(5),
     times |-> Node("seq", <<<<20, 30>>, <<8, 0>>>>), model |-> Word(1),
     message |-> Word(2), long |-> FALSE, entry |-> Empty, exit |-> Empty,
     maxTokens |-> <<>>, providers |-> Absent, include |-> Absent,
     exclude |-> Absent, physicalFilesOnly |-> <<>>, skipUnavailable |-> <<>>,
     temporaryPriority |-> <<>>, delay |-> <<>>, sync |-> <<>>,
     timeout |-> <<>>]

Manual == [Scheduled EXCEPT !.schedule = FALSE, !.times = Absent]

Disabled == [Scheduled EXCEPT !.enabled = <<FALSE>>, !.maxTokens = <<0>>]

Times == {Absent, Node("seq", <<>>), Node("seq", <<<<8, 0, 0>>, <<20, 30>>>>),
          Node("scalar", <<<<8, 0>>, <<20, 30>>, <<8, 0, 0>>>>),
          Node("seq", <<<<0, 0>>, <<23, 59, 59>>>>), Node("seq", <<<<24, 0>>>>),
          Node("scalar", <<<<>>>>), Node("seq", <<<<8, 60>>>>),
          Node("seq", <<<<1, 0>>, <<2, 0>>, <<3, 0>>, <<4, 0>>>>)}

Lists == {Node("seq", <<>>), Node("seq", <<Word(3), Padded(4)>>),
          Node("scalar", <<Upper(4), Empty, Word(4)>>),
          Node("scalar", <<Padded(0)>>), Node("seq", <<Empty, Empty>>)}

Texts == {Empty, Padded(0), Padded(1), Word(3)}

Variants(d) ==
    {d} \cup {[d EXCEPT !.well = FALSE], [d EXCEPT !.long = TRUE]}
    \cup {[d EXCEPT !.enabled = <<v>>] : v \in BOOLEAN}
    \cup {[d EXCEPT !.schedule = v] : v \in BOOLEAN}
    \cup {[d EXCEPT !.timezone = t] :
            t \in {Empty, Padded(5), Word(6), Word(7), Word(8), Upper(8)}}
    \cup {[d EXCEPT !.times = t] : t \in Times}
    \cup {[d EXCEPT !.model = t] : t \in Texts}
    \cup {[d EXCEPT !.message = t] : t \in Texts}
    \cup {[d EXCEPT !.entry = t] : t \in {Upper(9), Word(10)}}
    \cup {[d EXCEPT !.exit = t] : t \in {Upper(9), Padded(10), Word(11)}}
    \cup {[d EXCEPT !.maxTokens = <<v>>] : v \in {0, 1, 16, 4096, 4097}}
    \cup {[d EXCEPT !.providers = n] : n \in Lists}
    \cup {[d EXCEPT !.include = n] : n \in Lists}
    \cup {[d EXCEPT !.exclude = n] : n \in Lists}
    \cup {[d EXCEPT !.physicalFilesOnly = <<v>>] : v \in BOOLEAN}
    \cup {[d EXCEPT !.skipUnavailable = <<v>>] : v \in BOOLEAN}
    \cup {[d EXCEPT !.temporaryPriority = <<v>>] : v \in BOOLEAN}
    \cup {[d EXCEPT !.delay = <<v>>] : v \in {-1, 0, 3600000, 3600001}}
    \cup {[d EXCEPT !.sync = <<v>>] : v \in {99, 100, 60000, 60001}}
    \cup {[d EXCEPT !.timeout = <<v>>] : v \in {999, 1000, 1800000, 1800001}}

MCDocuments == Variants(Scheduled) \cup Variants(Manual) \cup {Disabled}
=============================================================================
