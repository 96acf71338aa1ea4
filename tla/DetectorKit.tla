----------------------------- MODULE DetectorKit -----------------------------
(***************************************************************************)
(* What every detector is built from: the page it looks at, the result it  *)
(* returns, and the reading of data whose type the program does not know   *)
(* (data: unknown in the shared schema).                                    *)
(*                                                                         *)
(* A page is the set of marks a crawl left: <<place, dimension, what>> says *)
(* that a pattern of that detector matches at that place. Texts, regular   *)
(* expressions and counts above one are abstracted to these marks.         *)
(***************************************************************************)
EXTENDS Naturals, Sequences, TLC, SequencesExt

Hit(page, place, dim, what) == <<place, dim, what>> \in page.marks

Count(page, place, dim, what) == IF Hit(page, place, dim, what) THEN 1 ELSE 0

(* An optional text is a set with at most one element. *)
Text(present, t) == IF present THEN {t} ELSE {}

(* An object by the types of its fields: a reader that expects a list under *)
(* a name finds it only if it is among the lists. "parts" are the objects   *)
(* inside an object.                                                        *)
Data(lists, counts, texts, flags) ==
    [lists |-> lists, counts |-> counts, texts |-> texts, flags |-> flags, parts |-> <<>>]

NoFields == <<>>

ListField(data, f) == IF f \in DOMAIN data.lists THEN data.lists[f] ELSE <<>>
CountField(data, f) == IF f \in DOMAIN data.counts THEN data.counts[f] ELSE 0
TextField(data, f) == IF f \in DOMAIN data.texts THEN data.texts[f] ELSE {}
FlagField(data, f) == f \in DOMAIN data.flags /\ data.flags[f]

(* A piece of evidence: how sure it is, and which technologies its text names. *)
Ev(confidence, names) == [confidence |-> confidence, names |-> names]

(* BaseDetector.ok; a detector that throws is reported as an error. *)
Ok(data, evidence) == [status |-> "ok", data |-> data, evidence |-> evidence]
Failed == [status |-> "error", data |-> Data(<<>>, <<>>, <<>>, <<>>), evidence |-> <<>>]

When(cond, item) == IF cond THEN <<item>> ELSE <<>>

Map(seq, Op(_)) == [i \in DOMAIN seq |-> Op(seq[i])]

(* The elements of a sequence that are in S, in their order. *)
Only(seq, S) == FlattenSeq([i \in DOMAIN seq |-> When(seq[i] \in S, seq[i])])

(* hasSignal: a value other than null, "", "unknown", "none", 0, false, []. *)
OwnSignal(data) ==
    \/ \E f \in DOMAIN data.lists  : data.lists[f] # <<>>
    \/ \E f \in DOMAIN data.counts : data.counts[f] > 0
    \/ \E f \in DOMAIN data.texts  : data.texts[f] \ {"", "unknown", "none"} # {}
    \/ \E f \in DOMAIN data.flags  : data.flags[f]

HasSignal(data) ==
    OwnSignal(data) \/ \E p \in DOMAIN data.parts : OwnSignal(data.parts[p])

(* Where a signature is found first, of the places a detector tries in turn. *)
FoundAt(page, dim, name, places) ==
    LET at == Only(places, {p \in ToSet(places) : Hit(page, p, dim, name)})
    IN  IF at = <<>> THEN "nowhere" ELSE Head(at)

Found(page, dim, table, places) ==
    Only(table, {n \in ToSet(table) : FoundAt(page, dim, n, places) # "nowhere"})
=============================================================================
