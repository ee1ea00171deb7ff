-------------------------------- MODULE ExcText -------------------------------
(***************************************************************************)
(* How Exc_Load cuts a text into records: exclist_parse and excblock_parse *)
(* (parser/exclist.c) into blocks, excblock_parse_appexc and str2phases    *)
(* (parser/exclist_appstr2rec.c) into exceptions and their sections,       *)
(* excblock_parse_otherexc for everything else.  The text is a sequence of *)
(* lines; of a line only the token the parsers search for is kept.  The    *)
(* parsers write '\0' into the text, so a string ends at the first line a  *)
(* '\0' was written before.  Allocations and files do not fail here        *)
(* (ExcList has them fail).                                                *)
(***************************************************************************)
EXTENDS Integers, Sequences, FiniteSets, FiniteSetsExt

CONSTANTS
    Texts,      (* the texts to analyse                                     *)
    MaxPhases   (* size of the array of sections (256 in the code)          *)

(* What a line contains: the line "---------...", one with "Exception       *)
(* Registers End" in it, "Track function call list...", the titles of the   *)
(* three kinds of exceptions, the end of an exception ("******** End   of   *)
(* Exception" and fifteen stars), the marks of a record, its times.  The    *)
(* mark of a beginning stands alone ("bare") or has more stars before it.   *)
Markers == {"deadloop", "deadlock", "exc"}
Dashes  == {"dash", "regend"}
Begins  == {"begin", "bare"}
Kind == Markers \cup Dashes \cup Begins \cup
        {"track", "end", "stars", "endrec", "time", "used", "plain", "blank"}

ASSUME TextAssumption ==
    /\ Texts \subseteq Seq(Kind)
    /\ MaxPhases \in Nat \ {0}

VARIABLES
    text,       (* the text, as Exc_Load got it                             *)
    pc,         (* "record", "exception", "section" or "other"              *)
    next,       (* first line exclist_parse has not reached                 *)
    block,      (* first and last line of the block excblock_parse got      *)
    cut,        (* lines of the block with a '\0' before them               *)
    str,        (* line where excblock_parse_appexc goes on                 *)
    pstr,       (* line where str2phases goes on, 0 for NULL                *)
    rest,       (* *rest, 0 for NULL                                        *)
    type,       (* *type                                                    *)
    phases,     (* the sections, as sets of lines                           *)
    records     (* what was pushed to the list: kind, sections, details     *)

cursor == <<str, pstr, rest, type, phases>>
vars   == <<text, pc, next, block, cut, cursor, records>>

-----------------------------------------------------------------------------
(* The lines of S that contain a token of T, and their first one. *)
Lines(S, T) == {q \in S : text[q] \in T}
First(S)    == Min(S)
FirstOf(S)  == IF S = {} THEN {} ELSE {First(S)}

(* The string that starts at line p of the block. *)
Str(p) == {q \in p..block.last : \A c \in cut : p < c => q < c}

(* get_exctype: the type of a section, "unknown" without a title. *)
TypeOf(S) ==
    IF Lines(S, {"deadloop"}) # {} THEN "deadloop"
    ELSE IF Lines(S, {"deadlock"}) # {} THEN "deadlock"
    ELSE IF Lines(S, {"exc"}) # {} THEN "exc"
    ELSE "unknown"

(* get_exctype's begin: what precedes the last end of an exception before   *)
(* the title belongs to the previous exception.                             *)
WholeSection(S) == S                                     \* mutant
get_exctype(S) ==
    LET ends == {e \in Lines(S, {"end"}) : e < First(Lines(S, {TypeOf(S)}))}
    IN  {q \in S : \A e \in ends : e < q}

(* The first section of an exception, none as long as it is no title's. *)
HeadPhase(S) == IF TypeOf(S) = "unknown" THEN <<>> ELSE <<get_exctype(S)>>

-----------------------------------------------------------------------------
Init ==
    /\ text \in Texts
    /\ pc = "record"
    /\ next = 1
    /\ block = [first |-> 1, last |-> 0]
    /\ cut = {}
    /\ str = 1 /\ pstr = 0 /\ rest = 0
    /\ type = "unknown" /\ phases = <<>>
    /\ records = <<>>

(* The lines of a block, up to the mark of the end of the record. *)
BeforeEnd(S) == {q \in S : \A e \in Lines(S, {"endrec"}) : q < e}

(* exclist_parse cuts the text at the next mark of a beginning, which it    *)
(* skips.  It writes a '\0' before the mark, over the mark itself when      *)
(* nothing is before it: it finds no end of that line then, and takes what  *)
(* follows for read.  excblock_parse drops what follows an end of the       *)
(* record and the blank lines around, ignores an empty block, and looks for *)
(* titles.                                                                  *)
Skip(mark)   == mark + 1                                 \* mutant
Behind(mark) == IF mark = next /\ text[mark] = "bare" THEN Len(text) + 1 ELSE mark + 1
exclist_parse ==
    /\ pc = "record"
    /\ next <= Len(text)
    /\ LET B     == Lines(next..Len(text), Begins)
           begin == IF B = {} THEN Len(text) + 1 ELSE First(B)
           S     == BeforeEnd(next..begin-1)
           kept  == S \ Lines(S, {"blank"})
       IN  /\ next' = Behind(begin)
           /\ \/ kept = {} /\ UNCHANGED <<pc, block, cut, str>>
              \/ /\ kept # {}
                 /\ block' = [first |-> First(kept), last |-> Max(kept)]
                 /\ cut' = {}
                 /\ str' = First(kept)
                 /\ pc' = IF Lines(kept, Markers) # {} THEN "exception" ELSE "other"
    /\ UNCHANGED <<text, pstr, rest, type, phases, records>>

(* excstr2apprec, str2phases up to its loop: the lines before the first     *)
(* line of dashes are the first section when a title is among them.         *)
str2phases ==
    /\ pc = "exception"
    /\ LET S    == Str(str)
           D    == Lines(S, Dashes)
           head == {q \in S : \A d \in D : q < d}
       IN  /\ type' = TypeOf(head)
           /\ phases' = HeadPhase(head)
           /\ \/ D = {} /\ pstr' = 0 /\ UNCHANGED cut
              \/ D # {} /\ pstr' = First(D) /\ cut' = cut \cup ({First(D)} \ {str})
    /\ rest' = 0
    /\ pc' = "section"
    /\ UNCHANGED <<text, next, block, str, records>>

(* The section at pstr: its line of dashes and the lines up to the next. *)
NextDash == Lines(Str(pstr), Dashes) \ {pstr}
Section  == {q \in Str(pstr) : \A d \in NextDash : q < d}
StayHere(D)  == UNCHANGED pstr                           \* mutant
Goto(D)      == pstr' = IF D = {} THEN 0 ELSE First(D)

(* str2phases has a section to look at. *)
InSection == pc = "section" /\ pstr # 0 /\ Len(phases) < MaxPhases

(* No title was found yet. *)
SeekTitle ==
    /\ InSection
    /\ phases = <<>>
    /\ type' = TypeOf(Section)
    /\ phases' = HeadPhase(Section)
    /\ cut' = cut \cup FirstOf(NextDash)
    /\ Goto(NextDash)
    /\ UNCHANGED <<text, pc, next, block, str, rest, records>>

(* The section has the title of the next exception: it is left for the      *)
(* next call.                                                               *)
RestHere    == pstr
NextTitle ==
    /\ InSection
    /\ phases # <<>>
    /\ TypeOf(Section) # "unknown"
    /\ rest' = RestHere
    /\ pstr' = 0
    /\ UNCHANGED <<text, pc, next, block, cut, str, type, phases, records>>

(* The callback list of a dead lock or a dead loop is a section of its own. *)
SharedTrack(S, t) == <<S, {q \in S : q >= t}>>           \* mutant
SplitTrack(S, t)  == <<{q \in S : q < t}, {q \in S : q >= t}>>
Split(S) ==
    LET R == Lines(S, {"regend"})
        T == {t \in Lines(S, {"track"}) : \E r \in R : r < t}
    IN  IF type \in {"deadlock", "deadloop"} /\ T # {} THEN SplitTrack(S, First(T)) ELSE <<S>>

(* Another section of the exception; stars in it end the exception.         *)
AddSection ==
    /\ InSection
    /\ phases # <<>>
    /\ TypeOf(Section) = "unknown"
    /\ LET E == Lines(Section, {"stars"})
       IN  /\ phases' = phases \o Split({q \in Section : \A e \in E : q < e})
           /\ \/ E = {} /\ Goto(NextDash) /\ UNCHANGED rest
              \/ E # {} /\ pstr' = 0 /\ rest' = First(E)
           /\ cut' = cut \cup FirstOf(E) \cup FirstOf(NextDash)
    /\ UNCHANGED <<text, pc, next, block, str, type, records>>

EndOfSections == pc = "section" /\ (pstr = 0 \/ Len(phases) >= MaxPhases)

(* excstr2apprec has the sections of an exception: the record is pushed;    *)
(* phases2val has written '\0' at every line of the first section.          *)
AppRecord ==
    /\ EndOfSections
    /\ phases # <<>>
    /\ records' = Append(records, [what |-> type, phases |-> phases, detail |-> TRUE])
    /\ cut' = cut \cup phases[1]
    /\ \/ rest = 0 /\ pc' = "record" /\ UNCHANGED str
       \/ rest # 0 /\ pc' = "exception" /\ str' = rest
    /\ UNCHANGED <<text, next, block, pstr, rest, type, phases>>

(* excstr2apprec returns E_EXC_NOTFOUND: excblock_parse leaves the block    *)
(* to excblock_parse_otherexc, whatever records it has given already.       *)
NotFound ==
    /\ EndOfSections
    /\ phases = <<>>
    /\ pc' = "other"
    /\ UNCHANGED <<text, next, block, cut, cursor, records>>

(* The lines of S after its first line in T, S itself without one. *)
After(S, T) ==
    IF Lines(S, T) = {} THEN S ELSE {q \in S : q > First(Lines(S, T))}

(* excblock_parse_otherexc: one record; it has details only when it has a   *)
(* time and more than a line after its times, and is not short.             *)
excblock_parse_otherexc ==
    /\ pc = "other"
    /\ LET S     == Str(block.first)
           body  == After(After(S, {"time"}), {"used"})
           kept  == {q \in body : \E p \in body \ Lines(body, {"blank"}) : p <= q}
       IN  \E long \in {FALSE} \cup (IF Lines(S, {"time"}) # {} /\ Cardinality(kept) > 1
                                     THEN {TRUE} ELSE {}) :
              records' = Append(records, [what |-> "other", phases |-> <<S>>, detail |-> long])
    /\ pc' = "record"
    /\ UNCHANGED <<text, next, block, cut, cursor>>

-----------------------------------------------------------------------------
Next ==
    \/ exclist_parse
    \/ str2phases \/ SeekTitle \/ NextTitle \/ AddSection
    \/ AppRecord \/ NotFound \/ excblock_parse_otherexc

Spec == Init /\ [][Next]_vars /\ WF_vars(Next)

Finished == pc = "record" /\ next > Len(text)
-----------------------------------------------------------------------------
(* Blocks as the lines between two marks of a beginning, without what       *)
(* follows a mark of an end and without blank lines around; their first     *)
(* and last lines.  M are the marks they begin at, 0 the start of the text. *)
Beginnings == {0} \cup Lines(DOMAIN text, Begins)
Blocks(M) ==
    LET kept(b) == {q \in DOMAIN text :
                      /\ b < q /\ text[q] # "blank"
                      /\ \A p \in b+1..q : text[p] \notin Begins \cup {"endrec"}}
    IN  {[first |-> Min(kept(b)), last |-> Max(kept(b))] :
            b \in {c \in M : kept(c) # {}}}

(* A bare mark at the start of the text, or behind another mark, loses what *)
(* follows; the marks that are read.                                        *)
Loses(q) == text[q] = "bare" /\ (q = 1 \/ text[q-1] \in Begins)
Read     == {b \in Beginnings : \A q \in 1..b : ~ Loses(q)}

(* In block b every line of dashes starts a section, and so does its first  *)
(* line; a section with a title starts an exception.                        *)
Starts(b) == {b.first} \cup Lines(b.first..b.last, Dashes)
SectionOf(b, s) == {q \in s..b.last : \A t \in Starts(b) : s < t => q < t}
Titles(b) == {s \in Starts(b) : Lines(SectionOf(b, s), Markers) # {}}

(* The record of the exception whose title is in section s: everything up   *)
(* to the next title, without what precedes the last end of an exception    *)
(* before its own title.                                                    *)
Exception(b, s) ==
    LET kind  == TypeOf(SectionOf(b, s))
        title == Min({q \in SectionOf(b, s) : text[q] = kind})
    IN  [what  |-> kind,
         lines |-> {q \in s..b.last :
                      /\ \A t \in Titles(b) : s < t => q < t
                      /\ \A e \in s..title : text[e] = "end" => e < q}]

(* The records the blocks behind the marks M ask for. *)
Wanted(M) ==
    UNION {IF Titles(b) = {} THEN {[what |-> "other", lines |-> b.first..b.last]}
                             ELSE {Exception(b, s) : s \in Titles(b)} : b \in Blocks(M)}

(* What a record says, and that no exception has filled the array of        *)
(* sections: one that does loses what follows in its block.                 *)
Given(r) == [what |-> r.what, lines |-> UNION {r.phases[j] : j \in DOMAIN r.phases}]
Room == \A i \in DOMAIN records : Len(records[i].phases) < MaxPhases

(* Up to a bare mark that nothing is before, every exception of the text    *)
(* gives one record, of its kind and with all its lines and nobody else's,  *)
(* every block without an exception one, pushed in the order of the text,   *)
(* and from that mark on nothing does: what exclist_parse, str2phases and   *)
(* get_exctype compute by writing into the text is the division above.  An  *)
(* exception that ends with stars is parsed otherwise:                      *)
(* OneRecordPerException says how.                                          *)
RecordsAsWritten ==
    Finished /\ Lines(DOMAIN text, {"stars"}) = {} /\ Room =>
        /\ {Given(records[i]) : i \in DOMAIN records} = Wanted(Read)
        /\ \A i, j \in DOMAIN records : i < j =>
              Min(Given(records[i]).lines) < Min(Given(records[j]).lines)

(* The sections of an exception are disjoint; each but the first starts     *)
(* with its line of dashes, the callback list of a dead lock or a dead loop *)
(* with its title: phases2val finds the keyword of every section.           *)
SectionsApart ==
    \A i \in DOMAIN records :
        LET p == records[i].phases
        IN  \A j \in 2..Len(p) :
              /\ p[j] # {}
              /\ \A q \in p[j-1] : q < Min(p[j])
              /\ text[Min(p[j])] \in Dashes \cup {"track"}
              /\ \A q \in p[j] \ {Min(p[j])} : text[q] \notin Dashes
              /\ records[i].what \in {"deadlock", "deadloop"} /\ text[Min(p[j])] = "regend" =>
                    "track" \notin {text[q] : q \in p[j]}

(* The parser comes to the end of every text. *)
ParseEnds == <>[]Finished

(* The documentation of Exc_Load (exclist.c:519): one record for each       *)
(* exception.                                                               *)
OneRecordPerException ==
    Finished => Len(records) = Cardinality(Wanted(Beginnings))
=============================================================================
