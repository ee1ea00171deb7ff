-------------------------------- MODULE ExcDump -------------------------------
(***************************************************************************)
(* How dumpwrap_load (binutils/dumpwrap.c) divides a file into functions:  *)
(* dump_bfd reads the tables of symbols, disassemble_data filters and      *)
(* sorts them, disassemble_section walks through each section of code and  *)
(* asks its caller (funcs_actcheck of parser/dasm.c) about each function.  *)
(* Files, their formats and tables are libbfd's (external); of the order   *)
(* of symbols at one address only its result is kept, a rank.  Addresses   *)
(* are not sign extended, a byte has one octet, and the disassembler wants *)
(* no relocations (else a section whose relocations cannot be read is left *)
(* out, with an error).                                                    *)
(***************************************************************************)
EXTENDS Integers, Sequences, SequencesExt, FiniteSets, FiniteSetsExt

CONSTANTS
    NULL,
    Loads       (* sequences of files to disassemble                        *)

(* A symbol has a value, the index of its section (0 for one that is not    *)
(* its object's), a rank; it may be useless, or not valid for the target.   *)
(* The name is the last thing symbols are ordered by: those that compare    *)
(* equal are the same.                                                      *)
IsSymbol(s)  == s.value \in Nat /\ s.section \in Nat /\ s.rank \in Nat
                /\ s.useless \in BOOLEAN /\ s.valid \in BOOLEAN
IsSection(c) == c.vma \in Nat /\ c.size \in Nat /\ c.code \in BOOLEAN
IsSeq(q)     == q \in Seq(Range(q))
IsObject(o)  ==
    /\ IsSeq(o.sections)
    /\ \A i \in DOMAIN o.sections : IsSection(o.sections[i])
    /\ IsFiniteSet(o.syms \cup o.dynsyms \cup o.synthsyms)
    /\ \A s, t \in o.syms \cup o.dynsyms \cup o.synthsyms :
          /\ IsSymbol(s)
          /\ s.value = t.value /\ s.section = t.section /\ s.rank = t.rank => s = t

(* A file is the sequence of its objects, several in an archive. *)
IsLoad(l) ==
    /\ IsSeq(l)
    /\ \A i \in DOMAIN l : IsSeq(l[i]) /\ \A j \in DOMAIN l[i] : IsObject(l[i][j])

ASSUME DumpAssumption == \A l \in Loads : IsLoad(l)

VARIABLES
    pc,         (* "load", "object", "tables", "sort", "section",          *)
                (* "function" or "free"                                        *)
    files,      (* the files to load                                        *)
    cur,        (* [file, obj]: the object dump_bfd works on                *)
    syms, dynsyms, synthsyms,   (* the tables, {} for none                  *)
    sorted_syms,                (* the sorted table                         *)
    sec,        (* index of the section                                     *)
    addr_offset, sym, place,    (* disassemble_section; sym 0 for NULL      *)
    ret,        (* what display_file is to return                           *)
    funcs,      (* the functions act was asked about, in their order        *)
    failed      (* objects that were not disassembled (for the properties)  *)

tables == <<syms, dynsyms, synthsyms>>
walk   == <<sec, addr_offset, sym, place>>
vars   == <<pc, files, cur, tables, sorted_syms, walk, ret, funcs, failed>>

File    == files[cur.file]
Object  == File[cur.obj]
Section == Object.sections[sec]
Value(i) == sorted_syms[i].value
-----------------------------------------------------------------------------
Init ==
    /\ pc = "load"
    /\ files \in Loads
    /\ cur = [file |-> 1, obj |-> 1]
    /\ syms = {} /\ dynsyms = {} /\ synthsyms = {}
    /\ sorted_syms = <<>>
    /\ sec = 1 /\ addr_offset = 0 /\ sym = 0 /\ place = 1
    /\ ret = 0
    /\ funcs = <<>> /\ failed = {}

NextFile == cur' = [file |-> cur.file + 1, obj |-> 1]

(* dumpwrap_load, display_file: the file is opened, or missing, of another  *)
(* size or not to be opened.                                                *)
BFDWRAP_ERR_FILE == 50
BFDWRAP_ERR_DISASM_NOARCH == 72
dumpwrap_load ==
    /\ pc = "load"
    /\ cur.file <= Len(files)
    /\ \/ pc' = "object" /\ ret' = 0 /\ UNCHANGED cur
       \/ pc' = "load" /\ ret' = BFDWRAP_ERR_FILE /\ NextFile
    /\ UNCHANGED <<files, tables, sorted_syms, walk, funcs, failed>>

(* display_bfd: the object is recognised, or not. *)
display_bfd ==
    /\ pc = "object"
    /\ cur.obj <= Len(File)
    /\ \/ pc' = "tables" /\ UNCHANGED <<cur, ret, failed>>
       \/ /\ pc' = "object"
          /\ ret' = BFDWRAP_ERR_FILE
          /\ failed' = failed \cup {cur}
          /\ cur' = [cur EXCEPT !.obj = @ + 1]
    /\ UNCHANGED <<files, tables, sorted_syms, walk, funcs>>

(* No more objects, or none that can be read in an archive (a file of one   *)
(* object is taken for none): display_file closes the file.                 *)
Broken == Len(File) # 1 /\ ret' = BFDWRAP_ERR_FILE
CloseFile ==
    /\ pc = "object"
    /\ cur.obj > Len(File)
    /\ pc' = "load"
    /\ UNCHANGED ret \/ Broken
    /\ NextFile
    /\ UNCHANGED <<files, tables, sorted_syms, walk, funcs, failed>>

(* dump_bfd reads the tables; slurp_symtab and slurp_dynamic_symtab have    *)
(* none when libbfd fails.  An object without dynamic symbols leaves        *)
(* dynsyms as it is.                                                        *)
slurp_symtab ==
    /\ pc = "tables"
    /\ syms' \in {Object.syms, {}}
    /\ IF Object.dynsyms = {} THEN UNCHANGED dynsyms ELSE dynsyms' \in {Object.dynsyms, {}}
    /\ synthsyms' \in {Object.synthsyms, {}}
    /\ pc' = "sort"
    /\ UNCHANGED <<files, cur, sorted_syms, walk, ret, funcs, failed>>

(* compare_symbols: by value, then section, then rank. *)
compare_symbols(a, b) ==
    \/ a.value < b.value
    \/ a.value = b.value /\ a.section < b.section
    \/ a.value = b.value /\ a.section = b.section /\ a.rank < b.rank

remove_useless_symbols(S) == {s \in S : ~s.useless}
(* What qsort makes of the symbols: a permutation in this order. *)
qsort(S) == {t \in SetToSeqs(S) :
                \A i, j \in DOMAIN t : i < j => ~compare_symbols(t[j], t[i])}
WithStatic == IF syms # {} THEN syms ELSE dynsyms

(* disassemble_data; without a disassembler for the object it returns with  *)
(* the sorted table not freed, and dump_bfd ignores what it returns.        *)
disassemble_data ==
    /\ pc = "sort"
    /\ sorted_syms' \in qsort(remove_useless_symbols(WithStatic) \cup synthsyms)
    /\ sec' = 0
    /\ \/ pc' = "section" /\ UNCHANGED failed
       \/ pc' = "free" /\ failed' = failed \cup {cur}
    /\ UNCHANGED <<files, cur, tables, addr_offset, sym, place, ret, funcs>>

-----------------------------------------------------------------------------
(* find_symbol_for_address, with require_sec: the search leaves the range   *)
(* it ends with, min first; max and what follows is above v.                *)
Search(v) ==
    LET bs[r \in (1..Len(sorted_syms)) \X (1..Len(sorted_syms)+1)] ==
            LET thisplace == (r[1] + r[2]) \div 2
            IN  IF r[1] + 1 >= r[2] THEN r
                ELSE IF Value(thisplace) > v THEN bs[<<r[1], thisplace>>]
                ELSE IF Value(thisplace) < v THEN bs[<<thisplace, r[2]>>]
                ELSE <<thisplace, r[2]>>
    IN  bs[<<1, Len(sorted_syms) + 1>>]

(* Symbols of section c, of those the target accepts. *)
InSec(c) == {i \in DOMAIN sorted_syms : sorted_syms[i].section = c /\ sorted_syms[i].valid}

(* Of the symbols with the value found one of the section; else the first   *)
(* of those with the nearest smaller value; else one with a larger value.   *)
NearestBelow(B) == Max(B)                                \* mutant
FirstBelow(B)   == Min({i \in B : Value(i) = Value(Max(B))})
find_symbol_for_address(v, c) ==
    IF sorted_syms = <<>> THEN 0 ELSE
    LET r      == Search(v)
        same   == {i \in 1..r[2]-1 : Value(i) = Value(r[1])}
        here   == same \cap InSec(c)
        before == {i \in InSec(c) : i <= Max(same)}
        after  == {i \in InSec(c) : i > Min(same)}
    IN  IF here # {} THEN Min(here)
        ELSE IF before # {} THEN FirstBelow(before)
        ELSE IF after # {} THEN Min(after)
        ELSE 0

(* bfd_map_over_sections comes to a section of code: the walk starts at the *)
(* nearest symbol.                                                          *)
disassemble_section ==
    /\ pc = "section"
    /\ sec < Len(Object.sections)
    /\ sec' = sec + 1
    /\ LET c == Object.sections[sec + 1]
       IN  \/ /\ ~(c.code /\ c.size # 0)
              /\ UNCHANGED <<pc, addr_offset, sym, place>>
           \/ /\ c.code /\ c.size # 0
              /\ addr_offset' = 0
              /\ sym' = find_symbol_for_address(c.vma, sec + 1)
              /\ place' = IF sym' = 0 THEN 1 ELSE sym'
              /\ pc' = "function"
    /\ UNCHANGED <<files, cur, tables, sorted_syms, ret, funcs, failed>>

addr == Section.vma + addr_offset

(* is_valid_next_sym, from place on. *)
is_valid_next_sym(i) == i \in InSec(sec) /\ Value(i) > Value(sym)
Following == {i \in place..Len(sorted_syms) : is_valid_next_sym(i)}
Ahead     == sym # 0 /\ Value(sym) > addr

nextsym ==
    IF sym = 0 THEN 0
    ELSE IF Ahead THEN sym
    ELSE IF Following = {} THEN 0 ELSE Min(Following)

(* nextstop_offset, brought back into the section. *)
AsFound(n) == n                                          \* mutant
Bounded(n) == IF n > Section.size \/ n <= addr_offset THEN Section.size ELSE n
nextstop_offset ==
    Bounded(IF nextsym = 0 THEN Section.size ELSE Value(nextsym) - Section.vma)

(* The code up to the next symbol: act is asked whether the text is wanted. *)
(* (ExcDasm has its answer, the text and FuncEnd.)                          *)
FuncStart ==
    /\ pc = "function"
    /\ addr_offset < Section.size
    /\ funcs' = Append(funcs,
          [object |-> cur, section |-> sec, sym |-> IF sym = 0 THEN NULL ELSE sorted_syms[sym],
           start |-> addr, end |-> Section.vma + nextstop_offset])
    /\ addr_offset' = nextstop_offset
    /\ sym' = nextsym
    /\ place' = IF sym = 0 \/ Ahead THEN place
                ELSE IF Following = {} THEN Len(sorted_syms) + 1 ELSE nextsym
    /\ UNCHANGED <<pc, files, cur, tables, sorted_syms, sec, ret, failed>>

SectionEnd ==
    /\ pc = "function"
    /\ addr_offset >= Section.size
    /\ pc' = "section"
    /\ UNCHANGED <<files, cur, tables, sorted_syms, walk, ret, funcs, failed>>

DataEnd ==
    /\ pc = "section"
    /\ sec = Len(Object.sections)
    /\ sorted_syms' = <<>>
    /\ pc' = "free"
    /\ UNCHANGED <<files, cur, tables, walk, ret, funcs, failed>>

(* The end of dump_bfd, and display_bfd's 0: the tables are freed, the      *)
(* counts set to 0.                                                         *)
KeepDynamic(t) == t                                      \* mutant
Freed(t)       == {}
FreeTables ==
    /\ pc = "free"
    /\ syms' = {} /\ dynsyms' = Freed(dynsyms) /\ synthsyms' = {}
    /\ ret' = 0
    /\ cur' = [cur EXCEPT !.obj = @ + 1]
    /\ pc' = "object"
    /\ UNCHANGED <<files, sorted_syms, walk, funcs, failed>>

Next ==
    \/ dumpwrap_load \/ display_bfd \/ CloseFile
    \/ slurp_symtab \/ disassemble_data \/ disassemble_section
    \/ FuncStart \/ SectionEnd \/ DataEnd \/ FreeTables

Spec == Init /\ [][Next]_vars

-----------------------------------------------------------------------------
(* The functions of section c of object o. *)
Of(o, c) == {i \in DOMAIN funcs : funcs[i].object = o /\ funcs[i].section = c}

(* The functions of a section divide it: they have code, the first starts   *)
(* where the section starts, each other one where the one before ends, the  *)
(* last one ends where the section ends once the walk has left it.          *)
Divided ==
    \A i \in DOMAIN funcs :
        LET f == funcs[i]
            c == files[f.object.file][f.object.obj].sections[f.section]
            S == Of(f.object, f.section)
            done == f.object # cur \/ f.section # sec \/ pc # "function"
        IN  /\ f.start < f.end
            /\ f.start = (IF i = Min(S) THEN c.vma ELSE funcs[i-1].end)
            /\ done /\ i = Max(S) => f.end = c.vma + c.size
            /\ i # Min(S) => i - 1 \in S

(* The first n sections of object o: those of code have functions. *)
Walked(o, n) ==
    \A c \in 1..n : LET s == files[o.file][o.obj].sections[c]
                    IN  s.code /\ s.size # 0 => Of(o, c) # {}
NoneLeftOut ==
    pc # "load" =>
        /\ pc = "section" => Walked(cur, sec)
        /\ \A j \in 1..cur.obj-1 :
              LET o == [file |-> cur.file, obj |-> j]
              IN  o \notin failed => Walked(o, Len(File[j].sections))

(* Every section of code the walk has finished is divided into functions.   *)
(* So no address of it is in two functions and none is in no function: what *)
(* funcs_actcheck looks for by address it is asked about once.              *)
Tiled == Divided /\ NoneLeftOut

(* The symbol an address of section c belongs to among the symbols S: of    *)
(* those of the section at the nearest address not above it the first, the  *)
(* first above when there is none below, NULL without any.                  *)
Best(S) == CHOOSE s \in S : \A t \in S : s.rank <= t.rank
SymbolOf(S, a, c) ==
    LET mine  == {s \in S : s.section = c /\ s.valid}
        below == {s \in mine : s.value <= a}
        high  == Max({s.value : s \in below})
        low   == Min({s.value : s \in mine})
    IN  IF below # {} THEN Best({s \in below : s.value = high})
        ELSE IF mine # {} THEN Best({s \in mine : s.value = low})
        ELSE NULL

(* Every address of a function belongs to the symbol it is shown with: the  *)
(* binary search among the symbols of all sections and the search forward   *)
(* from there lose no symbol and take none of another section.  (Of         *)
(* addresses before all symbols the name is that of the first one.)         *)
NamedByItsSymbol ==
    pc = "function" =>
        \A i \in Of(cur, sec) :
            \A a \in funcs[i].start .. funcs[i].end - 1 :
                funcs[i].sym = SymbolOf(Range(sorted_syms), a, sec)

(* The tables are static and live on between files and objects: functions   *)
(* are only named by symbols of their own object.                           *)
OwnSymbols ==
    \A i \in DOMAIN funcs :
        LET f == funcs[i]
            o == files[f.object.file][f.object.obj]
        IN  f.sym # NULL => f.sym \in o.syms \cup o.dynsyms \cup o.synthsyms
=============================================================================
