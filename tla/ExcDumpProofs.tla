----------------------------- MODULE ExcDumpProofs ----------------------------
(***************************************************************************)
(* Theorems about ExcDump, for all sequences of files, tables of symbols   *)
(* and layouts of sections.                                                *)
(***************************************************************************)
EXTENDS ExcDump, FiniteSetTheorems, TLAPS

(* A set of numbers that is not empty has a least, and a greatest when      *)
(* there is a bound.                                                        *)
LEMMA LeastOf ==
    ASSUME NEW S, S \subseteq Nat, S # {}
    PROVE  \E x \in S : \A y \in S : x <= y
<1>1. PICK x \in S : \A y \in S : ~ (<<y, x>> \in OpToRel(<, Nat))
  BY NatLessThanWellFounded, WFMin
<1>2. \A y \in S : ~ (y < x)
  BY <1>1 DEF OpToRel
<1>3. QED
  BY <1>2

LEMMA MinOf ==
    ASSUME NEW S, S \subseteq Nat, S # {}
    PROVE  /\ Min(S) \in S /\ Min(S) \in Nat /\ \A y \in S : Min(S) <= y
BY LeastOf DEF Min

LEMMA MaxOf ==
    ASSUME NEW m \in Nat, NEW S, S \subseteq 1..m, S # {}
    PROVE  Max(S) \in S /\ \A y \in S : y <= Max(S)
<1> DEFINE T == {m - x : x \in S}
<1>1. T \subseteq Nat /\ T # {}
  OBVIOUS
<1>2. PICK t \in T : \A y \in T : t <= y
  BY <1>1, LeastOf
<1>3. PICK x \in S : t = m - x
  BY <1>2
<1>4. \A y \in S : y <= x
  <2> SUFFICES ASSUME NEW y \in S PROVE y <= x
    OBVIOUS
  <2>1. m - y \in T
    OBVIOUS
  <2>2. QED
    BY <1>2, <1>3, <2>1
<1>5. \E z \in S : \A y \in S : z >= y
  BY <1>3, <1>4
<1>6. QED
  BY <1>5 DEF Max

(* The least element of a set is what its only lower bound in it is. *)
LEMMA MinIs ==
    ASSUME NEW S, S \subseteq Nat, NEW x \in S, \A y \in S : x <= y
    PROVE  Min(S) = x
<1>1. Min(S) \in S /\ Min(S) \in Nat /\ \A y \in S : Min(S) <= y
  BY MinOf
<1>2. Min(S) <= x /\ x <= Min(S) /\ x \in Nat
  BY <1>1
<1>3. QED
  BY <1>1, <1>2

LEMMA EndsIn ==
    ASSUME NEW n \in Nat, NEW S, S \subseteq 1..n, S # {}
    PROVE  /\ Min(S) \in S /\ Min(S) \in 1..n
           /\ Max(S) \in S /\ Max(S) \in 1..n
<1>1. S \subseteq Nat
  OBVIOUS
<1>2. Min(S) \in S /\ Max(S) \in S
  BY <1>1, MinOf, MaxOf
<1>3. \A x \in S : x \in 1..n
  OBVIOUS
<1>4. QED
  BY <1>2, <1>3, Zenon

LEMMA LeastIn ==
    ASSUME NEW n \in Nat, NEW S, S \subseteq 1..n, S # {}
    PROVE  /\ \E x \in S : x \in 1..n /\ x = Min(S) /\ \A y \in S : x <= y
           /\ \E x \in S : x \in 1..n /\ x = Max(S) /\ \A y \in S : y <= x
<1>1. S \subseteq Nat
  OBVIOUS
<1>2. (\A y \in S : Min(S) <= y) /\ (\A y \in S : y <= Max(S))
  BY <1>1, MinOf, MaxOf
<1>3. QED
  BY <1>2, EndsIn

(* A sequence is one of whatever it contains. *)
LEMMA SequenceIs ==
    ASSUME NEW q, IsSeq(q)
    PROVE  /\ Len(q) \in Nat /\ DOMAIN q = 1..Len(q)
           /\ \A e : /\ IsSeq(Append(q, e)) /\ Len(Append(q, e)) = Len(q) + 1
                    /\ Append(q, e)[Len(q) + 1] = e
                    /\ \A i \in 1..Len(q) : Append(q, e)[i] = q[i]
<1> DEFINE S == Range(q)
<1>1. q \in Seq(S)
  BY DEF IsSeq
<1> HIDE DEF S
<1>2. Len(q) \in Nat /\ DOMAIN q = 1..Len(q)
  BY <1>1
<1>3. ASSUME NEW e
      PROVE  /\ IsSeq(Append(q, e)) /\ Len(Append(q, e)) = Len(q) + 1
             /\ Append(q, e)[Len(q) + 1] = e
             /\ \A i \in 1..Len(q) : Append(q, e)[i] = q[i]
  <2> DEFINE r == Append(q, e)
             T == S \cup {e}
  <2>1. q \in Seq(T)
    BY <1>1
  <2>2. r \in Seq(T) /\ Len(r) = Len(q) + 1 /\ r[Len(q) + 1] = e /\ \A i \in 1..Len(q) : r[i] = q[i]
    BY <2>1
  <2> HIDE DEF r, T
  <2>3. IsSeq(r)
    <3>1. Len(r) \in Nat /\ DOMAIN r = 1..Len(r) /\ r \in [1..Len(r) -> T]
      BY <2>2
    <3>2. r \in [1..Len(r) -> Range(r)]
      BY <3>1 DEF Range
    <3>3. QED
      BY <3>1, <3>2 DEF IsSeq
  <2>4. QED
    BY <2>2, <2>3 DEF r
<1>4. QED
  BY <1>2, <1>3

-----------------------------------------------------------------------------
(* Where the walk is. *)
PlaceInv ==
    /\ files \in Loads
    /\ cur \in [file : Nat, obj : Nat] /\ cur.file > 0 /\ cur.obj > 0
    /\ pc \in {"load", "object", "tables", "sort", "section", "function", "free"}
    /\ sec \in Nat /\ addr_offset \in Nat
    /\ pc # "load" => cur.file <= Len(files)
    /\ pc \in {"tables", "sort", "section", "function", "free"} => cur.obj <= Len(File)
    /\ pc = "section" => sec <= Len(Object.sections)
    /\ pc = "function" => /\ sec \in 1..Len(Object.sections)
                          /\ addr_offset <= Section.size /\ Section.size # 0

(* The tables are those of the object in hand, and empty between objects.   *)
Own(o) == o.syms \cup o.dynsyms \cup o.synthsyms
SymsInv ==
    /\ pc \in {"load", "object", "tables"} => syms = {} /\ dynsyms = {} /\ synthsyms = {}
    /\ pc = "sort" => syms \cup dynsyms \cup synthsyms \subseteq Own(Object)
    /\ pc \in {"section", "function"} =>
          /\ IsSeq(sorted_syms)
          /\ \A i \in 1..Len(sorted_syms) : sorted_syms[i] \in Own(Object)
    /\ pc = "function" => sym \in 0..Len(sorted_syms)

(* The functions are listed in the order of the walk, and none is of what   *)
(* is still to come.                                                        *)
Place(i)   == <<funcs[i].object, funcs[i].section>>
Passed(i) ==
    LET o == funcs[i].object
    IN  \/ o.file < cur.file
        \/ o.file = cur.file /\ o.obj < cur.obj
        \/ o = cur /\ pc \in {"section", "function", "free"} /\ funcs[i].section <= sec
SectionOf(f) == files[f.object.file][f.object.obj].sections[f.section]
FuncsInv ==
    /\ IsSeq(funcs)
    /\ \A i \in 1..Len(funcs) :
          /\ funcs[i].object \in [file : Nat, obj : Nat] /\ funcs[i].section \in Nat
          /\ funcs[i].start \in Nat /\ funcs[i].end \in Nat
          /\ funcs[i].sym # NULL => funcs[i].sym \in Own(files[funcs[i].object.file][funcs[i].object.obj])
          /\ Passed(i)

(* The functions of one section are next to each other, each begins where   *)
(* the one before ends, and the walk is where the last of its section ends. *)
TilesInv ==
    /\ \A i, j, k \in 1..Len(funcs) : i < j /\ j < k /\ Place(i) = Place(k) => Place(j) = Place(k)
    /\ \A i \in 1..Len(funcs) :
          /\ funcs[i].start < funcs[i].end
          /\ funcs[i].start = IF i > 1 /\ Place(i-1) = Place(i) THEN funcs[i-1].end
                                                              ELSE SectionOf(funcs[i]).vma
          /\ \/ i < Len(funcs) /\ Place(i+1) = Place(i)
             \/ pc = "function" /\ Place(i) = <<cur, sec>>
             \/ funcs[i].end = SectionOf(funcs[i]).vma + SectionOf(funcs[i]).size
    /\ pc = "function" =>
          /\ \A i, j \in 1..Len(funcs) : i < j /\ Place(i) = <<cur, sec>> => Place(j) = <<cur, sec>>
          /\ IF Len(funcs) # 0 /\ Place(Len(funcs)) = <<cur, sec>>
             THEN funcs[Len(funcs)].end = addr ELSE addr_offset = 0

(* The files and the object in hand are what DumpAssumption says. *)
LEMMA FilesAre ==
    ASSUME PlaceInv
    PROVE  /\ IsSeq(files) /\ Len(files) \in Nat
           /\ cur.file <= Len(files) => IsSeq(File) /\ Len(File) \in Nat
           /\ cur.file <= Len(files) /\ cur.obj <= Len(File) => IsObject(Object)
<1>1. /\ IsSeq(files)
      /\ \A i \in DOMAIN files : IsSeq(files[i]) /\ \A j \in DOMAIN files[i] : IsObject(files[i][j])
  BY DumpAssumption DEF PlaceInv, IsLoad
<1>2. Len(files) \in Nat /\ DOMAIN files = 1..Len(files)
  BY <1>1, SequenceIs
<1>3. cur.file \in Nat /\ cur.file > 0 /\ cur.obj \in Nat /\ cur.obj > 0
  BY DEF PlaceInv
<1>4. ASSUME cur.file <= Len(files)
      PROVE  /\ IsSeq(File) /\ Len(File) \in Nat
             /\ cur.obj <= Len(File) => IsObject(Object)
  <2>1. cur.file \in DOMAIN files
    BY <1>2, <1>3, <1>4
  <2>2. IsSeq(File) /\ \A j \in DOMAIN File : IsObject(File[j])
    BY <1>1, <2>1 DEF File
  <2>3. Len(File) \in Nat /\ DOMAIN File = 1..Len(File)
    BY <2>2, SequenceIs
  <2>4. cur.obj <= Len(File) => cur.obj \in DOMAIN File
    BY <1>3, <2>3
  <2>5. QED
    BY <2>2, <2>3, <2>4 DEF Object
<1>5. QED
  BY <1>1, <1>2, <1>4

LEMMA ObjectIs ==
    ASSUME PlaceInv, pc \in {"tables", "sort", "section", "function", "free"}
    PROVE  /\ Len(Object.sections) \in Nat
           /\ \A c \in 1..Len(Object.sections) : /\ Object.sections[c].vma \in Nat
                                                 /\ Object.sections[c].size \in Nat
           /\ \A s \in Own(Object) : s.value \in Nat
           /\ IsFiniteSet(Own(Object))
<1>1. IsObject(Object)
  <2>1. cur.file <= Len(files) /\ cur.obj <= Len(File)
    BY DEF PlaceInv
  <2>2. QED
    BY <2>1, FilesAre
<1>2. IsSeq(Object.sections) /\ \A i \in DOMAIN Object.sections : IsSection(Object.sections[i])
  BY <1>1 DEF IsObject
<1>3. Len(Object.sections) \in Nat /\ DOMAIN Object.sections = 1..Len(Object.sections)
  BY <1>2, SequenceIs
<1>4. (\A s \in Own(Object) : s.value \in Nat) /\ IsFiniteSet(Own(Object))
  BY <1>1 DEF Own, IsObject, IsSymbol
<1>5. QED
  BY <1>2, <1>3, <1>4 DEF IsSection

(* The search for the nearest symbol finds none or one of the table. *)
LEMMA FindIs ==
    ASSUME IsSeq(sorted_syms), NEW v, NEW c
    PROVE  find_symbol_for_address(v, c) \in 0..Len(sorted_syms)
<1>1. PICK n \in Nat : n = Len(sorted_syms) /\ DOMAIN sorted_syms = 1..n
  BY SequenceIs
<1> DEFINE r      == Search(v)
           same   == {i \in 1..r[2]-1 : Value(i) = Value(r[1])}
           here   == same \cap InSec(c)
           before == {i \in InSec(c) : i <= Max(same)}
           after  == {i \in InSec(c) : i > Min(same)}
<1>2. find_symbol_for_address(v, c) =
         IF sorted_syms = <<>> THEN 0
         ELSE IF here # {} THEN Min(here)
         ELSE IF before # {} THEN FirstBelow(before)
         ELSE IF after # {} THEN Min(after)
         ELSE 0
  BY DEF find_symbol_for_address
<1>3. /\ here \subseteq 1..n /\ before \subseteq 1..n /\ after \subseteq 1..n
      /\ here \subseteq Nat /\ before \subseteq Nat /\ after \subseteq Nat
  BY <1>1 DEF InSec
<1> HIDE DEF r, same, here, before, after
<1>4. here # {} => Min(here) \in 0..n
  <2>1. here # {} => Min(here) \in 1..n
    BY <1>3, EndsIn
  <2>2. QED
    BY <2>1
<1>5. after # {} => Min(after) \in 0..n
  <2>1. after # {} => Min(after) \in 1..n
    BY <1>3, EndsIn
  <2>2. QED
    BY <2>1
<1>6. before # {} => FirstBelow(before) \in 0..n
  <2> SUFFICES ASSUME before # {} PROVE FirstBelow(before) \in 0..n
    OBVIOUS
  <2> DEFINE T == {i \in before : Value(i) = Value(Max(before))}
  <2>1. Max(before) \in before
    BY <1>3, EndsIn
  <2>2. T \subseteq 1..n /\ T # {}
    BY <1>3, <2>1
  <2>3. FirstBelow(before) = Min(T)
    BY DEF FirstBelow
  <2> HIDE DEF T
  <2>4. Min(T) \in 1..n
    BY <2>2, EndsIn
  <2>5. QED
    BY <2>3, <2>4
<1>7. QED
  BY <1>1, <1>2, <1>4, <1>5, <1>6

(* The next function ends behind the last, in the section. *)
LEMMA StopIs ==
    ASSUME PlaceInv, SymsInv, pc = "function", addr_offset < Section.size
    PROVE  /\ nextsym \in 0..Len(sorted_syms)
           /\ nextstop_offset \in Nat /\ addr_offset < nextstop_offset
           /\ nextstop_offset <= Section.size
           /\ Section.vma \in Nat /\ Section.size \in Nat /\ addr_offset \in Nat
<1>1. PICK n \in Nat : n = Len(sorted_syms) /\ DOMAIN sorted_syms = 1..n
  BY SequenceIs DEF SymsInv
<1>2. /\ Section.vma \in Nat /\ Section.size \in Nat /\ addr_offset \in Nat
      /\ \A i \in 1..n : Value(i) \in Nat
  BY <1>1, ObjectIs DEF PlaceInv, SymsInv, Section, Value
<1>3. Following \subseteq 1..n /\ Following \subseteq Nat
  BY <1>1 DEF Following, is_valid_next_sym, InSec
<1>4. nextsym \in 0..n
  <2>1. sym \in 0..n
    BY <1>1 DEF SymsInv
  <2>2. Following # {} => Min(Following) \in 1..n
    BY <1>3, EndsIn
  <2>3. QED
    BY <2>1, <2>2 DEF nextsym
<1> DEFINE k == IF nextsym = 0 THEN Section.size ELSE Value(nextsym) - Section.vma
<1>5. k \in Int
  BY <1>2, <1>4
<1>6. nextstop_offset = IF k > Section.size \/ k <= addr_offset THEN Section.size ELSE k
  BY DEF nextstop_offset, Bounded
<1> HIDE DEF k
<1>7. QED
  BY <1>1, <1>2, <1>4, <1>5, <1>6

LEMMA PlaceStep == PlaceInv /\ SymsInv /\ [Next]_vars => PlaceInv'
<1> SUFFICES ASSUME PlaceInv, SymsInv, [Next]_vars PROVE PlaceInv'
  OBVIOUS
<1>0. Len(files) \in Nat /\ cur \in [file : Nat, obj : Nat]
  BY FilesAre DEF PlaceInv
<1>1. CASE dumpwrap_load \/ CloseFile
  <2>1. /\ UNCHANGED <<files, sec, addr_offset>>
        /\ \/ pc' = "load" /\ cur' = [file |-> cur.file + 1, obj |-> 1]
           \/ pc' = "object" /\ cur' = cur /\ cur.file <= Len(files)
    BY <1>1 DEF dumpwrap_load, CloseFile, NextFile, walk
  <2>2. QED
    BY <1>0, <2>1 DEF PlaceInv
<1>2. CASE display_bfd \/ FreeTables
  <2>1. /\ UNCHANGED <<files, sec, addr_offset>> /\ cur.file <= Len(files)
        /\ \/ pc' = "tables" /\ cur' = cur /\ cur.obj <= Len(File)
           \/ pc' = "object" /\ cur' = [cur EXCEPT !.obj = @ + 1]
    BY <1>2 DEF display_bfd, FreeTables, walk, PlaceInv
  <2>2. CASE cur' = cur
    BY <2>1, <2>2 DEF PlaceInv, File
  <2>3. CASE pc' = "object" /\ cur' = [cur EXCEPT !.obj = @ + 1]
    <3>1. cur' \in [file : Nat, obj : Nat] /\ cur'.file = cur.file /\ cur'.obj = cur.obj + 1
      BY <1>0, <2>3
    <3>2. QED
      BY <1>0, <2>1, <2>3, <3>1 DEF PlaceInv
  <2>4. QED
    BY <2>1, <2>2, <2>3
<1>3. CASE slurp_symtab
  BY <1>3 DEF slurp_symtab, walk, PlaceInv, File
<1>4. CASE disassemble_data
  <2>1. Len(Object.sections) \in Nat
    BY <1>4, ObjectIs DEF disassemble_data
  <2>2. QED
    BY <1>4, <2>1 DEF disassemble_data, PlaceInv, File, Object
<1>5. CASE disassemble_section
  <2>1. Len(Object.sections) \in Nat /\ \A c \in 1..Len(Object.sections) : Object.sections[c].size \in Nat
    BY <1>5, ObjectIs DEF disassemble_section
  <2>2. /\ pc = "section" /\ UNCHANGED <<files, cur>> /\ sec < Len(Object.sections) /\ sec' = sec + 1
        /\ \/ pc' = pc /\ addr_offset' = addr_offset
           \/ pc' = "function" /\ addr_offset' = 0 /\ Object.sections[sec + 1].size # 0
    BY <1>5 DEF disassemble_section
  <2>3. sec + 1 \in 1..Len(Object.sections)
    BY <2>1, <2>2 DEF PlaceInv
  <2>4. Object.sections[sec + 1].size \in Nat
    BY <2>1, <2>3
  <2>5. Object' = Object /\ File' = File /\ Section' = Object.sections[sec + 1]
    BY <2>2 DEF Object, File, Section
  <2>6. QED
    BY <2>1, <2>2, <2>3, <2>4, <2>5 DEF PlaceInv
<1>6. CASE FuncStart
  <2>1. /\ pc = "function" /\ addr_offset < Section.size /\ addr_offset' = nextstop_offset
        /\ UNCHANGED <<pc, files, cur, sec>>
    BY <1>6 DEF FuncStart
  <2>2. nextstop_offset \in Nat /\ nextstop_offset <= Section.size
    BY <2>1, StopIs
  <2>3. Object' = Object /\ File' = File /\ Section' = Section
    BY <2>1 DEF Object, File, Section
  <2>4. QED
    BY <2>1, <2>2, <2>3 DEF PlaceInv
<1>7. CASE SectionEnd
  <2>1. Len(Object.sections) \in Nat
    BY <1>7, ObjectIs DEF SectionEnd
  <2>2. QED
    BY <1>7, <2>1 DEF SectionEnd, walk, PlaceInv, File, Object
<1>8. CASE DataEnd
  BY <1>8 DEF DataEnd, walk, PlaceInv, File
<1>9. CASE UNCHANGED vars
  BY <1>9 DEF vars, walk, PlaceInv, File, Object, Section
<1>10. QED
  BY <1>1, <1>2, <1>3, <1>4, <1>5, <1>6, <1>7, <1>8, <1>9 DEF Next

LEMMA SymsStep == PlaceInv /\ SymsInv /\ [Next]_vars => SymsInv'
<1> SUFFICES ASSUME PlaceInv, SymsInv, [Next]_vars PROVE SymsInv'
  OBVIOUS
<1>1. CASE dumpwrap_load \/ display_bfd \/ CloseFile
  BY <1>1 DEF dumpwrap_load, display_bfd, CloseFile, tables, SymsInv
<1>2. CASE slurp_symtab
  <2>1. /\ pc = "tables" /\ pc' = "sort" /\ UNCHANGED <<files, cur>>
        /\ syms' \in {Object.syms, {}}
        /\ dynsyms' = dynsyms \/ dynsyms' \in {Object.dynsyms, {}}
        /\ synthsyms' \in {Object.synthsyms, {}}
    BY <1>2 DEF slurp_symtab
  <2>2. dynsyms = {}
    BY <2>1 DEF SymsInv
  <2>3. Own(Object)' = Own(Object)
    BY <2>1 DEF Own, Object, File
  <2>4. syms' \cup dynsyms' \cup synthsyms' \subseteq Own(Object)
    BY <2>1, <2>2 DEF Own
  <2>5. QED
    BY <2>1, <2>3, <2>4 DEF SymsInv
<1>3. CASE disassemble_data
  <2> DEFINE S == remove_useless_symbols(WithStatic) \cup synthsyms
  <2>1. /\ pc = "sort" /\ pc' \in {"section", "free"} /\ UNCHANGED <<files, cur>>
        /\ sorted_syms' \in qsort(S)
    BY <1>3 DEF disassemble_data
  <2>2. S \subseteq Own(Object)
    BY <2>1 DEF SymsInv, remove_useless_symbols, WithStatic
  <2>. Cardinality(S) \in Nat
    BY <2>1, <2>2, ObjectIs, FS_Subset, FS_CardinalityType
  <2> HIDE DEF S
  <2>3. sorted_syms' \in [1..Cardinality(S) -> S]
    BY <2>1 DEF qsort, SetToSeqs
  <2>4. IsSeq(sorted_syms') /\ \A i \in 1..Len(sorted_syms') : sorted_syms'[i] \in S
    <3>1. PICK n \in Nat : n = Cardinality(S)
      OBVIOUS
    <3>2. PICK t \in [1..n -> S] : t = sorted_syms'
      BY <2>3, <3>1
    <3>3. t \in Seq(S) /\ Len(t) = n /\ t \in [1..n -> Range(t)]
      BY <3>2 DEF Range
    <3>4. IsSeq(t)
      BY <3>3 DEF IsSeq
    <3>5. QED
      BY <3>2, <3>3, <3>4
  <2>5. Own(Object)' = Own(Object)
    BY <2>1 DEF Own, Object, File
  <2>6. QED
    BY <2>1, <2>2, <2>4, <2>5 DEF SymsInv
<1>4. CASE disassemble_section
  <2>1. /\ pc = "section" /\ UNCHANGED <<files, cur, sorted_syms>>
        /\ pc' = "section" \/ (pc' = "function" /\ \E v, c : sym' = find_symbol_for_address(v, c))
    BY <1>4 DEF disassemble_section
  <2>2. Own(Object)' = Own(Object)
    BY <2>1 DEF Own, Object, File
  <2>3. IsSeq(sorted_syms) /\ \A i \in 1..Len(sorted_syms) : sorted_syms[i] \in Own(Object)
    BY <2>1 DEF SymsInv
  <2>4. pc' = "function" => sym' \in 0..Len(sorted_syms)
    BY <2>1, <2>3, FindIs
  <2>5. QED
    BY <2>1, <2>2, <2>3, <2>4 DEF SymsInv
<1>5. CASE FuncStart
  <2>1. /\ pc = "function" /\ UNCHANGED <<pc, files, cur, sorted_syms>>
        /\ addr_offset < Section.size /\ sym' = nextsym
    BY <1>5 DEF FuncStart
  <2>2. nextsym \in 0..Len(sorted_syms)
    BY <2>1, StopIs
  <2>3. Own(Object)' = Own(Object)
    BY <2>1 DEF Own, Object, File
  <2>4. QED
    BY <2>1, <2>2, <2>3 DEF SymsInv
<1>6. CASE SectionEnd
  BY <1>6 DEF SectionEnd, SymsInv, Own, Object, File
<1>7. CASE DataEnd
  BY <1>7 DEF DataEnd, SymsInv
<1>8. CASE FreeTables
  BY <1>8 DEF FreeTables, Freed, SymsInv
<1>9. CASE UNCHANGED vars
  BY <1>9 DEF vars, tables, walk, SymsInv, Own, Object, File
<1>10. QED
  BY <1>1, <1>2, <1>3, <1>4, <1>5, <1>6, <1>7, <1>8, <1>9 DEF Next

(* The steps that ask about no function leave all of them behind. *)
LEMMA PassedStep ==
    ASSUME PlaceInv, FuncsInv, funcs' = funcs, files' = files, NEW i \in 1..Len(funcs),
           \/ cur' = cur /\ sec' = sec /\ pc' \in {"section", "function", "free"}
           \/ cur' = cur /\ sec' = sec /\ pc \notin {"section", "function", "free"}
           \/ cur' = cur /\ sec' = sec + 1 /\ pc = "section" /\ pc' \in {"section", "function"}
           \/ cur' = cur /\ pc = "sort"
           \/ cur' = [file |-> cur.file + 1, obj |-> 1]
           \/ cur' = [cur EXCEPT !.obj = @ + 1]
    PROVE  Passed(i)'
<1> DEFINE o == funcs[i].object
           c == funcs[i].section
<1>1. o \in [file : Nat, obj : Nat] /\ c \in Nat /\ cur \in [file : Nat, obj : Nat] /\ sec \in Nat
  BY DEF FuncsInv, PlaceInv
<1>2. \/ o.file < cur.file
      \/ o.file = cur.file /\ o.obj < cur.obj
      \/ o = cur /\ pc \in {"section", "function", "free"} /\ c <= sec
  BY DEF FuncsInv, Passed
<1>3. Passed(i)' <=> \/ o.file < cur'.file
                     \/ o.file = cur'.file /\ o.obj < cur'.obj
                     \/ o = cur' /\ pc' \in {"section", "function", "free"} /\ c <= sec'
  BY DEF Passed
<1> HIDE DEF o, c
<1>4. CASE cur' = cur /\ sec' = sec /\ (pc \in {"section", "function", "free"} =>
                                         pc' \in {"section", "function", "free"})
  BY <1>2, <1>3, <1>4
<1>5. CASE cur' = cur /\ sec' = sec + 1 /\ pc = "section" /\ pc' \in {"section", "function"}
  BY <1>1, <1>2, <1>3, <1>5
<1>6. CASE cur' = cur /\ pc = "sort"
  BY <1>2, <1>3, <1>6
<1>7. CASE cur' = [file |-> cur.file + 1, obj |-> 1]
  <2>1. cur'.file = cur.file + 1
    BY <1>7
  <2>2. o.file <= cur.file
    BY <1>1, <1>2
  <2>3. o.file < cur'.file
    BY <1>1, <2>1, <2>2
  <2>4. QED
    BY <1>3, <2>3
<1>8. CASE cur' = [cur EXCEPT !.obj = @ + 1]
  <2>1. cur'.file = cur.file /\ cur'.obj = cur.obj + 1
    BY <1>1, <1>8
  <2>2. o.file < cur.file \/ (o.file = cur.file /\ o.obj <= cur.obj)
    BY <1>1, <1>2
  <2>3. QED
    BY <1>1, <1>3, <2>1, <2>2
<1>9. QED
  BY <1>4, <1>5, <1>6, <1>7, <1>8

(* What FuncStart asks about. *)
Asked == [object |-> cur, section |-> sec, sym |-> IF sym = 0 THEN NULL ELSE sorted_syms[sym],
          start |-> addr, end |-> Section.vma + nextstop_offset]
LEMMA AskedIs ==
    ASSUME PlaceInv, SymsInv, FuncsInv, FuncStart
    PROVE  /\ IsSeq(funcs') /\ Len(funcs) \in Nat /\ Len(funcs') = Len(funcs) + 1
           /\ funcs'[Len(funcs) + 1] = Asked
           /\ \A i \in 1..Len(funcs) : funcs'[i] = funcs[i]
           /\ UNCHANGED <<pc, files, cur, sec>> /\ pc = "function"
           /\ addr_offset' = nextstop_offset /\ addr_offset < Section.size
<1>1. /\ funcs' = Append(funcs, Asked) /\ UNCHANGED <<pc, files, cur, sec>> /\ pc = "function"
      /\ addr_offset' = nextstop_offset /\ addr_offset < Section.size
  BY DEF FuncStart, Asked
<1>2. IsSeq(funcs)
  BY DEF FuncsInv
<1>3. QED
  BY <1>1, <1>2, SequenceIs

LEMMA FuncsStep == PlaceInv /\ SymsInv /\ FuncsInv /\ [Next]_vars => FuncsInv'
<1> SUFFICES ASSUME PlaceInv, SymsInv, FuncsInv, [Next]_vars PROVE FuncsInv'
  OBVIOUS
<1>1. CASE ~ FuncStart
  <2>1. funcs' = funcs /\ files' = files
    BY <1>1 DEF Next, dumpwrap_load, display_bfd, CloseFile, slurp_symtab, disassemble_data,
                disassemble_section, SectionEnd, DataEnd, FreeTables, vars
  <2>2. \/ cur' = cur /\ sec' = sec /\ pc' \in {"section", "function", "free"}
        \/ cur' = cur /\ sec' = sec /\ pc \notin {"section", "function", "free"}
        \/ cur' = cur /\ sec' = sec + 1 /\ pc = "section" /\ pc' \in {"section", "function"}
        \/ cur' = cur /\ pc = "sort"
        \/ cur' = [file |-> cur.file + 1, obj |-> 1]
        \/ cur' = [cur EXCEPT !.obj = @ + 1]
    <3>1. CASE UNCHANGED vars
      BY <3>1 DEF vars, walk
    <3>2. CASE dumpwrap_load \/ display_bfd \/ CloseFile \/ slurp_symtab \/ disassemble_data
      BY <3>2 DEF dumpwrap_load, display_bfd, CloseFile, slurp_symtab, disassemble_data, NextFile, walk
    <3>3. CASE disassemble_section \/ SectionEnd \/ DataEnd \/ FreeTables
      BY <3>3 DEF disassemble_section, SectionEnd, DataEnd, FreeTables, walk
    <3>4. QED
      BY <1>1, <3>1, <3>2, <3>3 DEF Next
  <2>3. \A i \in 1..Len(funcs) : Passed(i)'
    BY <2>1, <2>2, PassedStep
  <2>4. QED
    BY <2>1, <2>3 DEF FuncsInv, Own
<1>2. CASE FuncStart
  <2>1. /\ IsSeq(funcs') /\ Len(funcs) \in Nat /\ Len(funcs') = Len(funcs) + 1
        /\ funcs'[Len(funcs) + 1] = Asked
        /\ \A i \in 1..Len(funcs) : funcs'[i] = funcs[i]
        /\ UNCHANGED <<pc, files, cur, sec>> /\ pc = "function"
        /\ addr_offset' = nextstop_offset /\ addr_offset < Section.size
    BY <1>2, AskedIs
  <2>2. PICK n \in Nat : n = Len(funcs)
    BY <2>1
  <2>3. /\ nextstop_offset \in Nat /\ addr_offset \in Nat /\ Section.vma \in Nat
    BY <2>1, StopIs
  <2>4. /\ Asked.object = cur /\ Asked.section = sec
        /\ Asked.start \in Nat /\ Asked.end \in Nat
    BY <2>3 DEF Asked, addr
  <2>5. Asked.sym # NULL => Asked.sym \in Own(Object)
    <3>1. /\ sym \in 0..Len(sorted_syms) /\ IsSeq(sorted_syms)
          /\ \A i \in 1..Len(sorted_syms) : sorted_syms[i] \in Own(Object)
      BY <2>1 DEF SymsInv
    <3>2. Len(sorted_syms) \in Nat
      BY <3>1, SequenceIs
    <3>3. Asked.sym = IF sym = 0 THEN NULL ELSE sorted_syms[sym]
      BY DEF Asked
    <3>4. QED
      BY <3>1, <3>2, <3>3
  <2>6. cur \in [file : Nat, obj : Nat] /\ sec \in Nat
    BY DEF PlaceInv
  <2>7. ASSUME NEW i \in 1..(n + 1)
        PROVE  /\ funcs'[i].object \in [file : Nat, obj : Nat] /\ funcs'[i].section \in Nat
               /\ funcs'[i].start \in Nat /\ funcs'[i].end \in Nat
               /\ funcs'[i].sym # NULL =>
                     funcs'[i].sym \in Own(files[funcs'[i].object.file][funcs'[i].object.obj])
               /\ Passed(i)'
    <3>1. CASE i = n + 1
      <4>1. funcs'[i] = Asked
        BY <2>1, <2>2, <3>1
      <4>2. Passed(i)'
        BY <2>1, <2>4, <2>6, <4>1 DEF Passed
      <4>3. QED
        BY <2>4, <2>5, <2>6, <4>1, <4>2 DEF Object, File
    <3>2. CASE i \in 1..n
      <4>1. funcs'[i] = funcs[i]
        BY <2>1, <2>2, <3>2
      <4>2. Passed(i)' = Passed(i)
        BY <2>1, <4>1 DEF Passed
      <4>3. QED
        BY <2>2, <3>2, <4>1, <4>2 DEF FuncsInv
    <3>3. QED
      BY <3>1, <3>2
  <2>8. QED
    BY <2>1, <2>2, <2>7 DEF FuncsInv, Own
<1>3. QED
  BY <1>1, <1>2

(* The steps that ask about no function disturb at most what is said of the *)
(* walk.                                                                    *)
LEMMA TilesKept ==
    ASSUME TilesInv, UNCHANGED <<funcs, files>>, NEW n, n = Len(funcs),
           \A i \in 1..n :
              \/ i < n /\ Place(i+1) = Place(i)
              \/ pc' = "function" /\ Place(i) = <<cur', sec'>>
              \/ funcs[i].end = SectionOf(funcs[i]).vma + SectionOf(funcs[i]).size,
           pc' = "function" =>
              /\ \A i, j \in 1..n : i < j /\ Place(i) = <<cur', sec'>> => Place(j) = <<cur', sec'>>
              /\ IF n # 0 /\ Place(n) = <<cur', sec'>> THEN funcs[n].end = addr' ELSE addr_offset' = 0
    PROVE  TilesInv'
<1>1. \A i : Place(i)' = Place(i) /\ SectionOf(funcs[i])' = SectionOf(funcs[i])
  BY DEF Place, SectionOf
<1>2. /\ \A i, j, k \in 1..n : i < j /\ j < k /\ Place(i)' = Place(k)' => Place(j)' = Place(k)'
      /\ \A i \in 1..n :
            /\ funcs[i].start < funcs[i].end
            /\ funcs[i].start = IF i > 1 /\ Place(i-1)' = Place(i)' THEN funcs[i-1].end
                                                                  ELSE SectionOf(funcs[i])'.vma
  BY <1>1 DEF TilesInv
<1>3. /\ \A i \in 1..n :
            \/ i < n /\ Place(i+1)' = Place(i)'
            \/ pc' = "function" /\ Place(i)' = <<cur', sec'>>
            \/ funcs[i].end = SectionOf(funcs[i])'.vma + SectionOf(funcs[i])'.size
      /\ pc' = "function" =>
              /\ \A i, j \in 1..n : i < j /\ Place(i)' = <<cur', sec'>> => Place(j)' = <<cur', sec'>>
              /\ IF n # 0 /\ Place(n)' = <<cur', sec'>> THEN funcs[n].end = addr' ELSE addr_offset' = 0
  BY <1>1
<1>4. QED
  BY <1>2, <1>3 DEF TilesInv

LEMMA TilesStep == PlaceInv /\ SymsInv /\ FuncsInv /\ TilesInv /\ [Next]_vars => TilesInv'
<1> SUFFICES ASSUME PlaceInv, SymsInv, FuncsInv, TilesInv, [Next]_vars PROVE TilesInv'
  OBVIOUS
<1>0. PICK n \in Nat : n = Len(funcs)
  BY SequenceIs DEF FuncsInv
<1>a. /\ \A i, j, k \in 1..n : i < j /\ j < k /\ Place(i) = Place(k) => Place(j) = Place(k)
      /\ pc = "function" =>
            /\ \A i, j \in 1..n : i < j /\ Place(i) = <<cur, sec>> => Place(j) = <<cur, sec>>
            /\ IF n # 0 /\ Place(n) = <<cur, sec>> THEN funcs[n].end = addr ELSE addr_offset = 0
  BY <1>0 DEF TilesInv
<1>b. ASSUME NEW i \in 1..n
      PROVE  /\ funcs[i].start < funcs[i].end
             /\ funcs[i].start = IF i > 1 /\ Place(i-1) = Place(i) THEN funcs[i-1].end
                                                                 ELSE SectionOf(funcs[i]).vma
             /\ \/ i < n /\ Place(i+1) = Place(i)
                \/ pc = "function" /\ Place(i) = <<cur, sec>>
                \/ funcs[i].end = SectionOf(funcs[i]).vma + SectionOf(funcs[i]).size
  BY <1>0 DEF TilesInv
<1>1. ASSUME UNCHANGED <<funcs, files>>, pc # "function", pc' # "function"
      PROVE  TilesInv'
  BY <1>0, <1>b, <1>1, TilesKept
<1>2. CASE dumpwrap_load \/ display_bfd \/ CloseFile \/ slurp_symtab \/ disassemble_data \/ DataEnd \/ FreeTables
  <2>1. UNCHANGED <<funcs, files>> /\ pc # "function" /\ pc' # "function"
    BY <1>2 DEF dumpwrap_load, display_bfd, CloseFile, slurp_symtab, disassemble_data, DataEnd, FreeTables
  <2>2. QED
    BY <1>1, <2>1
<1>3. CASE disassemble_section
  <2>1. /\ UNCHANGED <<funcs, files, cur>> /\ pc = "section" /\ sec' = sec + 1
        /\ pc' = pc \/ (pc' = "function" /\ addr_offset' = 0)
    BY <1>3 DEF disassemble_section
  <2>2. ASSUME NEW i \in 1..n, Place(i)' = <<cur', sec'>> PROVE FALSE
    <3>1. funcs[i].object = cur /\ funcs[i].section = sec + 1
      BY <2>1, <2>2 DEF Place
    <3>2. Passed(i) /\ cur \in [file : Nat, obj : Nat] /\ sec \in Nat
      BY <1>0 DEF FuncsInv, PlaceInv
    <3>3. QED
      BY <3>1, <3>2 DEF Passed
  <2>3. \A i \in 1..n : Place(i) # <<cur', sec'>>
    BY <2>1, <2>2 DEF Place
  <2>4. /\ \A i \in 1..n :
              \/ i < n /\ Place(i+1) = Place(i)
              \/ pc' = "function" /\ Place(i) = <<cur', sec'>>
              \/ funcs[i].end = SectionOf(funcs[i]).vma + SectionOf(funcs[i]).size
        /\ UNCHANGED <<funcs, files>>
    BY <1>b, <2>1
  <2>5. n # 0 => n \in 1..n
    OBVIOUS
  <2>6. pc' = "function" =>
              /\ \A i, j \in 1..n : i < j /\ Place(i) = <<cur', sec'>> => Place(j) = <<cur', sec'>>
              /\ IF n # 0 /\ Place(n) = <<cur', sec'>> THEN funcs[n].end = addr' ELSE addr_offset' = 0
    BY <2>1, <2>3, <2>5
  <2>7. QED
    BY <1>0, <2>4, <2>6, TilesKept
<1>4. CASE SectionEnd
  <2>1. UNCHANGED <<funcs, files>> /\ pc = "function" /\ pc' = "section" /\ addr_offset >= Section.size
    BY <1>4 DEF SectionEnd
  <2>2. addr_offset = Section.size /\ Section.vma \in Nat /\ Section.size \in Nat
    BY <2>1, ObjectIs DEF PlaceInv, Section
  <2>3. ASSUME NEW i \in 1..n
        PROVE  \/ i < n /\ Place(i+1) = Place(i)
               \/ funcs[i].end = SectionOf(funcs[i]).vma + SectionOf(funcs[i]).size
    <3> SUFFICES ASSUME Place(i) = <<cur, sec>>
                 PROVE  \/ i < n /\ Place(i+1) = Place(i)
                        \/ funcs[i].end = SectionOf(funcs[i]).vma + SectionOf(funcs[i]).size
      BY <1>b
    <3>1. CASE i < n
      <4>1. i + 1 \in 1..n /\ i < i + 1
        BY <3>1
      <4>2. QED
        BY <1>a, <2>1, <3>1, <4>1
    <3>2. CASE i = n
      <4>1. funcs[i].end = Section.vma + Section.size
        BY <1>a, <2>1, <2>2, <3>2 DEF addr
      <4>2. SectionOf(funcs[i]) = Section
        BY DEF Place, SectionOf, Section, Object, File
      <4>3. QED
        BY <4>1, <4>2
    <3>3. QED
      BY <3>1, <3>2
  <2>4. QED
    BY <1>0, <2>1, <2>3, TilesKept
<1>5. CASE FuncStart
  <2>1. /\ IsSeq(funcs') /\ Len(funcs') = n + 1 /\ funcs'[n + 1] = Asked
        /\ \A i \in 1..n : funcs'[i] = funcs[i]
        /\ UNCHANGED <<pc, files, cur, sec>> /\ pc = "function"
        /\ addr_offset' = nextstop_offset /\ addr_offset < Section.size
    BY <1>0, <1>5, AskedIs
  <2>2. /\ nextstop_offset \in Nat /\ addr_offset \in Nat /\ Section.vma \in Nat
        /\ addr_offset < nextstop_offset
    BY <2>1, StopIs
  <2>3. /\ Place(n + 1)' = <<cur, sec>> /\ SectionOf(Asked) = Section
        /\ Asked.start = Section.vma + addr_offset /\ Asked.end = Section.vma + nextstop_offset
    BY <2>1 DEF Asked, Place, SectionOf, Section, Object, File, addr
  <2>4. \A i \in 1..n : Place(i)' = Place(i)
    BY <2>1 DEF Place
  <2>5. \A f : SectionOf(f)' = SectionOf(f)
    BY <2>1 DEF SectionOf
  <2>6. ASSUME NEW i \in 1..(n + 1), NEW j \in 1..(n + 1), NEW k \in 1..(n + 1),
               i < j, j < k, Place(i)' = Place(k)'
        PROVE  Place(j)' = Place(k)'
    <3>1. i \in 1..n /\ j \in 1..n
      BY <2>6
    <3>2. CASE k \in 1..n
      BY <1>a, <2>4, <2>6, <3>1, <3>2
    <3>3. CASE k = n + 1
      BY <1>a, <2>1, <2>3, <2>4, <2>6, <3>1, <3>3
    <3>4. QED
      BY <3>2, <3>3
  <2>7. ASSUME NEW i \in 1..(n + 1)
        PROVE  /\ funcs'[i].start < funcs'[i].end
               /\ funcs'[i].start = IF i > 1 /\ Place(i-1)' = Place(i)' THEN funcs'[i-1].end
                                                                      ELSE SectionOf(funcs'[i]).vma
               /\ \/ i < n + 1 /\ Place(i+1)' = Place(i)'
                  \/ pc' = "function" /\ Place(i)' = <<cur', sec'>>
                  \/ funcs'[i].end = SectionOf(funcs'[i]).vma + SectionOf(funcs'[i]).size
    <3>1. CASE i \in 1..n
      <4>1. funcs'[i] = funcs[i] /\ Place(i)' = Place(i)
        BY <2>1, <2>4, <3>1
      <4>2. i > 1 => funcs'[i-1] = funcs[i-1] /\ Place(i-1)' = Place(i-1)
        <5>1. i > 1 => i - 1 \in 1..n
          BY <3>1
        <5>2. QED
          BY <2>1, <2>4, <5>1
      <4>3. i < n => Place(i+1)' = Place(i+1)
        <5>1. i < n => i + 1 \in 1..n
          BY <3>1
        <5>2. QED
          BY <2>4, <5>1
      <4>4. funcs'[i].start < funcs'[i].end
        BY <1>b, <3>1, <4>1
      <4>5. funcs'[i].start = IF i > 1 /\ Place(i-1)' = Place(i)' THEN funcs'[i-1].end
                                                                ELSE SectionOf(funcs'[i]).vma
        BY <1>b, <3>1, <4>1, <4>2
      <4>6. \/ i < n + 1 /\ Place(i+1)' = Place(i)'
            \/ pc' = "function" /\ Place(i)' = <<cur', sec'>>
            \/ funcs'[i].end = SectionOf(funcs'[i]).vma + SectionOf(funcs'[i]).size
        <5>1. CASE i < n /\ Place(i+1) = Place(i)
          BY <3>1, <4>1, <4>3, <5>1
        <5>2. CASE pc = "function" /\ Place(i) = <<cur, sec>>
          BY <2>1, <4>1, <5>2
        <5>3. CASE funcs[i].end = SectionOf(funcs[i]).vma + SectionOf(funcs[i]).size
          BY <4>1, <5>3
        <5>4. QED
          BY <1>b, <3>1, <5>1, <5>2, <5>3
      <4>7. QED
        BY <4>4, <4>5, <4>6
    <3>2. CASE i = n + 1
      <4>1. funcs'[i] = Asked /\ Place(i)' = <<cur, sec>>
        BY <2>1, <2>3, <3>2
      <4>2. i > 1 => n # 0 /\ funcs'[i-1] = funcs[n] /\ Place(i-1)' = Place(n)
        <5>1. i > 1 => n \in 1..n /\ i - 1 = n
          BY <3>2
        <5>2. QED
          BY <2>1, <2>4, <5>1
      <4>3. i > 1 <=> n # 0
        BY <3>2
      <4>4. QED
        BY <1>a, <2>1, <2>2, <2>3, <4>1, <4>2, <4>3 DEF addr
    <3>3. QED
      BY <3>1, <3>2
  <2>8. \A i, j \in 1..(n + 1) : i < j /\ Place(i)' = <<cur', sec'>> => Place(j)' = <<cur', sec'>>
    <3> SUFFICES ASSUME NEW i \in 1..(n + 1), NEW j \in 1..(n + 1), i < j, Place(i)' = <<cur', sec'>>
                 PROVE  Place(j)' = <<cur', sec'>>
      OBVIOUS
    <3>1. i \in 1..n /\ (j \in 1..n \/ j = n + 1)
      OBVIOUS
    <3>2. QED
      BY <1>a, <2>1, <2>3, <2>4, <3>1
  <2>9. Place(n + 1)' = <<cur', sec'>> /\ funcs'[n + 1].end = addr'
    BY <2>1, <2>3 DEF addr, Section, Object, File
  <2>10. \A i \in 1..(n + 1) : SectionOf(funcs'[i]) = SectionOf(funcs[i])'
    BY <2>1 DEF SectionOf
  <2>11. QED
    BY <2>1, <2>6, <2>7, <2>8, <2>9, <2>10 DEF TilesInv
<1>6. CASE UNCHANGED vars
  <2>1. UNCHANGED <<funcs, files, pc, cur, sec, addr_offset>>
    BY <1>6 DEF vars, walk
  <2>2. addr' = addr
    BY <2>1 DEF addr, Section, Object, File
  <2>3. QED
    BY <1>0, <1>a, <1>b, <2>1, <2>2, TilesKept
<1>7. QED
  BY <1>2, <1>3, <1>4, <1>5, <1>6 DEF Next

-----------------------------------------------------------------------------
(* What the walk leaves behind: no function of an object that failed, none  *)
(* of data, and no section of code without functions, in the objects before *)
(* the one in hand and in the part of this one that was walked.             *)
Behind(o) == \/ o.file < cur.file
             \/ o.file = cur.file /\ o.obj < cur.obj
             \/ o = cur /\ pc = "free"
ObjectAt(j) == [file |-> cur.file, obj |-> j]
CoverInv ==
    /\ pc = "load" => cur.obj = 1
    /\ pc = "function" => Section.code
    /\ \A i \in 1..Len(funcs) : funcs[i].object \notin failed /\ SectionOf(funcs[i]).code
    /\ \A o \in failed : o \in [file : Nat, obj : Nat] /\ Behind(o)
    /\ pc = "section" => Walked(cur, sec)
    /\ pc = "function" => Walked(cur, sec - 1)
    /\ pc = "free" /\ cur \notin failed => Walked(cur, Len(Object.sections))
    /\ pc # "load" => \A j \in 1..cur.obj-1 :
                         ObjectAt(j) \notin failed => Walked(ObjectAt(j), Len(File[j].sections))

LEMMA WalkedKept ==
    ASSUME files' = files, funcs' = funcs, NEW o, NEW n
    PROVE  Walked(o, n)' = Walked(o, n)
<1>1. \A c : Of(o, c)' = Of(o, c)
  BY DEF Of
<1>2. QED
  BY <1>1 DEF Walked

LEMMA CoverKept ==
    ASSUME CoverInv, PlaceInv, UNCHANGED <<files, funcs, failed>>, pc' # "load",
           \/ cur' = cur /\ pc # "load"
           \/ cur' = cur /\ cur.obj = 1
           \/ /\ cur' = [cur EXCEPT !.obj = @ + 1] /\ pc # "load"
              /\ cur \notin failed => Walked(cur, Len(Object.sections)),
           cur \in failed => cur' # cur \/ pc' = "free",
           pc' = "function" => Section'.code /\ Walked(cur, sec' - 1),
           pc' = "section" => Walked(cur, sec'),
           pc' \in {"section", "function", "free"} => cur' = cur,
           pc' = "free" /\ cur \notin failed => Walked(cur, Len(Object.sections))
    PROVE  CoverInv'
<1>1. \A o, n : Walked(o, n)' = Walked(o, n)
  BY WalkedKept
<1>2. \A i \in 1..Len(funcs) : funcs[i].object \notin failed' /\ SectionOf(funcs[i])'.code
  BY DEF CoverInv, SectionOf
<1>3. cur \in [file : Nat, obj : Nat] /\ cur.obj > 0
  BY DEF PlaceInv
<1>4. cur'.file = cur.file /\ (cur'.obj = cur.obj \/ cur'.obj = cur.obj + 1)
  BY <1>3
<1>5. ASSUME NEW o \in failed' PROVE o \in [file : Nat, obj : Nat] /\ Behind(o)'
  <2>1. o \in [file : Nat, obj : Nat] /\ Behind(o)
    BY DEF CoverInv
  <2>2. CASE o = cur
    <3>1. CASE cur' = cur
      BY <2>1, <2>2, <3>1 DEF Behind
    <3>2. CASE cur' = [cur EXCEPT !.obj = @ + 1]
      BY <1>3, <2>1, <2>2, <3>2 DEF Behind
    <3>3. QED
      BY <3>1, <3>2
  <2>3. CASE o # cur
    BY <1>3, <1>4, <2>1, <2>3 DEF Behind
  <2>4. QED
    BY <2>2, <2>3
<1>6. ASSUME NEW j \in 1..cur'.obj-1, ObjectAt(j)' \notin failed'
      PROVE  Walked(ObjectAt(j)', Len(File'[j].sections))
  <2>1. ObjectAt(j)' = ObjectAt(j) /\ File' = File
    BY <1>4 DEF ObjectAt, File
  <2>2. CASE j \in 1..cur.obj-1
    <3>1. pc # "load"
      BY <1>3, <2>2
    <3>2. QED
      BY <1>6, <2>1, <2>2, <3>1 DEF CoverInv
  <2>3. CASE j = cur.obj
    <3>1. cur' # cur
      BY <1>3, <2>3
    <3>2. cur \notin failed => Walked(cur, Len(Object.sections))
      BY <1>3, <3>1
    <3>3. ObjectAt(j) = cur /\ Object = File[j]
      BY <1>3, <2>3 DEF ObjectAt, Object
    <3>4. QED
      BY <1>6, <2>1, <3>2, <3>3
  <2>4. QED
    BY <1>3, <1>4, <2>2, <2>3
<1>7. pc' \in {"section", "function", "free"} => Object' = Object
  BY DEF Object, File
<1>8. QED
  BY <1>1, <1>2, <1>5, <1>6, <1>7 DEF CoverInv

LEMMA CoverStep == PlaceInv /\ SymsInv /\ FuncsInv /\ TilesInv /\ CoverInv /\ [Next]_vars => CoverInv'
<1> SUFFICES ASSUME PlaceInv, SymsInv, FuncsInv, TilesInv, CoverInv, [Next]_vars PROVE CoverInv'
  OBVIOUS
<1>0. cur \in [file : Nat, obj : Nat] /\ cur.obj > 0 /\ sec \in Nat
  BY DEF PlaceInv
<1>a. cur \in failed => pc = "free"
  BY <1>0 DEF CoverInv, Behind
<1>b. PICK n \in Nat : n = Len(funcs) /\ DOMAIN funcs = 1..n
  BY SequenceIs DEF FuncsInv
<1>c. \A i \in 1..n : funcs[i].object = cur => pc \in {"section", "function", "free"}
  BY <1>0, <1>b DEF FuncsInv, Passed
<1>1. ASSUME UNCHANGED <<files, funcs>>, pc' = "load", cur' = [file |-> cur.file + 1, obj |-> 1],
             failed' = failed
      PROVE  CoverInv'
  <2>1. \A i \in 1..Len(funcs) : funcs[i].object \notin failed' /\ SectionOf(funcs[i])'.code
    BY <1>1 DEF CoverInv, SectionOf
  <2>2. cur'.file = cur.file + 1 /\ cur'.obj = 1
    BY <1>1
  <2>3. ASSUME NEW o \in failed PROVE o \in [file : Nat, obj : Nat] /\ o.file < cur'.file
    BY <1>0, <2>2 DEF CoverInv, Behind
  <2>4. QED
    BY <1>1, <2>1, <2>2, <2>3 DEF CoverInv, Behind
<1>2. CASE dumpwrap_load
  <2>1. CASE pc' = "object" /\ cur' = cur
    BY <1>2, <1>a, <2>1, CoverKept DEF dumpwrap_load, CoverInv
  <2>2. CASE pc' = "load" /\ NextFile
    BY <1>1, <1>2, <2>2 DEF dumpwrap_load, NextFile
  <2>3. QED
    BY <1>2, <2>1, <2>2 DEF dumpwrap_load
<1>3. CASE CloseFile
  BY <1>1, <1>3 DEF CloseFile, NextFile
<1>4. ASSUME UNCHANGED <<files, funcs>>, failed' = failed \cup {cur}, pc \in {"object", "sort"},
             \/ pc' = "free" /\ cur' = cur
             \/ pc' = "object" /\ cur' = [cur EXCEPT !.obj = @ + 1]
      PROVE  CoverInv'
  <2>1. \A o, k : Walked(o, k)' = Walked(o, k)
    BY <1>4, WalkedKept
  <2>2. \A i \in 1..Len(funcs) : funcs[i].object \notin failed' /\ SectionOf(funcs[i])'.code
    <3>1. \A i \in 1..n : funcs[i].object # cur
      BY <1>4, <1>c
    <3>2. QED
      BY <1>4, <1>b, <3>1 DEF CoverInv, SectionOf
  <2>3. cur'.file = cur.file /\ (cur'.obj = cur.obj \/ cur'.obj = cur.obj + 1)
    BY <1>0, <1>4
  <2>4. ASSUME NEW o \in failed' PROVE o \in [file : Nat, obj : Nat] /\ Behind(o)'
    <3>1. CASE o = cur
      <4>1. CASE pc' = "free" /\ cur' = cur
        BY <1>0, <3>1, <4>1 DEF Behind
      <4>2. CASE cur' = [cur EXCEPT !.obj = @ + 1]
        BY <1>0, <3>1, <4>2 DEF Behind
      <4>3. QED
        BY <1>4, <4>1, <4>2
    <3>2. CASE o # cur
      <4>1. o \in failed
        BY <1>4, <3>2
      <4>2. QED
        BY <1>0, <2>3, <3>2, <4>1 DEF Behind, CoverInv
    <3>3. QED
      BY <3>1, <3>2
  <2>5. ASSUME NEW j \in 1..cur'.obj-1, ObjectAt(j)' \notin failed'
        PROVE  Walked(ObjectAt(j)', Len(File'[j].sections))
    <3>1. ObjectAt(j)' = ObjectAt(j) /\ File' = File
      BY <1>4, <2>3 DEF ObjectAt, File
    <3>2. j # cur.obj
      BY <1>0, <1>4, <2>5, <3>1 DEF ObjectAt
    <3>3. j \in 1..cur.obj-1
      BY <1>0, <2>3, <3>2
    <3>4. QED
      BY <1>4, <2>5, <3>1, <3>3 DEF CoverInv
  <2>6. cur \in failed'
    BY <1>4
  <2>7. QED
    BY <1>4, <2>1, <2>2, <2>4, <2>5, <2>6 DEF CoverInv
<1>5. CASE display_bfd
  <2>1. CASE pc' = "tables"
    BY <1>5, <1>a, <2>1, CoverKept DEF display_bfd
  <2>2. CASE pc' = "object"
    BY <1>4, <1>5, <2>2 DEF display_bfd
  <2>3. QED
    BY <1>5, <2>1, <2>2 DEF display_bfd
<1>6. CASE slurp_symtab
  BY <1>6, <1>a, CoverKept DEF slurp_symtab
<1>7. CASE disassemble_data
  <2>1. CASE pc' = "section" /\ failed' = failed
    <3>1. Walked(cur, 0)
      BY DEF Walked
    <3>2. QED
      BY <1>7, <1>a, <2>1, <3>1, CoverKept DEF disassemble_data
  <2>2. CASE pc' = "free" /\ failed' = failed \cup {cur}
    BY <1>4, <1>7, <2>2 DEF disassemble_data
  <2>3. QED
    BY <1>7, <2>1, <2>2 DEF disassemble_data
<1>8. CASE disassemble_section
  <2> DEFINE c == Object.sections[sec + 1]
  <2>1. /\ UNCHANGED <<files, cur, funcs, failed>> /\ pc = "section" /\ sec' = sec + 1
        /\ \/ pc' = "section" /\ ~(c.code /\ c.size # 0)
           \/ pc' = "function" /\ c.code
    BY <1>8 DEF disassemble_section
  <2>2. Walked(cur, sec) /\ cur \notin failed
    BY <1>a, <2>1 DEF CoverInv
  <2>3. CASE pc' = "section" /\ ~(c.code /\ c.size # 0)
    <3>1. Walked(cur, sec')
      <4>1. \A k \in 1..(sec + 1) : k \in 1..sec \/ k = sec + 1
        BY <1>0
      <4>2. QED
        BY <2>1, <2>2, <2>3, <4>1 DEF Walked, Object, File
    <3>2. QED
      BY <2>1, <2>2, <2>3, <3>1, CoverKept
  <2>4. CASE pc' = "function" /\ c.code
    <3>1. Section' = c /\ sec' - 1 = sec
      BY <1>0, <2>1 DEF Section, Object, File
    <3>2. QED
      BY <2>1, <2>2, <2>4, <3>1, CoverKept
  <2>5. QED
    BY <2>1, <2>3, <2>4
<1>9. CASE FuncStart
  <2>1. /\ Len(funcs') = n + 1 /\ funcs'[n + 1] = Asked /\ IsSeq(funcs')
        /\ \A i \in 1..n : funcs'[i] = funcs[i]
        /\ UNCHANGED <<pc, files, cur, sec>> /\ pc = "function"
    BY <1>9, <1>b, AskedIs
  <2>2. failed' = failed /\ DOMAIN funcs' = 1..(n + 1) /\ cur \notin failed
    BY <1>9, <1>a, <2>1, SequenceIs DEF FuncStart
  <2>3. \A o, k : Of(o, k) \subseteq Of(o, k)'
    BY <1>b, <2>1, <2>2 DEF Of
  <2>4. \A o, k : Walked(o, k) => Walked(o, k)'
    <3> SUFFICES ASSUME NEW o, NEW k, Walked(o, k) PROVE Walked(o, k)'
      OBVIOUS
    <3>1. \A q \in 1..k : files[o.file][o.obj].sections[q].code /\ files[o.file][o.obj].sections[q].size # 0
                          => Of(o, q)' # {}
      BY <2>3 DEF Walked
    <3>2. QED
      BY <2>1, <3>1 DEF Walked
  <2>5. ASSUME NEW i \in 1..(n + 1)
        PROVE  funcs'[i].object \notin failed' /\ SectionOf(funcs[i])'.code
    <3>1. CASE i = n + 1
      <4>1. funcs'[i].object = cur /\ funcs'[i].section = sec
        BY <2>1, <3>1 DEF Asked
      <4>2. SectionOf(funcs[i])' = Section
        BY <2>1, <4>1 DEF SectionOf, Section, Object, File
      <4>3. QED
        BY <2>1, <2>2, <4>1, <4>2 DEF CoverInv
    <3>2. CASE i \in 1..n
      BY <1>b, <2>1, <2>2, <3>2 DEF CoverInv, SectionOf
    <3>3. QED
      BY <3>1, <3>2
  <2>6. Section' = Section /\ File' = File /\ \A j : ObjectAt(j)' = ObjectAt(j)
    BY <2>1 DEF Section, Object, File, ObjectAt
  <2>7. QED
    BY <2>1, <2>2, <2>4, <2>5, <2>6 DEF CoverInv, Behind
<1>10. CASE SectionEnd
  <2>1. /\ UNCHANGED <<files, cur, funcs, failed, sec, addr_offset>>
        /\ pc = "function" /\ pc' = "section" /\ addr_offset >= Section.size
    BY <1>10 DEF SectionEnd, walk
  <2>2. addr_offset # 0 /\ sec > 0
    BY <2>1, ObjectIs DEF PlaceInv, Section
  <2>3. Of(cur, sec) # {}
    <3>1. n # 0 /\ Place(n) = <<cur, sec>>
      BY <1>b, <2>1, <2>2 DEF TilesInv
    <3>2. n \in Of(cur, sec)
      BY <1>b, <3>1 DEF Of, Place
    <3>3. QED
      BY <3>2
  <2>4. Walked(cur, sec)
    <3>1. Walked(cur, sec - 1)
      BY <2>1 DEF CoverInv
    <3>2. \A k \in 1..sec : k \in 1..(sec - 1) \/ k = sec
      BY <1>0
    <3>3. QED
      BY <2>3, <3>1, <3>2 DEF Walked
  <2>5. QED
    BY <1>a, <2>1, <2>4, CoverKept
<1>11. CASE DataEnd
  BY <1>11, <1>a, CoverKept DEF DataEnd, CoverInv
<1>12. CASE FreeTables
  <2>1. pc = "free" /\ pc' = "object" /\ cur' = [cur EXCEPT !.obj = @ + 1] /\ UNCHANGED <<files, funcs, failed>>
    BY <1>12 DEF FreeTables
  <2>2. cur' # cur
    BY <1>0, <2>1
  <2>3. cur \notin failed => Walked(cur, Len(Object.sections))
    BY <2>1 DEF CoverInv
  <2>4. QED
    BY <2>1, <2>2, <2>3, CoverKept
<1>13. CASE UNCHANGED vars
  <2>1. UNCHANGED <<files, funcs, failed, pc, cur, sec>>
    BY <1>13 DEF vars, walk
  <2>2. Section' = Section /\ Object' = Object /\ File' = File /\ \A j : ObjectAt(j)' = ObjectAt(j)
    BY <2>1 DEF Section, Object, File, ObjectAt
  <2>3. \A o, k : Walked(o, k)' = Walked(o, k)
    BY <2>1, WalkedKept
  <2>4. \A i : SectionOf(funcs[i])' = SectionOf(funcs[i])
    BY <2>1 DEF SectionOf
  <2>5. QED
    BY <2>1, <2>2, <2>3, <2>4 DEF CoverInv, Behind
<1>14. QED
  BY <1>2, <1>3, <1>5, <1>6, <1>7, <1>8, <1>9, <1>10, <1>11, <1>12, <1>13 DEF Next

-----------------------------------------------------------------------------
LEMMA WalkStarts == Init => PlaceInv /\ SymsInv /\ FuncsInv /\ TilesInv /\ CoverInv
<1> SUFFICES ASSUME Init PROVE PlaceInv /\ SymsInv /\ FuncsInv /\ TilesInv /\ CoverInv
  OBVIOUS
<1>1. Len(funcs) = 0 /\ IsSeq(funcs)
  <2>1. funcs = <<>>
    BY DEF Init
  <2>2. QED
    BY <2>1 DEF IsSeq, Range
<1>2. PlaceInv
  BY DEF Init, PlaceInv
<1>3. SymsInv
  BY DEF Init, SymsInv
<1>4. FuncsInv
  BY <1>1 DEF FuncsInv
<1>5. TilesInv
  BY <1>1 DEF Init, TilesInv
<1>6. CoverInv
  BY <1>1 DEF Init, CoverInv
<1>7. QED
  BY <1>2, <1>3, <1>4, <1>5, <1>6

LEMMA WalkKeeps ==
    PlaceInv /\ SymsInv /\ FuncsInv /\ TilesInv /\ CoverInv /\ [Next]_vars =>
        (PlaceInv /\ SymsInv /\ FuncsInv /\ TilesInv /\ CoverInv)'
BY PlaceStep, SymsStep, FuncsStep, TilesStep, CoverStep

(* The walk divides every section it has finished, of every layout and      *)
(* whatever symbols there are: no address is in two functions of a section, *)
(* none in no function, and the functions of a section follow each other.   *)
THEOREM SectionsAreDivided == Spec => []Tiled
<1>1. FuncsInv /\ TilesInv => Divided
  <2> SUFFICES ASSUME FuncsInv, TilesInv, NEW i \in DOMAIN funcs
               PROVE  LET f == funcs[i]
                          c == files[f.object.file][f.object.obj].sections[f.section]
                          S == Of(f.object, f.section)
                          done == f.object # cur \/ f.section # sec \/ pc # "function"
                      IN  /\ f.start < f.end
                          /\ f.start = (IF i = Min(S) THEN c.vma ELSE funcs[i-1].end)
                          /\ done /\ i = Max(S) => f.end = c.vma + c.size
                          /\ i # Min(S) => i - 1 \in S
    BY DEF Divided
  <2> DEFINE f == funcs[i]
             S == Of(f.object, f.section)
             c == files[f.object.file][f.object.obj].sections[f.section]
             follows == i > 1 /\ Place(i-1) = Place(i)
  <2>1. PICK n \in Nat : n = Len(funcs) /\ DOMAIN funcs = 1..n
    BY SequenceIs DEF FuncsInv
  <2>2. i \in 1..n /\ SectionOf(f) = c
    BY <2>1 DEF SectionOf
  <2>3. \A k : k \in S <=> k \in 1..n /\ Place(k) = Place(i)
    BY <2>1 DEF Of, Place
  <2>4. i \in S /\ S \subseteq 1..n /\ S \subseteq Nat
    BY <2>2, <2>3
  <2>5. /\ f.start < f.end
        /\ f.start = IF follows THEN funcs[i-1].end ELSE c.vma
        /\ \/ i < n /\ Place(i+1) = Place(i)
           \/ pc = "function" /\ Place(i) = <<cur, sec>>
           \/ f.end = c.vma + c.size
    BY <2>1, <2>2 DEF TilesInv
  <2> HIDE DEF S, f, c
  <2>6. follows => i - 1 \in S /\ i # Min(S)
    <3> SUFFICES ASSUME follows PROVE i - 1 \in S /\ i # Min(S)
      OBVIOUS
    <3>1. i - 1 \in S
      BY <2>2, <2>3
    <3>2. Min(S) \in Nat /\ Min(S) <= i - 1
      BY <2>4, <3>1, MinOf
    <3>3. QED
      BY <2>2, <3>1, <3>2
  <2>7. ~ follows => i = Min(S)
    <3> SUFFICES ASSUME ~ follows PROVE i = Min(S)
      OBVIOUS
    <3>1. ASSUME NEW k \in S, k < i PROVE FALSE
      <4>1. k \in 1..n /\ Place(k) = Place(i) /\ i - 1 \in 1..n
        BY <2>2, <2>3, <3>1
      <4>2. k = i - 1 \/ k < i - 1
        BY <2>2, <3>1, <4>1
      <4>3. Place(i - 1) = Place(i)
        BY <2>1, <2>2, <4>1, <4>2 DEF TilesInv
      <4>4. QED
        BY <2>2, <3>1, <4>1, <4>3
    <3>2. \A k \in S : i <= k
      BY <2>2, <2>4, <3>1
    <3>3. QED
      BY <2>4, <3>2, MinIs
  <2>8. i = Max(S) => ~ (i < n /\ Place(i+1) = Place(i))
    <3> SUFFICES ASSUME i = Max(S), i < n, Place(i+1) = Place(i) PROVE FALSE
      OBVIOUS
    <3>1. i + 1 \in S
      BY <2>2, <2>3
    <3>2. i + 1 <= i
      BY <2>4, <3>1, MaxOf
    <3>3. QED
      BY <2>2, <3>2
  <2>9. Place(i) = <<cur, sec>> => f.object = cur /\ f.section = sec
    BY DEF Place, f
  <2> HIDE DEF follows
  <2>10. /\ f.start < f.end
         /\ f.start = (IF i = Min(S) THEN c.vma ELSE funcs[i-1].end)
         /\ (f.object # cur \/ f.section # sec \/ pc # "function") /\ i = Max(S) => f.end = c.vma + c.size
         /\ i # Min(S) => i - 1 \in S
    BY <2>5, <2>6, <2>7, <2>8, <2>9
  <2>11. QED
    BY <2>10 DEF S, f, c
<1>2. CoverInv => NoneLeftOut
  BY DEF CoverInv, NoneLeftOut, ObjectAt
<1>3. FuncsInv /\ TilesInv /\ CoverInv => Tiled
  BY <1>1, <1>2 DEF Tiled
<1>4. QED
  BY <1>3, WalkStarts, WalkKeeps, PTL DEF Spec

(* No function is named by a symbol of another object, through any sequence *)
(* of files and archives, of objects libbfd does not recognise and of       *)
(* tables it cannot read: the static tables never outlive their object.     *)
THEOREM NamedByTheirObject == Spec => []OwnSymbols
<1>1. FuncsInv => OwnSymbols
  <2>1. FuncsInv => DOMAIN funcs = 1..Len(funcs)
    BY SequenceIs DEF FuncsInv
  <2>2. QED
    BY <2>1 DEF FuncsInv, OwnSymbols, Own
<1>2. QED
  BY <1>1, WalkStarts, WalkKeeps, PTL DEF Spec

-----------------------------------------------------------------------------
(* The sorted table with n symbols. *)
Table(n) ==
    /\ IsSeq(sorted_syms) /\ n = Len(sorted_syms) /\ DOMAIN sorted_syms = 1..n
    /\ \A i \in 1..n : Value(i) \in Nat /\ sorted_syms[i].rank \in Nat
    /\ \A i, j \in 1..n : i <= j => Value(i) <= Value(j)
    /\ \A i, j \in 1..n : Value(i) = Value(j) /\ sorted_syms[i].section = sorted_syms[j].section =>
          /\ i <= j => sorted_syms[i].rank <= sorted_syms[j].rank
          /\ sorted_syms[i].rank = sorted_syms[j].rank => sorted_syms[i] = sorted_syms[j]

(* i is the first symbol of section c with the greatest value that is not   *)
(* above a, the first of all when there is none.                            *)
Nearest(i, a, c) ==
    /\ i \in InSec(c)
    /\ \A k \in InSec(c) : Value(k) = Value(i) => i <= k
    /\ \/ Value(i) <= a /\ \A k \in InSec(c) : Value(k) <= a => Value(k) <= Value(i)
       \/ \A k \in InSec(c) : a < Value(k) /\ Value(i) <= Value(k)

SortInv ==
    pc \in {"section", "function"} =>
        \A i, j \in 1..Len(sorted_syms) : i < j => ~compare_symbols(sorted_syms[j], sorted_syms[i])

(* As long as there is code left, sym is the nearest symbol of where the    *)
(* walk is, and place is there.                                             *)
NamesInv ==
    pc = "function" =>
        /\ \A i \in 1..Len(funcs) : funcs[i].object = cur /\ funcs[i].section = sec =>
              \A a \in funcs[i].start .. funcs[i].end - 1 :
                  funcs[i].sym = SymbolOf(Range(sorted_syms), a, sec)
        /\ addr_offset < Section.size =>
              \/ sym = 0 /\ InSec(sec) = {}
              \/ sym # 0 /\ Nearest(sym, addr, sec) /\ place = sym

-----------------------------------------------------------------------------
(* The binary search.  The function it is written as exists, as each range  *)
(* is given the result of a smaller one: were there a size up to which no   *)
(* function did so, the least would be one more than a size with a function, *)
(* which gives one for it.                                                  *)
LEMMA Middle ==
    ASSUME NEW a \in Nat, NEW b \in Nat, a + 1 < b
    PROVE  LET m == (a + b) \div 2 IN m \in Nat /\ a < m /\ m < b
OBVIOUS

Halved(b, r, v) ==
    LET thisplace == (r[1] + r[2]) \div 2
    IN  IF r[1] + 1 >= r[2] THEN r
        ELSE IF Value(thisplace) > v THEN b[<<r[1], thisplace>>]
        ELSE IF Value(thisplace) < v THEN b[<<thisplace, r[2]>>]
        ELSE <<thisplace, r[2]>>

LEMMA SearchEnds ==
    ASSUME NEW n \in Nat, NEW v
    PROVE  \E b : b = [r \in (1..n) \X (1..n+1) |-> Halved(b, r, v)]
<1> DEFINE D(k) == {r \in (1..n) \X (1..n+1) : r[2] <= r[1] + k}
           E(k) == \E b : b = [r \in D(k) |-> Halved(b, r, v)]
           Bad  == {k \in Nat : ~ E(k)}
<1>1. E(0)
  <2> DEFINE b == [r \in D(0) |-> r]
  <2>1. ASSUME NEW r \in D(0) PROVE Halved(b, r, v) = r
    BY DEF Halved
  <2>2. b = [r \in D(0) |-> Halved(b, r, v)]
    BY <2>1
  <2>3. QED
    BY <2>2
<1>2. ASSUME NEW k \in Nat, E(k) PROVE E(k + 1)
  <2>1. PICK b : b = [r \in D(k) |-> Halved(b, r, v)]
    BY <1>2
  <2> DEFINE c == [r \in D(k + 1) |-> Halved(b, r, v)]
  <2>2. ASSUME NEW r \in D(k) PROVE r \in D(k + 1) /\ c[r] = b[r]
    <3>1. r \in D(k + 1)
      OBVIOUS
    <3>2. c[r] = Halved(b, r, v)
      BY <3>1
    <3>3. b[r] = Halved(b, r, v)
      BY <2>1
    <3>4. QED
      BY <3>1, <3>2, <3>3
  <2> HIDE DEF c
  <2>3. ASSUME NEW r \in D(k + 1) PROVE Halved(c, r, v) = Halved(b, r, v)
    <3>1. CASE r[1] + 1 >= r[2]
      BY <3>1 DEF Halved
    <3>2. CASE ~ (r[1] + 1 >= r[2])
      <4> DEFINE m == (r[1] + r[2]) \div 2
      <4>1. r[1] \in 1..n /\ r[2] \in 1..n+1 /\ r[2] <= r[1] + (k + 1) /\ r[1] + 1 < r[2]
        BY <3>2
      <4>2. m \in Nat /\ r[1] < m /\ m < r[2]
        BY <4>1, Middle
      <4> HIDE DEF m
      <4>3. <<r[1], m>> \in D(k) /\ <<m, r[2]>> \in D(k)
        BY <4>1, <4>2
      <4>4. c[<<r[1], m>>] = b[<<r[1], m>>] /\ c[<<m, r[2]>>] = b[<<m, r[2]>>]
        BY <2>2, <4>3
      <4>5. QED
        BY <4>4 DEF Halved, m
    <3>3. QED
      BY <3>1, <3>2
  <2>4. c = [r \in D(k + 1) |-> Halved(c, r, v)]
    BY <2>3 DEF c
  <2>5. QED
    BY <2>4
<1> HIDE DEF E
<1>3. Bad = {}
  <2> SUFFICES ASSUME Bad # {} PROVE FALSE
    OBVIOUS
  <2>1. PICK k \in Bad : \A j \in Bad : k <= j
    BY LeastOf
  <2>2. k \in Nat /\ ~ E(k) /\ k # 0
    BY <1>1
  <2>3. k - 1 \in Nat /\ k - 1 \notin Bad
    BY <2>1, <2>2
  <2>4. E(k - 1 + 1)
    BY <1>2, <2>3
  <2>5. QED
    BY <2>2, <2>4
<1>4. E(n)
  BY <1>3
<1>5. D(n) = (1..n) \X (1..n+1)
  OBVIOUS
<1>6. QED
  BY <1>4, <1>5 DEF E

(* The range the search ends with: no value is above v before it unless it  *)
(* begins the table, all behind it are.                                     *)
LEMMA SearchIs ==
    ASSUME NEW n \in Nat, n # 0, Table(n), NEW v \in Nat
    PROVE  LET r == Search(v)
           IN  /\ r[1] \in 1..n /\ r[2] \in 1..n+1 /\ r[1] < r[2]
               /\ \A i \in 1..n : r[2] <= i => v < Value(i)
               /\ r[1] = 1 \/ Value(r[1]) <= v
               /\ r[1] + 1 = r[2] \/ Value(r[1]) = v
<1> DEFINE Dom == (1..n) \X (1..n+1)
           bs[r \in (1..Len(sorted_syms)) \X (1..Len(sorted_syms)+1)] ==
               LET thisplace == (r[1] + r[2]) \div 2
               IN  IF r[1] + 1 >= r[2] THEN r
                   ELSE IF Value(thisplace) > v THEN bs[<<r[1], thisplace>>]
                   ELSE IF Value(thisplace) < v THEN bs[<<thisplace, r[2]>>]
                   ELSE <<thisplace, r[2]>>
<1>0. n = Len(sorted_syms)
  BY DEF Table
<1>1. Search(v) = bs[<<1, n + 1>>]
  BY <1>0 DEF Search
<1>2. bs = CHOOSE b : b = [r \in Dom |-> Halved(b, r, v)]
  BY <1>0 DEF Halved
<1>3. bs = [r \in Dom |-> Halved(bs, r, v)]
  BY <1>2, SearchEnds
<1>T. /\ \A i \in 1..n : Value(i) \in Nat
      /\ \A i, j \in 1..n : i <= j => Value(i) <= Value(j)
  BY DEF Table
<1> HIDE DEF bs
<1>4. \A r \in Dom : bs[r] = Halved(bs, r, v)
  BY <1>3
<1> DEFINE Before(r) == /\ r[1] < r[2]
                        /\ \A i \in 1..n : r[2] <= i => v < Value(i)
                        /\ r[1] = 1 \/ Value(r[1]) <= v
           Ended(r)  == r[1] + 1 = r[2] \/ Value(r[1]) = v
           Bad == {d \in Nat : \E r \in Dom : r[2] = r[1] + d /\ Before(r)
                                   /\ ~ (bs[r] \in Dom /\ Before(bs[r]) /\ Ended(bs[r]))}
<1>5. Bad = {}
  <2> SUFFICES ASSUME Bad # {} PROVE FALSE
    OBVIOUS
  <2>1. PICK d \in Bad : \A e \in Bad : d <= e
    BY LeastOf
  <2>2. PICK r \in Dom : r[2] = r[1] + d /\ Before(r)
                         /\ ~ (bs[r] \in Dom /\ Before(bs[r]) /\ Ended(bs[r]))
    BY <2>1
  <2>3. r[1] \in 1..n /\ r[2] \in 1..n+1 /\ d \in Nat
    BY <2>1
  <2>4. CASE r[1] + 1 >= r[2]
    <3>1. bs[r] = r
      BY <1>4, <2>4 DEF Halved
    <3>2. Ended(r)
      BY <2>2, <2>3, <2>4
    <3>3. QED
      BY <2>2, <3>1, <3>2
  <2>5. CASE ~ (r[1] + 1 >= r[2])
    <3> DEFINE m == (r[1] + r[2]) \div 2
               left == <<r[1], m>>
               right == <<m, r[2]>>
    <3>1. m \in Nat /\ r[1] < m /\ m < r[2]
      BY <2>3, <2>5, Middle
    <3>2. bs[r] = IF Value(m) > v THEN bs[left] ELSE IF Value(m) < v THEN bs[right] ELSE right
      BY <1>4, <2>5 DEF Halved
    <3> HIDE DEF m
    <3>3. m \in 1..n /\ Value(m) \in Nat /\ left \in Dom /\ right \in Dom
      <4>1. m \in 1..n
        BY <2>3, <3>1
      <4>2. Value(m) \in Nat
        BY <1>T, <4>1
      <4>3. m \in 1..n+1
        BY <4>1
      <4>4. QED
        BY <2>3, <4>1, <4>2, <4>3
    <3>4. ASSUME NEW s \in Dom, Before(s), NEW e \in Nat, s[2] = s[1] + e, e < d
          PROVE  bs[s] \in Dom /\ Before(bs[s]) /\ Ended(bs[s])
      <4>1. e \notin Bad
        BY <2>1, <2>3, <3>4
      <4>2. QED
        BY <3>4, <4>1
    <3>5. CASE Value(m) > v
      <4>1. ASSUME NEW i \in 1..n, m <= i PROVE v < Value(i)
        <5>1. Value(m) <= Value(i) /\ Value(i) \in Nat
          BY <1>T, <3>3, <4>1
        <5>2. QED
          BY <3>3, <3>5, <5>1
      <4>2. Before(left)
        BY <2>2, <3>1, <4>1
      <4>3. left[2] = left[1] + (m - r[1]) /\ m - r[1] \in Nat /\ m - r[1] < d
        BY <2>2, <2>3, <3>1
      <4>4. bs[left] \in Dom /\ Before(bs[left]) /\ Ended(bs[left])
        BY <3>3, <3>4, <4>2, <4>3
      <4>5. QED
        BY <2>2, <3>2, <3>5, <4>4
    <3>6. CASE Value(m) < v
      <4>1. Value(m) <= v
        BY <3>3, <3>6
      <4>2. Before(right)
        BY <2>2, <3>1, <4>1
      <4>3. right[2] = right[1] + (r[2] - m) /\ r[2] - m \in Nat /\ r[2] - m < d
        BY <2>2, <2>3, <3>1
      <4>4. bs[right] \in Dom /\ Before(bs[right]) /\ Ended(bs[right])
        BY <3>3, <3>4, <4>2, <4>3
      <4>5. ~ (Value(m) > v)
        BY <3>3, <3>6
      <4>6. QED
        BY <2>2, <3>2, <3>6, <4>4, <4>5
    <3>7. CASE Value(m) = v
      <4>1. bs[r] = right
        BY <3>2, <3>3, <3>7
      <4>2. Before(right) /\ Ended(right)
        BY <2>2, <3>1, <3>3, <3>7
      <4>3. QED
        BY <2>2, <3>3, <4>1, <4>2
    <3>8. QED
      BY <3>3, <3>5, <3>6, <3>7
  <2>6. QED
    BY <2>4, <2>5
<1>6. <<1, n + 1>> \in Dom /\ Before(<<1, n + 1>>) /\ n \in Nat
  OBVIOUS
<1> DEFINE s == <<1, n + 1>>
<1>7. s[2] = s[1] + n /\ n \notin Bad
  BY <1>5
<1>8. bs[s] \in Dom /\ Before(bs[s]) /\ Ended(bs[s])
  BY <1>6, <1>7
<1>9. QED
  BY <1>1, <1>8

(* What find_symbol_for_address makes of the range: the nearest symbol of   *)
(* the section, or none when the section has none.                          *)
LEMMA FindNearest ==
    ASSUME NEW n \in Nat, Table(n), NEW v \in Nat, NEW c
    PROVE  LET f == find_symbol_for_address(v, c)
           IN  \/ f = 0 /\ InSec(c) = {}
               \/ f # 0 /\ Nearest(f, v, c)
<1> DEFINE M == InSec(c)
           f == find_symbol_for_address(v, c)
<1>1. /\ n = Len(sorted_syms) /\ DOMAIN sorted_syms = 1..n /\ M \subseteq 1..n
      /\ \A i \in 1..n : Value(i) \in Nat
      /\ \A i, j \in 1..n : i <= j => Value(i) <= Value(j)
  BY DEF Table, InSec
<1>2. CASE sorted_syms = <<>>
  <2>1. n = 0 /\ f = 0
    BY <1>1, <1>2 DEF find_symbol_for_address
  <2>2. QED
    BY <1>1, <2>1
<1>3. CASE sorted_syms # <<>>
  <2> DEFINE r      == Search(v)
             same   == {i \in 1..r[2]-1 : Value(i) = Value(r[1])}
             here   == same \cap M
             before == {i \in M : i <= Max(same)}
             after  == {i \in M : i > Min(same)}
  <2>1. f = IF here # {} THEN Min(here)
            ELSE IF before # {} THEN FirstBelow(before)
            ELSE IF after # {} THEN Min(after)
            ELSE 0
    BY <1>3 DEF find_symbol_for_address
  <2>2. n # 0
    <3>1. sorted_syms \in Seq(Range(sorted_syms))
      BY DEF Table, IsSeq
    <3>2. QED
      BY <1>1, <1>3, <3>1
  <2>3. /\ r[1] \in 1..n /\ r[2] \in 1..n+1 /\ r[1] < r[2]
        /\ \A i \in 1..n : r[2] <= i => v < Value(i)
        /\ r[1] = 1 \/ Value(r[1]) <= v
        /\ r[1] + 1 = r[2] \/ Value(r[1]) = v
    BY <2>2, SearchIs
  <2>a. PICK p \in 1..n, q \in 1..n+1 : p = r[1] /\ q = r[2]
    BY <2>3
  <2>b. /\ p < q
        /\ \A i \in 1..n : q <= i => v < Value(i)
        /\ p = 1 \/ Value(p) <= v
        /\ p + 1 = q \/ Value(p) = v
    BY <2>3, <2>a
  <2>c. same = {i \in 1..q-1 : Value(i) = Value(p)}
    BY <2>a
  <2> HIDE DEF r, M, f, same
  <2>4. same \subseteq 1..n /\ p \in same
    BY <2>b, <2>c
  <2>5. PICK lo, hi \in 1..n :
          /\ lo = Min(same) /\ hi = Max(same) /\ lo \in same /\ hi \in same
          /\ \A i \in same : lo <= i /\ i <= hi
    <3>1. same # {}
      BY <2>4
    <3>2. PICK x \in same : x \in 1..n /\ x = Min(same) /\ \A i \in same : x <= i
      BY <2>4, <3>1, LeastIn
    <3>3. PICK y \in same : y \in 1..n /\ y = Max(same) /\ \A i \in same : i <= y
      BY <2>4, <3>1, LeastIn
    <3>4. QED
      BY <3>2, <3>3
  <2>6. /\ before = {i \in M : i <= hi} /\ after = {i \in M : i > lo}
        /\ Value(lo) = Value(p) /\ Value(hi) = Value(p) /\ lo <= p /\ p <= hi /\ hi < q
    BY <2>b, <2>c, <2>4, <2>5
  <2>7. \A i \in 1..n : i \in same <=> i < q /\ Value(i) = Value(p)
    BY <2>b, <2>c
  <2> HIDE DEF before, after
  <2>8. here \subseteq 1..n /\ before \subseteq 1..n /\ after \subseteq 1..n
    BY <1>1, <2>6
  <2>9. CASE Value(p) <= v
    <3>1. ASSUME NEW k \in 1..n PROVE Value(k) <= v <=> k <= hi
      <4>1. ASSUME k <= hi PROVE Value(k) <= v
        <5>1. Value(k) <= Value(hi)
          BY <1>1, <2>5, <4>1
        <5>2. QED
          BY <1>1, <2>b, <2>6, <2>9, <5>1
      <4>2. ASSUME Value(k) <= v, ~ (k <= hi) PROVE FALSE
        <5>1. k < q
          BY <1>1, <2>b, <4>2
        <5>2. p < k
          BY <2>b, <2>6, <4>2
        <5>3. Value(p) = v
          BY <2>b, <5>1, <5>2
        <5>4. Value(p) <= Value(k)
          BY <1>1, <2>b, <5>2
        <5>5. Value(k) = Value(p)
          BY <1>1, <2>b, <4>2, <5>3, <5>4
        <5>6. QED
          BY <2>5, <2>7, <4>2, <5>1, <5>5
      <4>3. QED
        BY <4>1, <4>2
    <3>2. CASE here # {}
      <4>1. PICK m \in here : m = Min(here) /\ \A k \in here : m <= k
        BY <2>8, <3>2, LeastIn
      <4>2. m \in M /\ m \in 1..n /\ Value(m) = Value(p)
        BY <2>7, <2>8, <4>1
      <4>3. ASSUME NEW k \in M, Value(k) = Value(m) PROVE m <= k
        <5>1. k \in 1..n /\ k <= hi
          BY <1>1, <2>9, <3>1, <4>2, <4>3
        <5>2. k < q
          BY <2>5, <2>6, <5>1
        <5>3. k \in same
          BY <2>7, <4>2, <4>3, <5>1, <5>2
        <5>4. QED
          BY <4>1, <5>3
      <4>4. ASSUME NEW k \in M, Value(k) <= v PROVE Value(k) <= Value(m)
        <5>1. k \in 1..n /\ k <= hi
          BY <1>1, <3>1, <4>4
        <5>2. QED
          BY <1>1, <2>6, <4>2, <5>1
      <4>5. f = m /\ m # 0
        BY <2>1, <3>2, <4>1, <4>2
      <4>6. Nearest(m, v, c)
        BY <2>9, <4>2, <4>3, <4>4 DEF Nearest, M
      <4>7. QED
        BY <4>5, <4>6 DEF f
    <3>3. CASE here = {} /\ before # {}
      <4> DEFINE T == {i \in before : Value(i) = Value(Max(before))}
      <4>1. PICK h \in before : h = Max(before) /\ \A k \in before : k <= h
        BY <2>8, <3>3, LeastIn
      <4>2. T \subseteq 1..n /\ T # {} /\ \A k : k \in T <=> k \in before /\ Value(k) = Value(h)
        BY <2>8, <4>1
      <4>3. FirstBelow(before) = Min(T)
        BY DEF FirstBelow
      <4> HIDE DEF T
      <4>4. PICK m \in T : m = Min(T) /\ \A k \in T : m <= k
        BY <4>2, LeastIn
      <4>5. m \in M /\ m \in 1..n /\ m <= hi /\ Value(m) = Value(h) /\ h \in 1..n
        BY <2>6, <2>8, <4>2, <4>4
      <4>6. ASSUME NEW k \in M, Value(k) = Value(m) PROVE m <= k
        <5>1. k \in 1..n /\ Value(m) <= v
          BY <1>1, <3>1, <4>5
        <5>2. k \in T
          BY <2>6, <3>1, <4>2, <4>5, <4>6, <5>1
        <5>3. QED
          BY <4>4, <5>2
      <4>7. ASSUME NEW k \in M, Value(k) <= v PROVE Value(k) <= Value(m)
        <5>1. k \in 1..n /\ k \in before
          BY <1>1, <2>6, <3>1, <4>7
        <5>2. k <= h
          BY <4>1, <5>1
        <5>3. QED
          BY <1>1, <4>5, <5>1, <5>2
      <4>8. f = m /\ m # 0
        BY <2>1, <3>3, <4>3, <4>4, <4>5
      <4>9. Value(m) <= v
        BY <3>1, <4>5
      <4>10. Nearest(m, v, c)
        BY <4>5, <4>6, <4>7, <4>9 DEF Nearest, M
      <4>11. QED
        BY <4>8, <4>10 DEF f
    <3>4. CASE here = {} /\ before = {}
      <4>1. \A k \in M : k \in 1..n /\ hi < k /\ lo < k /\ ~ (Value(k) <= v)
        BY <1>1, <2>6, <3>1, <3>4
      <4>2. after = M
        BY <2>6, <4>1
      <4>3. CASE M = {}
        BY <2>1, <3>4, <4>2, <4>3 DEF f, M
      <4>4. CASE M # {}
        <5>1. PICK m \in M : m = Min(M) /\ \A k \in M : m <= k
          BY <1>1, <4>4, LeastIn
        <5>2. f = m /\ m # 0
          BY <2>1, <3>4, <4>1, <4>2, <4>4, <5>1
        <5>3. \A k \in M : v < Value(k) /\ Value(m) <= Value(k)
          BY <1>1, <4>1, <5>1
        <5>4. Nearest(m, v, c)
          BY <5>1, <5>3 DEF Nearest, M
        <5>5. QED
          BY <5>2, <5>4 DEF f
      <4>5. QED
        BY <4>3, <4>4
    <3>5. QED
      BY <3>2, <3>3, <3>4
  <2>10. CASE ~ (Value(p) <= v)
    <3>1. p = 1 /\ q = 2 /\ v < Value(1)
      BY <1>1, <2>2, <2>b, <2>10
    <3>2. \A k \in 1..n : v < Value(k) /\ Value(1) <= Value(k)
      BY <1>1, <2>2, <3>1
    <3>3. lo = 1 /\ hi = 1
      BY <2>6, <3>1
    <3>4. \A k \in here : k = 1
      BY <2>7, <2>8, <3>1
    <3>5. CASE here # {}
      <4>1. Min(here) \in here
        BY <2>8, <3>5, EndsIn
      <4>2. f = 1 /\ 1 \in M
        BY <2>1, <3>4, <3>5, <4>1
      <4>3. Nearest(1, v, c)
        BY <1>1, <3>2, <4>2 DEF Nearest, M
      <4>4. QED
        BY <4>2, <4>3 DEF f
    <3>6. CASE here = {}
      <4>1. 1 \in same
        BY <2>5, <3>3
      <4>2. 1 \notin M
        BY <3>6, <4>1
      <4>3. before = {} /\ after = M
        <5>1. ASSUME NEW k \in M PROVE ~ (k <= hi) /\ k > lo
          <6>1. k \in 1..n /\ k # 1
            BY <1>1, <4>2
          <6>2. QED
            BY <3>3, <6>1
        <5>2. QED
          BY <2>6, <5>1
      <4>4. CASE M = {}
        BY <2>1, <3>6, <4>3, <4>4 DEF f, M
      <4>5. CASE M # {}
        <5>1. PICK m \in M : m = Min(M) /\ \A k \in M : m <= k
          BY <1>1, <4>5, LeastIn
        <5>2. f = m /\ m # 0
          BY <1>1, <2>1, <3>6, <4>3, <4>5, <5>1
        <5>3. \A k \in M : v < Value(k) /\ Value(m) <= Value(k)
          BY <1>1, <3>2, <5>1
        <5>4. Nearest(m, v, c)
          BY <5>1, <5>3 DEF Nearest, M
        <5>5. QED
          BY <5>2, <5>4 DEF f
      <4>6. QED
        BY <4>4, <4>5
    <3>7. QED
      BY <3>5, <3>6
  <2>11. QED
    BY <2>9, <2>10
<1>4. QED
  BY <1>2, <1>3

LEMMA MaxIs ==
    ASSUME NEW S, S \subseteq Nat, NEW x \in S, \A y \in S : y <= x
    PROVE  Max(S) = x
<1>1. \E z \in S : \A y \in S : z >= y
  OBVIOUS
<1>2. Max(S) \in S /\ \A y \in S : Max(S) >= y
  BY <1>1 DEF Max
<1>3. PICK m \in S : m = Max(S) /\ \A y \in S : m >= y
  BY <1>2
<1>4. m >= x /\ m <= x /\ m \in Nat /\ x \in Nat
  BY <1>3
<1>5. QED
  BY <1>3, <1>4

(* Of symbols of one section and value the first in the table is the best. *)
LEMMA BestIs ==
    ASSUME NEW n \in Nat, Table(n), NEW c, NEW i \in InSec(c), NEW T,
           \A s : s \in T <=> \E k \in InSec(c) : s = sorted_syms[k] /\ Value(k) = Value(i),
           \A k \in InSec(c) : Value(k) = Value(i) => i <= k
    PROVE  Best(T) = sorted_syms[i]
<1> DEFINE t == sorted_syms[i]
<1>1. InSec(c) \subseteq 1..n /\ \A k \in InSec(c) : sorted_syms[k].section = c
  BY DEF InSec, Table
<1>2. t \in T
  OBVIOUS
<1>3. ASSUME NEW s \in T
      PROVE  /\ t.rank <= s.rank /\ s.rank \in Nat /\ t.rank \in Nat
             /\ s.rank = t.rank => s = t
  <2>1. PICK k \in InSec(c) : s = sorted_syms[k] /\ Value(k) = Value(i)
    OBVIOUS
  <2>2. i <= k /\ k \in 1..n /\ i \in 1..n /\ sorted_syms[k].section = sorted_syms[i].section
    BY <1>1, <2>1
  <2>3. QED
    BY <2>1, <2>2 DEF Table
<1> HIDE DEF t
<1>4. Best(T) \in T /\ \A s \in T : Best(T).rank <= s.rank
  <2>1. \E s \in T : \A u \in T : s.rank <= u.rank
    BY <1>2, <1>3
  <2>2. QED
    BY <2>1 DEF Best
<1>5. Best(T).rank = t.rank
  <2>1. PICK b \in T : b = Best(T)
    BY <1>4
  <2>2. b.rank <= t.rank /\ t.rank <= b.rank /\ b.rank \in Nat /\ t.rank \in Nat
    BY <1>2, <1>3, <1>4, <2>1
  <2>3. QED
    BY <2>1, <2>2
<1>6. QED
  BY <1>3, <1>4, <1>5 DEF t

(* The nearest symbol is the one the address belongs to. *)
LEMMA NearestIs ==
    ASSUME NEW n \in Nat, Table(n), NEW a \in Int, NEW c, NEW i, Nearest(i, a, c)
    PROVE  SymbolOf(Range(sorted_syms), a, c) = sorted_syms[i]
<1> DEFINE S     == Range(sorted_syms)
           mine  == {s \in S : s.section = c /\ s.valid}
           below == {s \in mine : s.value <= a}
           high  == Max({s.value : s \in below})
           low   == Min({s.value : s \in mine})
<1>1. SymbolOf(S, a, c) = IF below # {} THEN Best({s \in below : s.value = high})
                          ELSE IF mine # {} THEN Best({s \in mine : s.value = low})
                          ELSE NULL
  BY DEF SymbolOf
<1>2. \A s : s \in mine <=> \E k \in InSec(c) : s = sorted_syms[k]
  BY DEF Table, Range, InSec
<1>3. /\ InSec(c) \subseteq 1..n /\ i \in InSec(c) /\ \A k \in 1..n : Value(k) \in Nat
      /\ \A k \in InSec(c) : Value(k) = Value(i) => i <= k
      /\ \A k : sorted_syms[k].value = Value(k)
  BY DEF InSec, Table, Nearest, Value
<1> HIDE DEF mine
<1>4. CASE Value(i) <= a
  <2>1. \A k \in InSec(c) : Value(k) <= a => Value(k) <= Value(i)
    <3>1. CASE \A k \in InSec(c) : a < Value(k) /\ Value(i) <= Value(k)
      <4>1. a < Value(i) /\ Value(i) \in Nat
        BY <1>3, <3>1
      <4>2. QED
        BY <1>4, <4>1
    <3>2. QED
      BY <3>1 DEF Nearest
  <2>2. \A s : s \in below <=> \E k \in InSec(c) : s = sorted_syms[k] /\ Value(k) <= a
    BY <1>2, <1>3
  <2> HIDE DEF below
  <2>3. sorted_syms[i] \in below
    BY <1>3, <1>4, <2>2
  <2> DEFINE V == {s.value : s \in below}
  <2>4. ASSUME NEW x \in V PROVE x \in Nat /\ x <= Value(i)
    <3>1. PICK k \in InSec(c) : x = Value(k) /\ Value(k) <= a
      BY <1>3, <2>2
    <3>2. QED
      BY <1>3, <2>1, <3>1
  <2>5. Value(i) \in V
    BY <1>3, <2>3
  <2> HIDE DEF V
  <2>6. Max(V) = Value(i)
    BY <2>4, <2>5, MaxIs
  <2> DEFINE T == {s \in below : s.value = high}
  <2>7. \A s : s \in T <=> \E k \in InSec(c) : s = sorted_syms[k] /\ Value(k) = Value(i)
    BY <1>3, <1>4, <2>2, <2>6 DEF V
  <2> HIDE DEF T
  <2>8. Best(T) = sorted_syms[i]
    BY <1>3, <2>7, BestIs
  <2>9. QED
    BY <1>1, <2>3, <2>8 DEF T
<1>5. CASE ~ (Value(i) <= a)
  <2>1. \A k \in InSec(c) : a < Value(k) /\ Value(i) <= Value(k)
    BY <1>5 DEF Nearest
  <2>2. below = {}
    <3> SUFFICES ASSUME NEW s \in mine, s.value <= a PROVE FALSE
      OBVIOUS
    <3>1. PICK k \in InSec(c) : s = sorted_syms[k]
      BY <1>2
    <3>2. s.value = Value(k) /\ Value(k) \in Nat /\ a < Value(k)
      BY <1>3, <2>1, <3>1
    <3>3. QED
      BY <3>2
  <2> DEFINE V == {s.value : s \in mine}
  <2>3. ASSUME NEW x \in V PROVE x \in Nat /\ Value(i) <= x
    <3>1. PICK k \in InSec(c) : x = Value(k)
      BY <1>2, <1>3
    <3>2. QED
      BY <1>3, <2>1, <3>1
  <2>4. Value(i) \in V
    BY <1>2, <1>3
  <2> HIDE DEF V
  <2>5. Min(V) = Value(i)
    BY <2>3, <2>4, MinIs
  <2> DEFINE T == {s \in mine : s.value = low}
  <2>6. \A s : s \in T <=> \E k \in InSec(c) : s = sorted_syms[k] /\ Value(k) = Value(i)
    BY <1>2, <1>3, <2>5 DEF V
  <2> HIDE DEF T
  <2>7. Best(T) = sorted_syms[i]
    BY <1>3, <2>6, BestIs
  <2>8. mine # {}
    BY <1>2, <1>3
  <2>9. QED
    BY <1>1, <2>2, <2>7, <2>8 DEF T
<1>6. QED
  BY <1>4, <1>5

LEMMA NoneIs ==
    ASSUME NEW n \in Nat, Table(n), NEW a, NEW c, InSec(c) = {}
    PROVE  SymbolOf(Range(sorted_syms), a, c) = NULL
<1> DEFINE mine == {s \in Range(sorted_syms) : s.section = c /\ s.valid}
<1>1. mine = {}
  BY DEF Table, Range, InSec
<1>2. QED
  BY <1>1 DEF SymbolOf

(* The table is sorted and has no two symbols that compare equal. *)
LEMMA TableIs ==
    ASSUME PlaceInv, SymsInv, SortInv, pc \in {"section", "function"}
    PROVE  \E n \in Nat : Table(n)
<1>1. PICK n \in Nat : n = Len(sorted_syms) /\ DOMAIN sorted_syms = 1..n
  BY SequenceIs DEF SymsInv
<1>2. IsSeq(sorted_syms) /\ \A i \in 1..n : sorted_syms[i] \in Own(Object)
  BY <1>1 DEF SymsInv
<1>3. \A s, t \in Own(Object) :
          /\ s.value \in Nat /\ s.section \in Nat /\ s.rank \in Nat
          /\ s.value = t.value /\ s.section = t.section /\ s.rank = t.rank => s = t
  <2>1. cur.file <= Len(files) /\ cur.obj <= Len(File)
    BY DEF PlaceInv
  <2>2. IsObject(Object)
    BY <2>1, FilesAre
  <2>3. QED
    BY <2>2 DEF IsObject, IsSymbol, Own
<1>4. ASSUME NEW i \in 1..n, NEW j \in 1..n
      PROVE  /\ Value(i) \in Nat /\ sorted_syms[i].rank \in Nat
             /\ i <= j => Value(i) <= Value(j)
             /\ Value(i) = Value(j) /\ sorted_syms[i].section = sorted_syms[j].section =>
                   /\ i <= j => sorted_syms[i].rank <= sorted_syms[j].rank
                   /\ sorted_syms[i].rank = sorted_syms[j].rank => sorted_syms[i] = sorted_syms[j]
  <2>1. PICK s, t \in Own(Object) : s = sorted_syms[i] /\ t = sorted_syms[j]
    BY <1>2
  <2>2. i < j => ~ compare_symbols(t, s)
    BY <1>1, <2>1 DEF SortInv
  <2>3. i <= j => i < j \/ i = j
    OBVIOUS
  <2>4. /\ s.value \in Nat /\ s.section \in Nat /\ s.rank \in Nat
        /\ t.value \in Nat /\ t.section \in Nat /\ t.rank \in Nat
        /\ s.value = t.value /\ s.section = t.section /\ s.rank = t.rank => s = t
    BY <1>3
  <2>5. i <= j => /\ s.value <= t.value
                  /\ s.value = t.value /\ s.section = t.section => s.rank <= t.rank
    <3>1. CASE i < j
      BY <2>2, <2>4, <3>1 DEF compare_symbols
    <3>2. CASE i = j
      BY <2>1, <2>4, <3>2
    <3>3. QED
      BY <2>3, <3>1, <3>2
  <2>6. QED
    BY <2>1, <2>4, <2>5 DEF Value
<1>5. QED
  BY <1>1, <1>2, <1>4 DEF Table

LEMMA SortStep == PlaceInv /\ SymsInv /\ SortInv /\ [Next]_vars => SortInv'
<1> SUFFICES ASSUME PlaceInv, SymsInv, SortInv, [Next]_vars PROVE SortInv'
  OBVIOUS
<1>1. CASE disassemble_data
  <2> SUFFICES ASSUME pc' = "section"
               PROVE  \A i, j \in 1..Len(sorted_syms') : i < j =>
                         ~compare_symbols(sorted_syms'[j], sorted_syms'[i])
    BY <1>1 DEF SortInv, disassemble_data
  <2>1. \E S : sorted_syms' \in qsort(S)
    BY <1>1 DEF disassemble_data
  <2>2. \A i, j \in DOMAIN sorted_syms' : i < j => ~compare_symbols(sorted_syms'[j], sorted_syms'[i])
    BY <2>1 DEF qsort
  <2>3. IsSeq(sorted_syms')
    BY SymsStep DEF SymsInv
  <2>4. DOMAIN sorted_syms' = 1..Len(sorted_syms')
    BY <2>3, SequenceIs
  <2>5. QED
    BY <2>2, <2>4
<1>2. CASE ~ disassemble_data
  <2>1. pc' \in {"section", "function"} => sorted_syms' = sorted_syms /\ pc \in {"section", "function"}
    BY <1>2 DEF Next, dumpwrap_load, display_bfd, CloseFile, slurp_symtab, disassemble_section, FuncStart,
                SectionEnd, DataEnd, FreeTables, vars
  <2>2. QED
    BY <2>1 DEF SortInv
<1>3. QED
  BY <1>1, <1>2

(* The nearest symbol of an address is that of the following ones up to the *)
(* next value of the section.                                               *)
LEMMA NearestUpTo ==
    ASSUME NEW n \in Nat, Table(n), NEW a \in Int, NEW b \in Int, a <= b, NEW c, NEW i, Nearest(i, a, c),
           \A k \in InSec(c) : a < Value(k) => b < Value(k)
    PROVE  Nearest(i, b, c)
<1>1. \A k \in InSec(c) : Value(k) \in Nat
  BY DEF Table, InSec
<1>2. i \in InSec(c) /\ Value(i) \in Nat
  BY <1>1 DEF Nearest
<1>3. CASE Value(i) <= a /\ \A k \in InSec(c) : Value(k) <= a => Value(k) <= Value(i)
  <2>1. Value(i) <= b
    BY <1>2, <1>3
  <2>2. \A k \in InSec(c) : Value(k) <= b => Value(k) <= a
    BY <1>1
  <2>3. QED
    BY <1>3, <2>1, <2>2 DEF Nearest
<1>4. CASE \A k \in InSec(c) : a < Value(k) /\ Value(i) <= Value(k)
  BY <1>4 DEF Nearest
<1>5. QED
  BY <1>3, <1>4 DEF Nearest

(* The walk comes to the next value: its first symbol is the nearest then.  *)
LEMMA NearestAt ==
    ASSUME NEW n \in Nat, Table(n), NEW c, NEW m \in InSec(c),
           \A k \in InSec(c) : Value(k) = Value(m) => m <= k
    PROVE  Nearest(m, Value(m), c)
<1>1. \A k \in InSec(c) : Value(k) \in Nat
  BY DEF Table, InSec
<1>2. QED
  BY <1>1 DEF Nearest

(* What the walk passes with the next function, and with which symbol.      *)
LEMMA NextSymbol ==
    ASSUME NEW n \in Nat, Table(n), PlaceInv, SymsInv, pc = "function", addr_offset < Section.size,
           sym # 0, Nearest(sym, addr, sec), place = sym
    PROVE  /\ \A k \in InSec(sec) : addr < Value(k) => Section.vma + nextstop_offset <= Value(k)
           /\ nextstop_offset < Section.size =>
                 /\ nextsym # 0 /\ nextsym \in InSec(sec) /\ Value(nextsym) = Section.vma + nextstop_offset
                 /\ \A k \in InSec(sec) : Value(k) = Value(nextsym) => nextsym <= k
           /\ nextsym # 0 => (IF Ahead THEN place ELSE IF Following = {} THEN Len(sorted_syms) + 1 ELSE nextsym)
                             = nextsym
<1> DEFINE M == InSec(sec)
           stop == nextstop_offset
           k0 == IF nextsym = 0 THEN Section.size ELSE Value(nextsym) - Section.vma
<1>1. /\ Section.vma \in Nat /\ Section.size \in Nat /\ addr_offset \in Nat /\ stop \in Nat
      /\ addr_offset < stop /\ stop <= Section.size
  BY StopIs
<1>2. /\ n = Len(sorted_syms) /\ M \subseteq 1..n /\ \A k \in M : Value(k) \in Nat
      /\ \A i, j \in M : i <= j => Value(i) <= Value(j)
  BY DEF Table, InSec
<1>3. /\ sym \in M /\ \A k \in M : Value(k) = Value(sym) => sym <= k
  BY DEF Nearest
<1>4. stop = IF k0 > Section.size \/ k0 <= addr_offset THEN Section.size ELSE k0
  BY DEF nextstop_offset, Bounded
<1>5. addr = Section.vma + addr_offset /\ addr \in Int
  BY <1>1 DEF addr
<1> HIDE DEF M, stop
<1>6. CASE Ahead
  <2>1. nextsym = sym /\ addr < Value(sym)
    BY <1>2, <1>3, <1>5, <1>6 DEF Ahead, nextsym
  <2>2. \A k \in M : addr < Value(k) /\ Value(sym) <= Value(k)
    BY <1>2, <1>3, <1>5, <2>1 DEF Nearest, M
  <2>3. k0 = Value(sym) - Section.vma /\ k0 \in Int /\ k0 > addr_offset
    BY <1>1, <1>2, <1>3, <1>5, <2>1
  <2> HIDE DEF k0
  <2>4. Section.vma + stop <= Value(sym)
    BY <1>1, <1>2, <1>3, <1>4, <2>3
  <2>5. \A k \in M : Section.vma + stop <= Value(k)
    BY <1>1, <1>2, <1>3, <2>2, <2>4
  <2>6. stop < Section.size => Value(sym) = Section.vma + stop
    BY <1>1, <1>2, <1>3, <1>4, <2>3
  <2>7. QED
    BY <1>3, <1>6, <2>1, <2>5, <2>6 DEF M, stop
<1>7. CASE ~ Ahead
  <2>1. Value(sym) <= addr /\ \A k \in M : Value(k) <= addr => Value(k) <= Value(sym)
    <3>1. Value(sym) \in Nat /\ ~ (Value(sym) > addr)
      BY <1>2, <1>3, <1>7 DEF Ahead
    <3>2. QED
      BY <1>3, <1>5, <3>1 DEF Nearest, M
  <2>2. \A k : k \in Following <=> k \in M /\ Value(k) > Value(sym)
    <3>1. ASSUME NEW k \in M, Value(k) > Value(sym) PROVE k \in place..Len(sorted_syms)
      <4>1. k \in 1..n /\ sym \in 1..n
        BY <1>2, <1>3
      <4>2. ~ (k <= sym)
        BY <1>2, <1>3, <3>1
      <4>3. QED
        BY <1>2, <4>1, <4>2
    <3>2. QED
      BY <3>1 DEF Following, is_valid_next_sym, M
  <2>3. CASE Following = {}
    <3>1. nextsym = 0
      BY <1>7, <2>3 DEF nextsym
    <3>2. stop = Section.size
      BY <1>1, <1>4, <3>1
    <3>3. \A k \in M : ~ (addr < Value(k))
      <4> SUFFICES ASSUME NEW k \in M, addr < Value(k) PROVE FALSE
        OBVIOUS
      <4>1. Value(k) > Value(sym)
        BY <1>2, <1>3, <1>5, <2>1
      <4>2. QED
        BY <2>2, <2>3, <4>1
    <3>4. QED
      BY <1>1, <3>1, <3>2, <3>3 DEF M, stop
  <2>4. CASE Following # {}
    <3>1. Following \subseteq 1..n
      BY <1>2, <2>2
    <3>2. PICK m \in Following : m \in 1..n /\ m = Min(Following) /\ \A k \in Following : m <= k
      BY <2>4, <3>1, LeastIn
    <3>3. nextsym = m /\ m # 0 /\ m \in M /\ Value(m) > Value(sym) /\ Value(m) \in Nat
      BY <1>2, <1>7, <2>2, <2>4, <3>2 DEF nextsym
    <3>4. \A k \in M : Value(k) = Value(m) => m <= k
      BY <2>2, <3>2, <3>3
    <3>5. addr < Value(m)
      <4>1. ~ (Value(m) <= addr)
        <5>1. Value(sym) \in Nat
          BY <1>2, <1>3
        <5>2. QED
          BY <2>1, <3>3, <5>1
      <4>2. QED
        BY <1>5, <3>3, <4>1
    <3>6. ASSUME NEW k \in M, addr < Value(k) PROVE Value(m) <= Value(k)
      <4>1. Value(k) > Value(sym)
        BY <1>2, <1>3, <1>5, <2>1, <3>6
      <4>2. QED
        BY <1>2, <2>2, <3>2, <3>3, <4>1
    <3>7. k0 = Value(m) - Section.vma /\ k0 \in Int /\ k0 > addr_offset
      BY <1>1, <1>5, <3>3, <3>5
    <3> HIDE DEF k0
    <3>8. Section.vma + stop <= Value(m) /\ (stop < Section.size => Value(m) = Section.vma + stop)
      BY <1>1, <1>4, <3>3, <3>7
    <3>9. \A k \in M : addr < Value(k) => Section.vma + stop <= Value(k)
      BY <1>1, <1>2, <3>3, <3>6, <3>8
    <3>10. QED
      BY <1>7, <2>4, <3>3, <3>4, <3>8, <3>9 DEF M, stop
  <2>5. QED
    BY <2>3, <2>4
<1>8. QED
  BY <1>6, <1>7

LEMMA NamesStep ==
    PlaceInv /\ SymsInv /\ FuncsInv /\ SortInv /\ NamesInv /\ [Next]_vars => NamesInv'
<1> SUFFICES ASSUME PlaceInv, SymsInv, FuncsInv, SortInv, NamesInv, [Next]_vars, pc' = "function"
             PROVE  NamesInv'
  BY DEF NamesInv
<1>0. PICK l \in Nat : l = Len(funcs)
  BY SequenceIs DEF FuncsInv
<1>1. CASE disassemble_section
  <2>1. /\ UNCHANGED <<funcs, files, cur, sorted_syms>> /\ pc = "section" /\ sec' = sec + 1
        /\ addr_offset' = 0
        /\ sym' = find_symbol_for_address(Object.sections[sec + 1].vma, sec + 1)
        /\ place' = IF sym' = 0 THEN 1 ELSE sym'
        /\ sec < Len(Object.sections)
    BY <1>1 DEF disassemble_section
  <2>2. ASSUME NEW i \in 1..l, funcs[i].object = cur, funcs[i].section = sec + 1 PROVE FALSE
    <3>1. Passed(i) /\ cur \in [file : Nat, obj : Nat] /\ sec \in Nat
      BY <1>0 DEF FuncsInv, PlaceInv
    <3>2. QED
      BY <2>2, <3>1 DEF Passed
  <2>3. PICK n \in Nat : Table(n)
    BY <2>1, TableIs
  <2>4. Object.sections[sec + 1].vma \in Nat
    <3>1. sec + 1 \in 1..Len(Object.sections)
      BY <2>1, ObjectIs DEF PlaceInv
    <3>2. QED
      BY <2>1, <3>1, ObjectIs
  <2>5. Section' = Object.sections[sec + 1] /\ addr' = Object.sections[sec + 1].vma
    <3>1. Section' = Object.sections[sec + 1]
      BY <2>1 DEF Section, Object, File
    <3>2. QED
      BY <2>1, <2>4, <3>1 DEF addr
  <2>6. \/ sym' = 0 /\ InSec(sec + 1) = {}
        \/ sym' # 0 /\ Nearest(sym', addr', sec + 1)
    BY <2>1, <2>3, <2>4, <2>5, FindNearest
  <2>7. \/ sym' = 0 /\ InSec(sec)' = {}
        \/ sym' # 0 /\ Nearest(sym, addr, sec)' /\ place' = sym'
    <3>1. InSec(sec)' = InSec(sec + 1) /\ \A k : Value(k)' = Value(k)
      BY <2>1 DEF InSec, Value
    <3>2. Nearest(sym', addr', sec + 1) => Nearest(sym, addr, sec)'
      BY <2>1, <3>1 DEF Nearest
    <3>3. QED
      BY <2>1, <2>6, <3>1, <3>2
  <2>8. QED
    BY <1>0, <2>1, <2>2, <2>7 DEF NamesInv
<1>2. CASE FuncStart
  <2>1. /\ Len(funcs') = l + 1 /\ funcs'[l + 1] = Asked
        /\ \A i \in 1..l : funcs'[i] = funcs[i]
        /\ UNCHANGED <<pc, files, cur, sec>> /\ pc = "function"
        /\ addr_offset' = nextstop_offset /\ addr_offset < Section.size
    BY <1>0, <1>2, AskedIs
  <2>2. /\ sorted_syms' = sorted_syms /\ sym' = nextsym
        /\ place' = IF sym = 0 \/ Ahead THEN place
                    ELSE IF Following = {} THEN Len(sorted_syms) + 1 ELSE nextsym
    BY <1>2 DEF FuncStart
  <2>3. PICK n \in Nat : Table(n)
    BY <2>1, TableIs
  <2>4. /\ Section.vma \in Nat /\ Section.size \in Nat /\ addr_offset \in Nat /\ nextstop_offset \in Nat
    BY <2>1, StopIs
  <2>5. \/ sym = 0 /\ InSec(sec) = {}
        \/ sym # 0 /\ Nearest(sym, addr, sec) /\ place = sym
    BY <2>1 DEF NamesInv
  <2>6. ASSUME NEW a \in addr .. (Section.vma + nextstop_offset) - 1
        PROVE  Asked.sym = SymbolOf(Range(sorted_syms), a, sec)
    <3>1. Asked.sym = IF sym = 0 THEN NULL ELSE sorted_syms[sym]
      BY DEF Asked
    <3>2. CASE sym = 0
      <4>1. InSec(sec) = {}
        BY <2>5, <3>2
      <4>2. QED
        BY <2>3, <3>1, <3>2, <4>1, NoneIs
    <3>3. CASE sym # 0
      <4>1. Nearest(sym, addr, sec) /\ place = sym
        BY <2>5, <3>3
      <4>2. \A k \in InSec(sec) : addr < Value(k) => Section.vma + nextstop_offset <= Value(k)
        BY <2>1, <2>3, <3>3, <4>1, NextSymbol
      <4>3. addr \in Int /\ a \in Int /\ addr <= a /\ a < Section.vma + nextstop_offset
        BY <2>4 DEF addr
      <4>4. \A k \in InSec(sec) : Value(k) \in Nat
        BY <2>3 DEF Table, InSec
      <4>5. \A k \in InSec(sec) : addr < Value(k) => a < Value(k)
        BY <2>4, <4>2, <4>3, <4>4
      <4>6. Nearest(sym, a, sec)
        BY <2>3, <4>1, <4>3, <4>5, NearestUpTo
      <4>7. QED
        BY <2>3, <3>1, <3>3, <4>3, <4>6, NearestIs
    <3>4. QED
      BY <3>2, <3>3
  <2>7. ASSUME NEW i \in 1..(l + 1), funcs'[i].object = cur, funcs'[i].section = sec,
               NEW a \in funcs'[i].start .. funcs'[i].end - 1
        PROVE  funcs'[i].sym = SymbolOf(Range(sorted_syms), a, sec)
    <3>1. CASE i = l + 1
      <4>1. funcs'[i] = Asked /\ Asked.start = addr /\ Asked.end = Section.vma + nextstop_offset
        BY <2>1, <3>1 DEF Asked
      <4>2. a \in addr .. (Section.vma + nextstop_offset) - 1
        BY <2>7, <4>1
      <4>3. Asked.sym = SymbolOf(Range(sorted_syms), a, sec)
        BY <2>6, <4>2, Zenon
      <4>4. QED
        BY <4>1, <4>3, Zenon
    <3>2. CASE i \in 1..l
      BY <1>0, <2>1, <2>7, <3>2 DEF NamesInv
    <3>3. QED
      BY <3>1, <3>2
  <2>8. Section' = Section /\ addr' = Section.vma + nextstop_offset
    BY <2>1 DEF Section, Object, File, addr
  <2>9. ASSUME nextstop_offset < Section.size
        PROVE  \/ nextsym = 0 /\ InSec(sec) = {}
               \/ nextsym # 0 /\ Nearest(nextsym, addr', sec) /\ place' = nextsym
    <3>1. CASE sym = 0
      BY <2>5, <3>1 DEF nextsym
    <3>2. CASE sym # 0
      <4>1. Nearest(sym, addr, sec) /\ place = sym
        BY <2>5, <3>2
      <4>2. /\ nextsym # 0 /\ nextsym \in InSec(sec) /\ Value(nextsym) = Section.vma + nextstop_offset
            /\ \A k \in InSec(sec) : Value(k) = Value(nextsym) => nextsym <= k
            /\ (IF Ahead THEN place ELSE IF Following = {} THEN Len(sorted_syms) + 1 ELSE nextsym) = nextsym
        BY <2>1, <2>3, <2>9, <3>2, <4>1, NextSymbol
      <4>3. Nearest(nextsym, addr', sec)
        BY <2>3, <2>8, <4>2, NearestAt
      <4>4. place' = nextsym
        BY <2>2, <3>2, <4>2
      <4>5. QED
        BY <4>2, <4>3, <4>4
    <3>3. QED
      BY <3>1, <3>2
  <2>10. InSec(sec)' = InSec(sec) /\ \A k : Value(k)' = Value(k)
    BY <2>1, <2>2 DEF InSec, Value
  <2>11. Nearest(nextsym, addr', sec) => Nearest(sym, addr, sec)'
    BY <2>1, <2>2, <2>10 DEF Nearest
  <2>12. ASSUME NEW a PROVE SymbolOf(Range(sorted_syms'), a, sec') = SymbolOf(Range(sorted_syms), a, sec)
    BY <2>1, <2>2
  <2>13. QED
    BY <2>1, <2>2, <2>7, <2>8, <2>9, <2>10, <2>11, <2>12 DEF NamesInv
<1>3. CASE UNCHANGED vars
  BY <1>3 DEF vars, walk, NamesInv, InSec, Value, Nearest, addr, Section, Object, File
<1>4. QED
  BY <1>1, <1>2, <1>3 DEF Next, dumpwrap_load, display_bfd, CloseFile, slurp_symtab, disassemble_data,
                      SectionEnd, DataEnd, FreeTables

(* The whole invariant. *)
WalkInv == PlaceInv /\ SymsInv /\ FuncsInv /\ TilesInv /\ CoverInv /\ SortInv /\ NamesInv

LEMMA WholeWalk == (Init => WalkInv) /\ (WalkInv /\ [Next]_vars => WalkInv')
<1>1. Init => WalkInv
  <2>1. Init => SortInv /\ NamesInv
    BY DEF Init, SortInv, NamesInv
  <2>2. QED
    BY <2>1, WalkStarts DEF WalkInv
<1>2. WalkInv /\ [Next]_vars => WalkInv'
  BY WalkKeeps, SortStep, NamesStep DEF WalkInv
<1>3. QED
  BY <1>1, <1>2

(* Every function the walk asks about is shown with the symbol its          *)
(* addresses belong to, whatever symbols of other sections, of no section   *)
(* or not valid stand between those of the section, and wherever the binary *)
(* search comes down among symbols with one value.                          *)
THEOREM FunctionsHaveTheirNames == Spec => []NamedByItsSymbol
<1>1. WalkInv => NamedByItsSymbol
  <2>1. FuncsInv => DOMAIN funcs = 1..Len(funcs)
    BY SequenceIs DEF FuncsInv
  <2>2. QED
    BY <2>1 DEF WalkInv, FuncsInv, NamesInv, NamedByItsSymbol, Of
<1>2. QED
  BY <1>1, WholeWalk, PTL DEF Spec

-----------------------------------------------------------------------------
(* What the invariant says of the addresses of functions.  Those of one     *)
(* section follow each other: were one to begin before an earlier one ends, *)
(* the first that does would begin where one that does not ends.            *)
LEMMA RangesAre ==
    ASSUME FuncsInv, TilesInv
    PROVE  /\ Len(funcs) \in Nat /\ DOMAIN funcs = 1..Len(funcs)
           /\ \A i \in 1..Len(funcs) :
                 funcs[i].start \in Nat /\ funcs[i].end \in Nat /\ funcs[i].start < funcs[i].end
BY SequenceIs DEF FuncsInv, TilesInv

LEMMA Follow ==
    ASSUME FuncsInv, TilesInv, NEW i \in 1..Len(funcs), NEW j \in 1..Len(funcs), i < j, Place(i) = Place(j)
    PROVE  funcs[i].end <= funcs[j].start
<1> DEFINE Bad == {k \in 1..Len(funcs) : i < k /\ Place(i) = Place(k) /\ ~ (funcs[i].end <= funcs[k].start)}
<1>0. PICK n \in Nat : n = Len(funcs)
  BY RangesAre
<1>1. \A k \in 1..n : funcs[k].start \in Nat /\ funcs[k].end \in Nat /\ funcs[k].start < funcs[k].end
  BY <1>0, RangesAre
<1>2. Bad = {}
  <2> SUFFICES ASSUME Bad # {} PROVE FALSE
    OBVIOUS
  <2>1. Bad \subseteq Nat /\ Bad \subseteq 1..n
    BY <1>0
  <2>2. PICK k \in Bad : \A q \in Bad : k <= q
    BY <2>1, LeastOf
  <2>3. k \in 1..n /\ i \in 1..n /\ i < k /\ Place(i) = Place(k) /\ ~ (funcs[i].end <= funcs[k].start)
    BY <1>0, <2>2
  <2>4. k - 1 \in 1..n /\ (i = k - 1 \/ i < k - 1) /\ k > 1
    BY <2>3
  <2>5. Place(k-1) = Place(k)
    BY <1>0, <2>3, <2>4 DEF TilesInv
  <2>6. funcs[k].start = funcs[k-1].end
    BY <1>0, <2>3, <2>4, <2>5 DEF TilesInv
  <2>7. i < k - 1
    BY <1>1, <2>3, <2>4, <2>6
  <2>8. k - 1 \notin Bad
    BY <2>2, <2>3
  <2>9. funcs[i].end <= funcs[k-1].start
    BY <1>0, <2>3, <2>4, <2>5, <2>7, <2>8
  <2>10. QED
    BY <1>1, <2>3, <2>4, <2>6, <2>9
<1>3. QED
  BY <1>0, <1>2

(* The first function of a section begins where the section does, the last  *)
(* ends where it ends, or where the walk is.                                *)
LEMMA FirstIn ==
    ASSUME FuncsInv, TilesInv, NEW i \in 1..Len(funcs)
    PROVE  SectionOf(funcs[i]).vma \in Nat /\ SectionOf(funcs[i]).vma <= funcs[i].start
<1> DEFINE S == {k \in 1..Len(funcs) : Place(k) = Place(i)}
<1>0. PICK n \in Nat : n = Len(funcs)
  BY RangesAre
<1>1. \A k \in 1..n : funcs[k].start \in Nat /\ funcs[k].end \in Nat /\ funcs[k].start < funcs[k].end
  BY <1>0, RangesAre
<1>2. S \subseteq Nat /\ i \in S
  BY <1>0
<1>3. PICK k \in S : \A q \in S : k <= q
  BY <1>2, LeastOf
<1>4. k \in 1..n /\ Place(k) = Place(i) /\ k <= i
  BY <1>0, <1>2, <1>3
<1>5. ~ (k > 1 /\ Place(k-1) = Place(k))
  <2> SUFFICES ASSUME k > 1, Place(k-1) = Place(k) PROVE FALSE
    OBVIOUS
  <2>1. k - 1 \in S
    BY <1>0, <1>4
  <2>2. QED
    BY <1>3, <1>4, <2>1
<1>6. funcs[k].start = SectionOf(funcs[k]).vma
  BY <1>0, <1>4, <1>5 DEF TilesInv
<1>7. SectionOf(funcs[k]) = SectionOf(funcs[i])
  BY <1>4 DEF Place, SectionOf
<1>8. CASE k = i
  BY <1>1, <1>4, <1>6, <1>7, <1>8
<1>9. CASE k < i
  <2>1. funcs[k].end <= funcs[i].start
    BY <1>0, <1>4, <1>9, Follow
  <2>2. QED
    BY <1>0, <1>1, <1>4, <1>6, <1>7, <2>1
<1>10. QED
  BY <1>0, <1>4, <1>8, <1>9

LEMMA LastIn ==
    ASSUME FuncsInv, TilesInv, NEW i \in 1..Len(funcs)
    PROVE  \E k \in 1..Len(funcs) :
              /\ Place(k) = Place(i) /\ funcs[i].end <= funcs[k].end
              /\ IF pc = "function" /\ Place(i) = <<cur, sec>> THEN funcs[k].end = addr
                 ELSE funcs[k].end = SectionOf(funcs[i]).vma + SectionOf(funcs[i]).size
<1> DEFINE S == {k \in 1..Len(funcs) : Place(k) = Place(i)}
<1>0. PICK n \in Nat : n = Len(funcs)
  BY RangesAre
<1>1. \A k \in 1..n : funcs[k].start \in Nat /\ funcs[k].end \in Nat /\ funcs[k].start < funcs[k].end
  BY <1>0, RangesAre
<1>2. S \subseteq 1..n /\ i \in S /\ S # {}
  BY <1>0
<1>3. PICK k \in S : \A q \in S : q <= k
  <2> HIDE DEF S
  <2>1. QED
    BY <1>2, LeastIn
<1>4. k \in 1..n /\ Place(k) = Place(i) /\ i <= k /\ i \in 1..n
  BY <1>0, <1>2, <1>3
<1>5. ~ (k < n /\ Place(k+1) = Place(k))
  <2> SUFFICES ASSUME k < n, Place(k+1) = Place(k) PROVE FALSE
    OBVIOUS
  <2>1. k + 1 \in S
    BY <1>0, <1>4
  <2>2. QED
    BY <1>3, <1>4, <2>1
<1>6. funcs[i].end <= funcs[k].end
  <2>1. CASE k = i
    BY <1>1, <1>4, <2>1
  <2>2. CASE i < k
    <3>1. funcs[i].end <= funcs[k].start
      BY <1>0, <1>4, <2>2, Follow
    <3>2. QED
      BY <1>1, <1>4, <3>1
  <2>3. QED
    BY <1>4, <2>1, <2>2
<1>7. SectionOf(funcs[k]) = SectionOf(funcs[i])
  BY <1>4 DEF Place, SectionOf
<1>8. CASE pc = "function" /\ Place(i) = <<cur, sec>>
  <2>1. k = n
    <3> SUFFICES ASSUME k # n PROVE FALSE
      OBVIOUS
    <3>1. k + 1 \in 1..n /\ k < k + 1 /\ k < n
      BY <1>4
    <3>2. Place(k+1) = <<cur, sec>>
      BY <1>0, <1>4, <1>8, <3>1 DEF TilesInv
    <3>3. QED
      BY <1>4, <1>5, <1>8, <3>1, <3>2
  <2>2. funcs[k].end = addr
    BY <1>0, <1>4, <1>8, <2>1 DEF TilesInv
  <2>3. QED
    BY <1>0, <1>4, <1>6, <1>8, <2>2
<1>9. CASE ~ (pc = "function" /\ Place(i) = <<cur, sec>>)
  <2>1. funcs[k].end = SectionOf(funcs[k]).vma + SectionOf(funcs[k]).size
    BY <1>0, <1>4, <1>5, <1>9 DEF TilesInv
  <2>2. QED
    BY <1>0, <1>4, <1>6, <1>7, <1>9, <2>1
<1>10. QED
  BY <1>8, <1>9

(* So each address from the begin of the section to the end of one of its   *)
(* functions is in one.                                                     *)
LEMMA AddressIn ==
    ASSUME FuncsInv, TilesInv, NEW i \in 1..Len(funcs), NEW a \in Nat,
           SectionOf(funcs[i]).vma <= a, a < funcs[i].end
    PROVE  \E k \in 1..Len(funcs) : Place(k) = Place(i) /\ funcs[k].start <= a /\ a < funcs[k].end
<1> DEFINE S == {k \in 1..Len(funcs) : Place(k) = Place(i) /\ a < funcs[k].end}
<1>0. PICK n \in Nat : n = Len(funcs)
  BY RangesAre
<1>1. \A k \in 1..n : funcs[k].start \in Nat /\ funcs[k].end \in Nat /\ funcs[k].start < funcs[k].end
  BY <1>0, RangesAre
<1>2. S \subseteq Nat /\ i \in S
  BY <1>0
<1>3. PICK k \in S : \A q \in S : k <= q
  BY <1>2, LeastOf
<1>4. k \in 1..n /\ Place(k) = Place(i) /\ a < funcs[k].end
  BY <1>0, <1>3
<1>5. CASE k > 1 /\ Place(k-1) = Place(k)
  <2>1. k - 1 \in 1..n /\ k - 1 \notin S
    BY <1>3, <1>4, <1>5
  <2>2. ~ (a < funcs[k-1].end)
    BY <1>0, <1>4, <1>5, <2>1
  <2>3. funcs[k].start = funcs[k-1].end
    BY <1>0, <1>4, <1>5 DEF TilesInv
  <2>4. funcs[k].start <= a
    BY <1>1, <2>1, <2>2, <2>3
  <2>5. QED
    BY <1>0, <1>4, <2>4
<1>6. CASE ~ (k > 1 /\ Place(k-1) = Place(k))
  <2>1. funcs[k].start = SectionOf(funcs[k]).vma
    BY <1>0, <1>4, <1>6 DEF TilesInv
  <2>2. SectionOf(funcs[k]) = SectionOf(funcs[i])
    BY <1>4 DEF Place, SectionOf
  <2>3. QED
    BY <1>0, <1>4, <2>1, <2>2
<1>7. QED
  BY <1>5, <1>6

(* What FuncStart asks about was not asked about before. *)
LEMMA AskedOnce ==
    ASSUME PlaceInv, SymsInv, FuncsInv, TilesInv, FuncStart, NEW i \in 1..Len(funcs)
    PROVE  funcs[i] # Asked
<1>0. /\ pc = "function" /\ addr_offset < Section.size
      /\ Asked.object = cur /\ Asked.section = sec /\ Asked.end = Section.vma + nextstop_offset
  BY AskedIs DEF Asked
<1>1. CASE Place(i) = <<cur, sec>>
  <2>1. PICK k \in 1..Len(funcs) : Place(k) = Place(i) /\ funcs[i].end <= funcs[k].end /\ funcs[k].end = addr
    BY <1>0, <1>1, LastIn
  <2>2. /\ addr_offset < nextstop_offset /\ Section.vma \in Nat
        /\ addr_offset \in Nat /\ nextstop_offset \in Nat
    BY <1>0, StopIs
  <2>3. addr < Asked.end /\ addr \in Nat
    BY <1>0, <2>2 DEF addr
  <2>4. funcs[i].end \in Nat
    BY RangesAre
  <2>5. QED
    BY <1>0, <2>1, <2>2, <2>3, <2>4
<1>2. CASE Place(i) # <<cur, sec>>
  BY <1>0, <1>2 DEF Place
<1>3. QED
  BY <1>1, <1>2
=============================================================================
