---------------------------- MODULE ExcDasmCmdProofs --------------------------
(***************************************************************************)
(* Theorems about ExcDasmCmd, for all files, commands and parameters.  The *)
(* walk is that of ExcDump, with what ExcDumpProofs says of it.            *)
(***************************************************************************)
EXTENDS ExcDasmCmd, FiniteSetTheorems, SequenceTheorems, TLAPS

P == INSTANCE ExcDumpProofs

(* The actions of ExcDump a command uses are those the lemmas are about. *)
LEMMA LoadsAre == \A l \in Loads : P!IsLoad(l)
BY CmdAssumption DEF P!IsLoad, P!IsSeq, P!IsObject, P!IsSection, P!IsSymbol, P!Range, P!IsFiniteSet,
                     D!IsLoad, D!IsSeq, D!IsObject, D!IsSection, D!IsSymbol, D!Range, D!IsFiniteSet

LEMMA SameMinMax == \A S : P!Min(S) = D!Min(S) /\ P!Max(S) = D!Max(S)
BY DEF P!Min, D!Min, P!Max, D!Max

LEMMA SameFind == \A v, c : P!find_symbol_for_address(v, c) = D!find_symbol_for_address(v, c)
BY DEF P!find_symbol_for_address, P!Search, P!InSec, P!Value, P!FirstBelow, P!Min, P!Max,
       D!find_symbol_for_address, D!Search, D!InSec, D!Value, D!FirstBelow, D!Min, D!Max

LEMMA SameSection ==
    /\ P!Section = D!Section /\ P!Object = D!Object /\ P!File = D!File /\ P!addr = D!addr
    /\ \A i : P!Value(i) = D!Value(i)
    /\ \A S, a, c : P!SymbolOf(S, a, c) = D!SymbolOf(S, a, c)
<1>1. P!Section = D!Section /\ P!Object = D!Object /\ P!File = D!File /\ P!addr = D!addr
  BY DEF P!Section, D!Section, P!Object, D!Object, P!File, D!File, P!addr, D!addr
<1>2. \A i : P!Value(i) = D!Value(i)
  BY DEF P!Value, D!Value
<1>3. \A S, a, c : P!SymbolOf(S, a, c) = D!SymbolOf(S, a, c)
  BY DEF P!SymbolOf, D!SymbolOf, P!Best, D!Best, P!Min, D!Min, P!Max, D!Max
<1>4. QED
  BY <1>1, <1>2, <1>3

LEMMA SameFuncStart == P!FuncStart <=> D!FuncStart
<1>1. P!nextsym = D!nextsym /\ P!Following = D!Following /\ P!Ahead = D!Ahead
  <2>1. P!Following = D!Following
    BY DEF P!Following, D!Following, P!is_valid_next_sym, D!is_valid_next_sym, P!InSec, D!InSec, P!Value, D!Value
  <2>2. P!Ahead = D!Ahead
    BY SameSection DEF P!Ahead, D!Ahead
  <2>3. QED
    BY <2>1, <2>2, SameMinMax DEF P!nextsym, D!nextsym
<1>2. P!nextstop_offset = D!nextstop_offset
  BY <1>1, SameSection DEF P!nextstop_offset, D!nextstop_offset, P!Bounded, D!Bounded
<1>3. QED
  BY <1>1, <1>2, SameSection DEF P!FuncStart, D!FuncStart, P!tables, D!tables

LEMMA SameActions ==
    /\ P!dumpwrap_load <=> D!dumpwrap_load
    /\ P!display_bfd <=> D!display_bfd
    /\ P!CloseFile <=> D!CloseFile
    /\ P!slurp_symtab <=> D!slurp_symtab
    /\ P!disassemble_data <=> D!disassemble_data
    /\ P!disassemble_section <=> D!disassemble_section
    /\ P!SectionEnd <=> D!SectionEnd
    /\ P!DataEnd <=> D!DataEnd
    /\ P!FreeTables <=> D!FreeTables
<1>1. P!dumpwrap_load <=> D!dumpwrap_load
  BY DEF P!dumpwrap_load, D!dumpwrap_load, P!NextFile, D!NextFile, P!tables, D!tables, P!walk, D!walk,
         P!BFDWRAP_ERR_FILE, D!BFDWRAP_ERR_FILE
<1>2. P!display_bfd <=> D!display_bfd
  BY SameSection DEF P!display_bfd, D!display_bfd, P!tables, D!tables, P!walk, D!walk,
         P!BFDWRAP_ERR_FILE, D!BFDWRAP_ERR_FILE
<1>3. P!CloseFile <=> D!CloseFile
  BY SameSection DEF P!CloseFile, D!CloseFile, P!Broken, D!Broken, P!BFDWRAP_ERR_FILE, D!BFDWRAP_ERR_FILE, P!NextFile, D!NextFile, P!tables, D!tables, P!walk, D!walk
<1>4. P!slurp_symtab <=> D!slurp_symtab
  BY SameSection DEF P!slurp_symtab, D!slurp_symtab, P!walk, D!walk
<1>5. P!disassemble_data <=> D!disassemble_data
  <2>1. \A S : P!SetToSeqs(S) = D!SetToSeqs(S)
    BY DEF P!SetToSeqs, D!SetToSeqs, P!Cardinality, D!Cardinality
  <2>2. \A S : P!qsort(S) = D!qsort(S)
    BY <2>1 DEF P!qsort, D!qsort, P!compare_symbols, D!compare_symbols
  <2>3. QED
    BY <2>2 DEF P!disassemble_data, D!disassemble_data, P!tables, D!tables, P!WithStatic, D!WithStatic,
                P!remove_useless_symbols, D!remove_useless_symbols
<1>6. P!disassemble_section <=> D!disassemble_section
  BY SameSection, SameFind DEF P!disassemble_section, D!disassemble_section, P!tables, D!tables
<1>7. (P!SectionEnd <=> D!SectionEnd) /\ (P!DataEnd <=> D!DataEnd) /\ (P!FreeTables <=> D!FreeTables)
  BY SameSection DEF P!SectionEnd, D!SectionEnd, P!DataEnd, D!DataEnd, P!FreeTables, D!FreeTables,
                     P!tables, D!tables, P!walk, D!walk, P!Freed, D!Freed
<1>8. QED
  BY <1>1, <1>2, <1>3, <1>4, <1>5, <1>6, <1>7

(* Each step of a command is one of the walk, or leaves it where it is. *)
LEMMA WalkStep == [Next]_vars => [P!Next]_(P!vars)
<1>1. UNCHANGED walk => UNCHANGED P!vars
  BY DEF walk, P!vars, P!walk, P!tables
<1>2. main \/ on_execaction_clicked \/ End \/ UNCHANGED vars => UNCHANGED walk
  BY DEF main, on_execaction_clicked, Exc_Dasm, End, vars
<1>3. FuncStart => P!Next
  BY SameFuncStart DEF FuncStart, P!Next
<1>4. dumpwrap_load \/ display_bfd \/ dump_bfd \/ disassemble_data \/ disassemble_section \/ Walk \/ CloseFile
         => P!Next
  BY SameActions DEF dumpwrap_load, display_bfd, dump_bfd, disassemble_data, disassemble_section, Walk,
                     CloseFile, P!Next
<1>5. QED
  BY <1>1, <1>2, <1>3, <1>4 DEF Next

-----------------------------------------------------------------------------
(* What the callbacks of call c answer for function f. *)
WantedFor(c, f) ==
    CASE c.mode = "All" -> TRUE
      [] c.mode = "FuncMatch" -> f.sym # NULL /\ <<f.sym.name, c.param>> \in strstr
      [] c.mode = "Func" -> f.sym # NULL /\ f.sym.name = c.param
      [] c.mode = "Addr" -> f.start <= strtoull[c.param] /\ strtoull[c.param] < f.end
      [] OTHER -> FALSE
ListedFor(c, f) ==
    \/ c.mode = "FuncList"
    \/ c.mode = "FuncMatchList" /\ f.sym # NULL /\ <<f.sym.name, c.param>> \in strstr
ListModes == {"FuncList", "FuncMatchList"}

(* The texts of output q are those of the functions of file m among fs that *)
(* call c wants, each once.                                                 *)
Texts(q) == {k \in 1..Len(q) : q[k].kind = "text"}
Mine(fs, m) == {i \in 1..Len(fs) : fs[i].object.file = m}
TextsAre(q, fs, m, c) ==
    /\ \A k \in Texts(q) : \E i \in Mine(fs, m) : q[k].f = fs[i] /\ WantedFor(c, fs[i])
    /\ \A i \in Mine(fs, m) : WantedFor(c, fs[i]) => \E k \in Texts(q) : q[k].f = fs[i]
    /\ \A k, l \in Texts(q) : q[k].f = q[l].f => k = l

(* The lines of output q are those of the functions call c lists, each once *)
(* and in their order; but for the title the others are errors.             *)
Chosen(fs, m, c) == {i \in Mine(fs, m) : ListedFor(c, fs[i])}
LinesOf(q) == {k \in 1..Len(q) : q[k].kind = "line"}
LinesAre(q, fs, m, c) ==
    /\ 1 \in 1..Len(q) /\ q[1] = [kind |-> "title"]
    /\ \A k \in 2..Len(q) : q[k].kind \in {"line", "error"}
    /\ \A i \in Chosen(fs, m, c) : \E k \in LinesOf(q) : q[k].f = fs[i]
    /\ \A k \in LinesOf(q) : \E i \in Chosen(fs, m, c) : q[k].f = fs[i]
    /\ \A i, j \in Chosen(fs, m, c) : \A k, l \in LinesOf(q) :
          q[k].f = fs[i] /\ q[l].f = fs[j] => (k < l <=> i < j)

(* The file of the command. *)
CmdFile == IF stage = "closed" THEN cur.file - 1 ELSE cur.file
StageInv ==
    /\ stage \in {"idle", "load", "run", "closed", "missing"}
    /\ stage = "run" <=> pc # "load"
    /\ pc = "load" => \A i \in 1..Len(funcs) : funcs[i].object.file < cur.file
    /\ call \in [by : {"app", "dlg"}, mode : EExcDasmMode, param : Param]
    /\ stage # "idle" => ~Refused(call.mode, call.param)
    /\ P!IsSeq(out)
ClosedInv ==
    stage = "closed" =>
        /\ cur.file - 1 \in 1..Len(files)
        /\ P!IsSeq(files[cur.file - 1])
        /\ \A j \in 1..Len(files[cur.file - 1]) :
              LET o == [file |-> cur.file - 1, obj |-> j]
              IN  /\ P!IsSeq(files[cur.file - 1][j].sections)
                  /\ o \notin failed => P!Walked(o, Len(files[cur.file - 1][j].sections))
TextInv == stage \in {"load", "run", "closed"} => TextsAre(out, funcs, CmdFile, call)
ListInv ==
    stage \in {"load", "run", "closed"} /\ call.mode \in ListModes => LinesAre(out, funcs, CmdFile, call)
CmdInv == StageInv /\ ClosedInv /\ TextInv /\ ListInv

-----------------------------------------------------------------------------
LEMMA WantedIs ==
    \A f : (Wanted(f) <=> WantedFor(call, f)) /\ (Listed(f) <=> ListedFor(call, f))
BY DEF Wanted, WantedFor, Listed, ListedFor, Matches, Same, dasm_addr_act

(* The modes with an answer have a callback for text. *)
LEMMA WantedHasDump == \A f : Wanted(f) => dump
BY DEF Wanted, dump

LEMMA Joined ==
    ASSUME NEW q, P!IsSeq(q), NEW e
    PROVE  q \o <<>> = q /\ q \o <<e>> = Append(q, e) /\ P!IsSeq(Append(q, e))
<1> DEFINE S == P!Range(q) \cup {e}
<1>1. q \in Seq(P!Range(q))
  BY DEF P!IsSeq
<1>2. q \in Seq(S) /\ e \in S
  BY <1>1
<1> HIDE DEF S
<1>3. P!IsSeq(Append(q, e))
  <2> DEFINE r == Append(q, e)
  <2>1. r \in Seq(S)
    BY <1>2
  <2> HIDE DEF r
  <2>2. Len(r) \in Nat /\ DOMAIN r = 1..Len(r) /\ r \in [1..Len(r) -> S]
    BY <2>1
  <2>3. r \in [1..Len(r) -> P!Range(r)]
    BY <2>2 DEF P!Range
  <2>4. P!IsSeq(r)
    BY <2>2, <2>3 DEF P!IsSeq
  <2>5. QED
    BY <2>4 DEF r
<1>4. q \o <<>> = q /\ q \o <<e>> = Append(q, e)
  BY <1>2, ConcatEmptySeq, AppendIsConcat
<1>5. QED
  BY <1>3, <1>4

(* What is not the text of a function changes nothing. *)
LEMMA TextsStay ==
    ASSUME NEW q, P!IsSeq(q), NEW e, e.kind # "text", NEW fs, NEW m, NEW c, TextsAre(q, fs, m, c)
    PROVE  TextsAre(Append(q, e), fs, m, c)
<1>1. PICK n \in Nat : n = Len(q)
  BY LoadsAre, P!SequenceIs
<1>2. Len(Append(q, e)) = n + 1 /\ Append(q, e)[n + 1] = e /\ \A k \in 1..n : Append(q, e)[k] = q[k]
  BY <1>1, LoadsAre, P!SequenceIs
<1> DEFINE r == Append(q, e)
<1>3. Texts(r) = Texts(q) /\ \A k \in Texts(q) : r[k] = q[k]
  <2> HIDE DEF r
  <2>1. Len(r) = n + 1 /\ r[n + 1] = e /\ \A k \in 1..n : r[k] = q[k]
    BY <1>2 DEF r
  <2>2. QED
    BY <1>1, <2>1 DEF Texts
<1> HIDE DEF r
<1>4. TextsAre(r, fs, m, c)
  BY <1>3 DEF TextsAre
<1>5. QED
  BY <1>4 DEF r

(* gs is fs and f, which is not among them. *)
Grows(fs, gs, f) ==
    /\ Len(fs) \in Nat /\ Len(gs) = Len(fs) + 1 /\ gs[Len(fs) + 1] = f
    /\ \A i \in 1..Len(fs) : gs[i] = fs[i] /\ fs[i] # f

(* A function that is new has its text when it is wanted. *)
LEMMA TextsGrow ==
    ASSUME NEW q, P!IsSeq(q), NEW fs, NEW gs, NEW f, Grows(fs, gs, f), NEW m, f.object.file = m,
           NEW c, TextsAre(q, fs, m, c)
    PROVE  /\ ~WantedFor(c, f) => TextsAre(q, gs, m, c)
           /\ WantedFor(c, f) => TextsAre(Append(q, [kind |-> "text", f |-> f]), gs, m, c)
<1>0. PICK l \in Nat : /\ Len(fs) = l /\ Len(gs) = l + 1 /\ gs[l + 1] = f
                       /\ \A i \in 1..l : gs[i] = fs[i] /\ fs[i] # f
  BY DEF Grows
<1>1. PICK n \in Nat : n = Len(q)
  BY LoadsAre, P!SequenceIs
<1>2. Mine(gs, m) = Mine(fs, m) \cup {l + 1} /\ \A i \in Mine(fs, m) : i \in 1..l /\ gs[i] = fs[i] /\ fs[i] # f
  BY <1>0 DEF Mine
<1>3. ~WantedFor(c, f) => TextsAre(q, gs, m, c)
  <2> SUFFICES ASSUME ~WantedFor(c, f) PROVE TextsAre(q, gs, m, c)
    OBVIOUS
  <2>1. ASSUME NEW k \in Texts(q) PROVE \E i \in Mine(gs, m) : q[k].f = gs[i] /\ WantedFor(c, gs[i])
    BY <1>0, <1>2 DEF TextsAre
  <2>2. ASSUME NEW i \in Mine(gs, m), WantedFor(c, gs[i]) PROVE \E k \in Texts(q) : q[k].f = gs[i]
    BY <1>0, <1>2, <2>2 DEF TextsAre
  <2>3. QED
    BY <2>1, <2>2 DEF TextsAre
<1>4. WantedFor(c, f) => TextsAre(Append(q, [kind |-> "text", f |-> f]), gs, m, c)
  <2> SUFFICES ASSUME WantedFor(c, f) PROVE TextsAre(Append(q, [kind |-> "text", f |-> f]), gs, m, c)
    OBVIOUS
  <2> DEFINE t == [kind |-> "text", f |-> f]
             r == Append(q, t)
  <2>1. Len(r) = n + 1 /\ r[n + 1] = t /\ \A k \in 1..n : r[k] = q[k]
    BY <1>1, LoadsAre, P!SequenceIs
  <2>2. t.kind = "text" /\ t.f = f
    OBVIOUS
  <2> HIDE DEF t, r
  <2>3. Texts(r) = Texts(q) \cup {n + 1} /\ \A k \in Texts(q) : k \in 1..n /\ r[k] = q[k]
    BY <1>1, <2>1, <2>2 DEF Texts
  <2>4. r[n + 1].f = f /\ l + 1 \in Mine(gs, m)
    BY <1>0, <1>2, <2>1, <2>2
  <2>5. ASSUME NEW k \in Texts(q) PROVE \E i \in Mine(fs, m) : q[k].f = fs[i] /\ WantedFor(c, fs[i])
    BY DEF TextsAre
  <2>6. \A k \in Texts(q) : q[k].f # f
    BY <1>2, <2>5
  <2>7. ASSUME NEW k \in Texts(r) PROVE \E i \in Mine(gs, m) : r[k].f = gs[i] /\ WantedFor(c, gs[i])
    <3>1. CASE k = n + 1
      BY <1>0, <2>4, <3>1
    <3>2. CASE k \in Texts(q)
      BY <1>2, <2>3, <2>5, <3>2
    <3>3. QED
      BY <2>3, <3>1, <3>2
  <2>8. ASSUME NEW i \in Mine(gs, m), WantedFor(c, gs[i]) PROVE \E k \in Texts(r) : r[k].f = gs[i]
    <3>1. CASE i = l + 1
      BY <1>0, <2>3, <2>4, <3>1
    <3>2. CASE i \in Mine(fs, m)
      <4>1. \E k \in Texts(q) : q[k].f = fs[i]
        BY <1>2, <2>8, <3>2 DEF TextsAre
      <4>2. QED
        BY <1>2, <2>3, <3>2, <4>1
    <3>3. QED
      BY <1>2, <3>1, <3>2
  <2>9. ASSUME NEW k \in Texts(r), NEW j \in Texts(r), r[k].f = r[j].f PROVE k = j
    BY <2>3, <2>4, <2>6, <2>9 DEF TextsAre
  <2>10. TextsAre(r, gs, m, c)
    BY <2>7, <2>8, <2>9 DEF TextsAre
  <2>11. QED
    BY <2>10 DEF r, t
<1>5. QED
  BY <1>3, <1>4

(* Likewise an error changes no line, and a function that is listed has its *)
(* line behind the others.                                                  *)
LEMMA LinesStay ==
    ASSUME NEW q, P!IsSeq(q), NEW e, e.kind = "error", NEW fs, NEW m, NEW c, LinesAre(q, fs, m, c)
    PROVE  LinesAre(Append(q, e), fs, m, c)
<1>1. PICK n \in Nat : n = Len(q)
  BY LoadsAre, P!SequenceIs
<1> DEFINE r == Append(q, e)
<1>2. Len(r) = n + 1 /\ r[n + 1] = e /\ \A k \in 1..n : r[k] = q[k]
  BY <1>1, LoadsAre, P!SequenceIs
<1> HIDE DEF r
<1>3. LinesOf(r) = LinesOf(q) /\ \A k \in LinesOf(q) : r[k] = q[k]
  BY <1>1, <1>2 DEF LinesOf
<1>4. 1 \in 1..Len(r) /\ r[1] = [kind |-> "title"]
  BY <1>1, <1>2 DEF LinesAre
<1>5. \A k \in 2..Len(r) : r[k].kind \in {"line", "error"}
  <2>1. \A k \in 2..Len(r) : k = n + 1 \/ (k \in 2..n /\ k \in 1..n)
    BY <1>2
  <2>2. QED
    BY <1>1, <1>2, <2>1 DEF LinesAre
<1>6. /\ \A i \in Chosen(fs, m, c) : \E k \in LinesOf(r) : r[k].f = fs[i]
      /\ \A k \in LinesOf(r) : \E i \in Chosen(fs, m, c) : r[k].f = fs[i]
      /\ \A i, j \in Chosen(fs, m, c) : \A k, l \in LinesOf(r) :
            r[k].f = fs[i] /\ r[l].f = fs[j] => (k < l <=> i < j)
  <2> DEFINE C == Chosen(fs, m, c)
             K == LinesOf(q)
  <2>1. /\ \A i \in C : \E k \in K : q[k].f = fs[i]
        /\ \A k \in K : \E i \in C : q[k].f = fs[i]
        /\ \A i, j \in C : \A k, l \in K : q[k].f = fs[i] /\ q[l].f = fs[j] => (k < l <=> i < j)
    BY DEF LinesAre
  <2>2. LinesOf(r) = K /\ \A k \in K : r[k] = q[k]
    BY <1>3
  <2> HIDE DEF C, K
  <2>3. /\ \A i \in C : \E k \in K : r[k].f = fs[i]
        /\ \A k \in K : \E i \in C : r[k].f = fs[i]
        /\ \A i, j \in C : \A k, l \in K : r[k].f = fs[i] /\ r[l].f = fs[j] => (k < l <=> i < j)
    <3>1. \A k \in K : r[k].f = q[k].f
      BY <2>2
    <3>2. \A i \in C : \E k \in K : r[k].f = fs[i]
      BY <2>1, <3>1
    <3>3. \A k \in K : \E i \in C : r[k].f = fs[i]
      BY <2>1, <3>1
    <3>4. \A i, j \in C : \A k, l \in K : r[k].f = fs[i] /\ r[l].f = fs[j] => (k < l <=> i < j)
      BY <2>1, <3>1
    <3>5. QED
      BY <3>2, <3>3, <3>4
  <2>4. QED
    BY <2>2, <2>3 DEF C
<1>7. LinesAre(r, fs, m, c)
  BY <1>4, <1>5, <1>6 DEF LinesAre
<1>8. QED
  BY <1>7 DEF r

LEMMA LinesGrow ==
    ASSUME NEW q, P!IsSeq(q), NEW fs, NEW gs, NEW f, Grows(fs, gs, f), NEW m, f.object.file = m,
           NEW c, LinesAre(q, fs, m, c)
    PROVE  /\ ~ListedFor(c, f) => LinesAre(q, gs, m, c)
           /\ ListedFor(c, f) => LinesAre(Append(q, [kind |-> "line", f |-> f]), gs, m, c)
<1> DEFINE A == Chosen(fs, m, c)
           B == Chosen(gs, m, c)
<1>0. PICK l \in Nat : /\ Len(fs) = l /\ Len(gs) = l + 1 /\ gs[l + 1] = f
                       /\ \A i \in 1..l : gs[i] = fs[i] /\ fs[i] # f
  BY DEF Grows
<1>1. PICK n \in Nat : n = Len(q)
  BY LoadsAre, P!SequenceIs
<1>2. \A i \in A : i \in 1..l /\ gs[i] = fs[i] /\ gs[i] # f
  BY <1>0 DEF Chosen, Mine
<1>3. B = IF ListedFor(c, f) THEN A \cup {l + 1} ELSE A
  BY <1>0 DEF Chosen, Mine
<1>4. /\ 1 \in 1..n /\ q[1] = [kind |-> "title"]
      /\ \A k \in 2..n : q[k].kind \in {"line", "error"}
      /\ \A i \in A : \E k \in LinesOf(q) : q[k].f = gs[i]
      /\ \A k \in LinesOf(q) : \E i \in A : q[k].f = gs[i]
      /\ \A i, j \in A : \A k, h \in LinesOf(q) :
            q[k].f = gs[i] /\ q[h].f = gs[j] => (k < h <=> i < j)
  BY <1>1, <1>2 DEF LinesAre
<1> HIDE DEF A, B
<1>5. ~ListedFor(c, f) => LinesAre(q, gs, m, c)
  BY <1>1, <1>3, <1>4 DEF LinesAre, B
<1>6. ListedFor(c, f) => LinesAre(Append(q, [kind |-> "line", f |-> f]), gs, m, c)
  <2> SUFFICES ASSUME ListedFor(c, f) PROVE LinesAre(Append(q, [kind |-> "line", f |-> f]), gs, m, c)
    OBVIOUS
  <2> DEFINE t == [kind |-> "line", f |-> f]
             r == Append(q, t)
  <2>1. Len(r) = n + 1 /\ r[n + 1] = t /\ \A k \in 1..n : r[k] = q[k]
    BY <1>1, LoadsAre, P!SequenceIs
  <2>2. t.kind = "line" /\ t.f = f
    OBVIOUS
  <2> HIDE DEF t, r
  <2>3. LinesOf(r) = LinesOf(q) \cup {n + 1} /\ \A k \in LinesOf(q) : k \in 1..n /\ r[k] = q[k]
    BY <1>1, <2>1, <2>2 DEF LinesOf
  <2>4. B = A \cup {l + 1} /\ r[n + 1].f = gs[l + 1] /\ gs[l + 1] = f
    BY <1>0, <1>3, <2>1, <2>2
  <2>5. \A k \in LinesOf(q) : r[k].f = q[k].f /\ q[k].f # f
    BY <1>2, <1>4, <2>3
  <2>6. 1 \in 1..Len(r) /\ r[1] = [kind |-> "title"]
    BY <1>4, <2>1
  <2>7. \A k \in 2..Len(r) : r[k].kind \in {"line", "error"}
    <3>1. \A k \in 2..Len(r) : k = n + 1 \/ (k \in 2..n /\ k \in 1..n)
      BY <2>1
    <3>2. QED
      BY <1>4, <2>1, <2>2, <3>1
  <2>8. \A i \in B : \E k \in LinesOf(r) : r[k].f = gs[i]
    BY <1>4, <2>3, <2>4, <2>5
  <2>9. \A k \in LinesOf(r) : \E i \in B : r[k].f = gs[i]
    BY <1>4, <2>3, <2>4, <2>5
  <2>10. ASSUME NEW i \in B, NEW j \in B, NEW k \in LinesOf(r), NEW h \in LinesOf(r),
                r[k].f = gs[i], r[h].f = gs[j]
         PROVE  k < h <=> i < j
    <3>1. k = n + 1 <=> i = l + 1
      BY <1>2, <2>3, <2>4, <2>5, <2>10
    <3>2. h = n + 1 <=> j = l + 1
      BY <1>2, <2>3, <2>4, <2>5, <2>10
    <3>3. CASE k \in LinesOf(q) /\ h \in LinesOf(q)
      <4>1. k # n + 1 /\ h # n + 1
        BY <2>3, <3>3
      <4>2. i \in A /\ j \in A /\ q[k].f = gs[i] /\ q[h].f = gs[j]
        BY <2>4, <2>5, <2>10, <3>1, <3>2, <3>3, <4>1
      <4>3. QED
        BY <1>4, <3>3, <4>2
    <3>4. CASE k = n + 1 \/ h = n + 1
      <4>1. i \in 1..l + 1 /\ j \in 1..l + 1
        BY <1>2, <2>4
      <4>2. k \in 1..n + 1 /\ h \in 1..n + 1
        BY <2>3
      <4>3. QED
        BY <3>1, <3>2, <3>4, <4>1, <4>2
    <3>5. QED
      BY <2>3, <3>3, <3>4
  <2>11. LinesAre(r, gs, m, c)
    BY <2>6, <2>7, <2>8, <2>9, <2>10 DEF LinesAre, B
  <2>12. QED
    BY <2>11 DEF r, t
<1>7. QED
  BY <1>5, <1>6

(* What the steps that ask about no function write: headings, unless the    *)
(* mode is that of a list, and errors.                                      *)
Aside(c, e) == e.kind \notin {"text", "line"} /\ (c.mode \in ListModes => e.kind = "error")
Aside2(c, q, r) ==
    \/ r = q
    \/ \E e : Aside(c, e) /\ r = Append(q, e)
    \/ \E d, e : Aside(c, d) /\ Aside(c, e) /\ r = Append(Append(q, d), e)

LEMMA AsideKeeps ==
    ASSUME NEW q, P!IsSeq(q), NEW fs, NEW m, NEW c, NEW r, Aside2(c, q, r)
    PROVE  /\ P!IsSeq(r)
           /\ TextsAre(q, fs, m, c) => TextsAre(r, fs, m, c)
           /\ c.mode \in ListModes /\ LinesAre(q, fs, m, c) => LinesAre(r, fs, m, c)
<1>1. ASSUME NEW p, P!IsSeq(p), NEW e, Aside(c, e)
      PROVE  /\ P!IsSeq(Append(p, e))
             /\ TextsAre(p, fs, m, c) => TextsAre(Append(p, e), fs, m, c)
             /\ c.mode \in ListModes /\ LinesAre(p, fs, m, c) => LinesAre(Append(p, e), fs, m, c)
  <2>1. P!IsSeq(Append(p, e))
    BY <1>1, Joined
  <2>2. e.kind # "text" /\ (c.mode \in ListModes => e.kind = "error")
    BY <1>1 DEF Aside
  <2>3. TextsAre(p, fs, m, c) => TextsAre(Append(p, e), fs, m, c)
    BY <1>1, <2>2, TextsStay
  <2>4. c.mode \in ListModes /\ LinesAre(p, fs, m, c) => LinesAre(Append(p, e), fs, m, c)
    BY <1>1, <2>2, LinesStay
  <2>5. QED
    BY <2>1, <2>3, <2>4
<1>2. QED
  BY <1>1 DEF Aside2

LEMMA NoneYet ==
    ASSUME NEW fs, NEW m, NEW c, Mine(fs, m) = {}
    PROVE  TextsAre(<<[kind |-> "title"]>>, fs, m, c) /\ LinesAre(<<[kind |-> "title"]>>, fs, m, c)
<1> DEFINE t == [kind |-> "title"]
           q == <<t>>
<1>1. Len(q) = 1 /\ q[1] = t /\ t.kind = "title"
  OBVIOUS
<1> HIDE DEF q, t
<1>2. Texts(q) = {}
  BY <1>1 DEF Texts
<1>3. Chosen(fs, m, c) = {} /\ LinesOf(q) = {}
  BY <1>1 DEF Chosen, LinesOf
<1>4. TextsAre(q, fs, m, c) /\ LinesAre(q, fs, m, c)
  BY <1>1, <1>2, <1>3 DEF TextsAre, LinesAre, t
<1>5. QED
  BY <1>4 DEF q, t

-----------------------------------------------------------------------------
LEMMA ModesAre == \A i \in DOMAIN DlgModes : DlgModes[i] \in EExcDasmMode
<1>1. DlgModes \in Seq(EExcDasmMode)
  BY DEF DlgModes, EExcDasmMode
<1>2. QED
  BY <1>1, ElementOfSeq, LenProperties

LEMMA NoSuchMode == \A i \in DOMAIN DlgModes : DlgModes[i] # "FuncMatchList"
<1> DEFINE S == EExcDasmMode \ {"FuncMatchList"}
<1>1. DlgModes \in Seq(S)
  BY DEF DlgModes, EExcDasmMode
<1>2. QED
  BY <1>1, ElementOfSeq, LenProperties

(* What a command is given, and what starts it. *)
LEMMA CallIs ==
    ASSUME main \/ on_execaction_clicked
    PROVE  /\ UNCHANGED walk /\ stage = "idle"
           /\ \/ UNCHANGED <<stage, call, out>>
              \/ /\ call' \in [by : {"app", "dlg"}, mode : EExcDasmMode, param : Param]
                 /\ \/ stage' = "idle" /\ (out' = <<>> \/ out' = <<[kind |-> "needparam"]>>)
                    \/ /\ stage' = "load" /\ out' = <<[kind |-> "title"]>>
                       /\ ~Refused(call'.mode, call'.param)
<1>1. ASSUME NEW by \in {"app", "dlg"}, NEW elffile, NEW mode \in EExcDasmMode, NEW param \in Param,
             Exc_Dasm(by, elffile, mode, param)
      PROVE  /\ UNCHANGED walk
             /\ call' \in [by : {"app", "dlg"}, mode : EExcDasmMode, param : Param]
             /\ \/ stage' = "idle" /\ (out' = <<>> \/ out' = <<[kind |-> "needparam"]>>)
                \/ /\ stage' = "load" /\ out' = <<[kind |-> "title"]>>
                   /\ ~Refused(call'.mode, call'.param)
  BY <1>1 DEF Exc_Dasm
<1>2. CASE main
  <2>1. PICK mode \in EExcDasmMode, arg \in Param, elffile \in {"", "file"} :
          \/ UNCHANGED <<walk, stage, call, allowout, out>>
          \/ Exc_Dasm("app", elffile, mode, IF NeedsParam(mode) THEN arg ELSE NULL)
    BY <1>2 DEF main
  <2>2. (IF NeedsParam(mode) THEN arg ELSE NULL) \in Param
    BY DEF Param
  <2>3. stage = "idle"
    BY <1>2 DEF main, Ready
  <2>4. CASE UNCHANGED <<walk, stage, call, allowout, out>>
    BY <2>3, <2>4
  <2>5. CASE Exc_Dasm("app", elffile, mode, IF NeedsParam(mode) THEN arg ELSE NULL)
    BY <1>1, <2>2, <2>3, <2>5
  <2>6. QED
    BY <2>1, <2>4, <2>5
<1>3. CASE on_execaction_clicked
  <2>1. PICK index \in DOMAIN DlgModes, param \in Strings \cup {""} :
          Exc_Dasm("dlg", "file", actmod(index, param), param)
    BY <1>3 DEF on_execaction_clicked
  <2>2. actmod(index, param) \in EExcDasmMode
    BY ModesAre DEF actmod, EExcDasmMode
  <2>3. stage = "idle" /\ param \in Param
    BY <1>3 DEF on_execaction_clicked, Ready, Param
  <2>4. QED
    BY <1>1, <2>1, <2>2, <2>3
<1>4. QED
  BY <1>2, <1>3

(* The steps of a command that ask about no function. *)
Quiet == dumpwrap_load \/ display_bfd \/ dump_bfd \/ disassemble_data \/ disassemble_section \/ Walk
         \/ CloseFile \/ UNCHANGED vars

LEMMA ErrorIs == \A fails \in BOOLEAN : Aside2(call, out, wrap_errout(out, fails))
<1> DEFINE e == [kind |-> "error"]
<1>1. Aside(call, e) /\ \A fails \in BOOLEAN : wrap_errout(out, fails) = IF fails THEN Append(out, e) ELSE out
  BY DEF Aside, wrap_errout
<1> HIDE DEF e
<1>2. QED
  BY <1>1 DEF Aside2

LEMMA HeadingIs ==
    ASSUME NEW line, line.kind \in {"file", "section"}
    PROVE  wrap_printf(line) = out \/ (Aside(call, line) /\ wrap_printf(line) = Append(out, line))
BY DEF wrap_printf, dump, Aside, ListModes

LEMMA HeadingAndError ==
    ASSUME NEW line, line.kind \in {"file", "section"}, NEW fails \in BOOLEAN
    PROVE  Aside2(call, out, wrap_errout(wrap_printf(line), fails))
<1> DEFINE e == [kind |-> "error"]
<1>1. Aside(call, e) /\ \A q : wrap_errout(q, fails) = IF fails THEN Append(q, e) ELSE q
  BY DEF Aside, wrap_errout
<1> HIDE DEF e
<1>2. CASE wrap_printf(line) = out
  BY <1>1, <1>2 DEF Aside2
<1>3. CASE Aside(call, line) /\ wrap_printf(line) = Append(out, line)
  BY <1>1, <1>3 DEF Aside2
<1>4. QED
  BY <1>2, <1>3, HeadingIs

LEMMA QuietIs ==
    ASSUME P!PlaceInv, Quiet, stage' \in {"load", "run", "closed"}
    PROVE  /\ stage \in {"load", "run", "closed"} /\ UNCHANGED <<funcs, call, files>>
           /\ CmdFile' = CmdFile
           /\ Aside2(call, out, out')
<1>0. cur \in [file : Nat, obj : Nat] /\ Aside2(call, out, out)
  BY DEF P!PlaceInv, Aside2
<1>1. \A fails \in BOOLEAN : Aside2(call, out, wrap_errout(out, fails))
  BY ErrorIs
<1>2. CASE dumpwrap_load
  <2>1. stage = "load" /\ stage' = "run" /\ pc' = "object" /\ UNCHANGED <<funcs, call, files>>
    BY <1>2 DEF dumpwrap_load, D!dumpwrap_load
  <2>2. cur' = cur /\ out' = wrap_errout(out, pc' = "load")
    BY <1>2, <2>1 DEF dumpwrap_load, D!dumpwrap_load
  <2>3. QED
    BY <1>1, <2>1, <2>2 DEF CmdFile
<1>3. CASE dump_bfd
  <2> DEFINE line == [kind |-> "file", object |-> cur]
             fails == syms' # D!Object.syms \/ (D!Object.dynsyms # {} /\ dynsyms' # D!Object.dynsyms)
  <2>1. /\ stage = "run" /\ stage' = "run" /\ UNCHANGED <<funcs, call, files, cur>>
        /\ out' = wrap_errout(wrap_printf(line), fails)
    BY <1>3 DEF dump_bfd, D!slurp_symtab
  <2>2. line.kind = "file" /\ fails \in BOOLEAN
    OBVIOUS
  <2> HIDE DEF line, fails
  <2>3. Aside2(call, out, out')
    BY <2>1, <2>2, HeadingAndError
  <2>4. QED
    BY <2>1, <2>3 DEF CmdFile
<1>4. CASE disassemble_section
  <2>1. stage = "run" /\ stage' = "run" /\ UNCHANGED <<funcs, call, files, cur>>
    BY <1>4 DEF disassemble_section, D!disassemble_section
  <2>2. PICK line : line = [kind |-> "section", object |-> cur, section |-> sec']
    OBVIOUS
  <2>3. out' = out \/ out' = wrap_printf(line)
    BY <1>4, <2>2 DEF disassemble_section
  <2>4. line.kind = "section"
    BY <2>2
  <2>5. Aside2(call, out, wrap_printf(line))
    BY <2>4, HeadingIs DEF Aside2
  <2>6. Aside2(call, out, out')
    BY <1>0, <2>3, <2>5
  <2>7. QED
    BY <2>1, <2>6 DEF CmdFile
<1>5. CASE display_bfd \/ disassemble_data \/ Walk
  <2>1. stage = "run" /\ UNCHANGED <<funcs, call, files, stage>>
    BY <1>5 DEF display_bfd, disassemble_data, Walk, cmd,
                D!display_bfd, D!disassemble_data, D!SectionEnd, D!DataEnd, D!FreeTables
  <2>2. cur'.file = cur.file
    <3>1. cur' = cur \/ cur' = [cur EXCEPT !.obj = @ + 1]
      BY <1>5 DEF display_bfd, disassemble_data, Walk,
                  D!display_bfd, D!disassemble_data, D!SectionEnd, D!DataEnd, D!FreeTables
    <3>2. QED
      BY <1>0, <3>1
  <2>3. Aside2(call, out, out')
    <3>1. out' = out \/ out' = wrap_errout(out, pc' = "object") \/ out' = wrap_errout(out, pc' = "free")
      BY <1>5 DEF display_bfd, disassemble_data, Walk, cmd
    <3>2. QED
      BY <1>0, <1>1, <3>1
  <2>4. QED
    BY <2>1, <2>2, <2>3 DEF CmdFile
<1>6. CASE CloseFile
  <2>1. /\ stage = "run" /\ stage' = "closed" /\ UNCHANGED <<funcs, call, files>>
        /\ cur' = [file |-> cur.file + 1, obj |-> 1]
        /\ (out' = out \/ out' = wrap_errout(out, TRUE))
    BY <1>6 DEF CloseFile, D!CloseFile, D!NextFile
  <2>2. cur'.file - 1 = cur.file
    BY <1>0, <2>1
  <2>3. Aside2(call, out, out')
    BY <1>0, <1>1, <2>1
  <2>4. QED
    BY <2>1, <2>2, <2>3 DEF CmdFile
<1>7. CASE UNCHANGED vars
  BY <1>0, <1>7 DEF vars, cmd, walk, CmdFile
<1>8. QED
  BY <1>2, <1>3, <1>4, <1>5, <1>6, <1>7 DEF Quiet

LEMMA StepsAre ==
    [Next]_vars => main \/ on_execaction_clicked \/ Quiet \/ FuncStart \/ End
BY DEF Next, Quiet

(* A step that asks about a function, and what is written for it. *)
LEMMA QuestionIs ==
    ASSUME P!WalkInv, FuncStart
    PROVE  \E f :
              /\ Grows(funcs, funcs', f) /\ f.object = cur
              /\ UNCHANGED <<pc, files, cur, stage, call>> /\ stage = "run" /\ pc = "function"
              /\ out' = out \o (IF ListedFor(call, f) THEN <<[kind |-> "line", f |-> f]>> ELSE <<>>)
                            \o (IF WantedFor(call, f) THEN <<[kind |-> "text", f |-> f]>> ELSE <<>>)
<1> DEFINE f == P!Asked
<1>1. P!FuncStart /\ P!PlaceInv /\ P!SymsInv /\ P!FuncsInv /\ P!TilesInv
  BY SameFuncStart DEF FuncStart, P!WalkInv
<1>2. PICK l \in Nat : l = Len(funcs)
  BY <1>1, LoadsAre, P!AskedIs
<1>3. /\ P!IsSeq(funcs') /\ Len(funcs') = l + 1 /\ funcs'[l + 1] = f
      /\ \A i \in 1..l : funcs'[i] = funcs[i]
      /\ UNCHANGED <<pc, files, cur>> /\ pc = "function"
  BY <1>1, <1>2, LoadsAre, P!AskedIs
<1>4. \A i \in 1..l : funcs[i] # f
  BY <1>1, <1>2, LoadsAre, P!AskedOnce
<1>5. f.object = cur
  BY DEF P!Asked
<1>6. Last(funcs') = f
  BY <1>3 DEF Last
<1> HIDE DEF f
<1>7. out' = out \o (IF Listed(f) THEN <<[kind |-> "line", f |-> f]>> ELSE <<>>)
                 \o (IF Wanted(f) THEN <<[kind |-> "text", f |-> f]>> ELSE <<>>)
  <2>1. (allowout' <=> Wanted(f)) /\ (Wanted(f) => dump)
    BY <1>6, WantedHasDump DEF FuncStart, AllowedAfter
  <2>2. /\ out' = out \o (IF Listed(f) THEN <<[kind |-> "line", f |-> f]>> ELSE <<>>)
                     \o (IF allowout' /\ dump THEN <<[kind |-> "text", f |-> f]>> ELSE <<>>)
    BY <1>6 DEF FuncStart
  <2>3. QED
    BY <2>1, <2>2
<1>8. (Listed(f) <=> ListedFor(call, f)) /\ (Wanted(f) <=> WantedFor(call, f))
  BY WantedIs
<1>9. out' = out \o (IF ListedFor(call, f) THEN <<[kind |-> "line", f |-> f]>> ELSE <<>>)
                 \o (IF WantedFor(call, f) THEN <<[kind |-> "text", f |-> f]>> ELSE <<>>)
  BY <1>7, <1>8
<1>10. UNCHANGED <<stage, call>> /\ stage = "run"
  BY DEF FuncStart
<1>11. Grows(funcs, funcs', f)
  BY <1>2, <1>3, <1>4 DEF Grows
<1>12. QED
  BY <1>3, <1>5, <1>9, <1>10, <1>11

(* A mode wants lines or texts, not both. *)
LEMMA LineOrText ==
    ASSUME NEW c, NEW f
    PROVE  /\ ListedFor(c, f) => ~WantedFor(c, f)
           /\ c.mode \in ListModes => ~WantedFor(c, f)
           /\ c.mode \notin ListModes => ~ListedFor(c, f)
BY DEF ListedFor, WantedFor, ListModes

LEMMA ShortOnes == P!IsSeq(<<>>) /\ \A e : P!IsSeq(<<e>>)
BY DEF P!IsSeq, P!Range

(* No function is of a file behind the one in hand. *)
LEMMA FilesOf ==
    ASSUME P!WalkInv
    PROVE  /\ cur \in [file : Nat, obj : Nat]
           /\ \A i \in 1..Len(funcs) : funcs[i].object.file \in Nat /\ funcs[i].object.file <= cur.file
<1>1. cur \in [file : Nat, obj : Nat]
  BY DEF P!WalkInv, P!PlaceInv
<1>2. ASSUME NEW i \in 1..Len(funcs)
      PROVE  funcs[i].object.file \in Nat /\ funcs[i].object.file <= cur.file
  <2>1. funcs[i].object \in [file : Nat, obj : Nat] /\ P!Passed(i)
    BY DEF P!WalkInv, P!FuncsInv
  <2>2. QED
    BY <1>1, <2>1 DEF P!Passed
<1>3. QED
  BY <1>1, <1>2

LEMMA StageStep == P!WalkInv /\ StageInv /\ [Next]_vars => StageInv'
<1> SUFFICES ASSUME P!WalkInv, StageInv, [Next]_vars PROVE StageInv'
  OBVIOUS
<1>0. /\ cur \in [file : Nat, obj : Nat]
      /\ \A i \in 1..Len(funcs) : funcs[i].object.file \in Nat /\ funcs[i].object.file <= cur.file
  BY FilesOf
<1>1. CASE main \/ on_execaction_clicked
  <2>1. /\ UNCHANGED <<pc, cur, funcs>> /\ pc = "load"
        /\ \/ UNCHANGED <<stage, call, out>>
           \/ /\ call' \in [by : {"app", "dlg"}, mode : EExcDasmMode, param : Param]
              /\ \/ stage' = "idle" /\ P!IsSeq(out')
                 \/ stage' = "load" /\ P!IsSeq(out') /\ ~Refused(call'.mode, call'.param)
    BY <1>1, CallIs, ShortOnes DEF walk, StageInv
  <2>2. CASE UNCHANGED <<stage, call, out>>
    BY <2>1, <2>2 DEF StageInv
  <2>3. CASE ~UNCHANGED <<stage, call, out>>
    <3>1. stage' \in {"idle", "load"} /\ P!IsSeq(out')
      BY <2>1, <2>3
    <3>2. stage' # "idle" => ~Refused(call'.mode, call'.param)
      BY <2>1, <2>3
    <3>3. QED
      BY <2>1, <2>3, <3>1, <3>2 DEF StageInv
  <2>4. QED
    BY <2>2, <2>3
<1>0a. \A fails \in BOOLEAN : P!IsSeq(wrap_errout(out, fails))
  BY Joined DEF wrap_errout, StageInv
<1>2. CASE dumpwrap_load
  <2>1. /\ stage = "load" /\ UNCHANGED <<funcs, call>> /\ P!IsSeq(out')
        /\ \/ pc' = "object" /\ stage' = "run"
           \/ pc' = "load" /\ stage' = "missing" /\ cur' = [file |-> cur.file + 1, obj |-> 1]
    BY <1>0a, <1>2 DEF dumpwrap_load, D!dumpwrap_load, D!NextFile
  <2>2. pc' = "load" => \A i \in 1..Len(funcs) : funcs[i].object.file < cur'.file
    BY <1>0, <2>1
  <2>3. QED
    BY <2>1, <2>2 DEF StageInv
<1>3. CASE CloseFile
  <2>1. /\ stage = "run" /\ stage' = "closed" /\ UNCHANGED <<funcs, call>>
        /\ pc' = "load" /\ cur' = [file |-> cur.file + 1, obj |-> 1]
        /\ (out' = out \/ out' = wrap_errout(out, TRUE))
    BY <1>3 DEF CloseFile, D!CloseFile, D!NextFile
  <2>2. \A i \in 1..Len(funcs) : funcs[i].object.file < cur'.file
    BY <1>0, <2>1
  <2>3. P!IsSeq(out')
    BY <1>0a, <2>1 DEF StageInv
  <2>4. QED
    BY <2>1, <2>2, <2>3 DEF StageInv
<1>4. CASE display_bfd \/ dump_bfd \/ disassemble_data \/ disassemble_section \/ Walk
  <2>1. stage = "run" /\ stage' = "run" /\ call' = call
    BY <1>4 DEF display_bfd, dump_bfd, disassemble_data, disassemble_section, Walk, cmd
  <2>2. pc' # "load"
    BY <1>4 DEF display_bfd, dump_bfd, disassemble_data, disassemble_section, Walk,
                D!display_bfd, D!slurp_symtab, D!disassemble_data, D!disassemble_section,
                D!SectionEnd, D!DataEnd, D!FreeTables
  <2>3. Aside2(call, out, out')
    BY <1>4, <2>1, QuietIs DEF Quiet, P!WalkInv
  <2>4. P!IsSeq(out')
    BY <2>3, AsideKeeps DEF StageInv
  <2>5. QED
    BY <2>1, <2>2, <2>4 DEF StageInv
<1>6. CASE FuncStart
  <2>1. PICK f :
              /\ UNCHANGED <<pc, stage, call>> /\ stage = "run" /\ pc = "function"
              /\ out' = out \o (IF ListedFor(call, f) THEN <<[kind |-> "line", f |-> f]>> ELSE <<>>)
                            \o (IF WantedFor(call, f) THEN <<[kind |-> "text", f |-> f]>> ELSE <<>>)
    BY <1>6, QuestionIs
  <2> DEFINE u == [kind |-> "line", f |-> f]
             v == [kind |-> "text", f |-> f]
  <2> HIDE DEF u, v
  <2>2. P!IsSeq(out)
    BY DEF StageInv
  <2>3. out' = out \o (IF ListedFor(call, f) THEN <<u>> ELSE <<>>)
                   \o (IF WantedFor(call, f) THEN <<v>> ELSE <<>>)
    BY <2>1 DEF u, v
  <2>4. PICK q : q = out \o (IF ListedFor(call, f) THEN <<u>> ELSE <<>>) /\ P!IsSeq(q)
    BY <2>2, Joined
  <2>5. P!IsSeq(out')
    BY <2>3, <2>4, Joined
  <2>6. QED
    BY <2>1, <2>5 DEF StageInv
<1>7. CASE End
  <2>1. /\ stage # "run" /\ stage' = "idle" /\ UNCHANGED <<pc, cur, funcs, call>>
        /\ \E e : out' = Append(out, e)
    BY <1>7 DEF End, walk
  <2>2. P!IsSeq(out')
    BY <2>1, Joined DEF StageInv
  <2>3. QED
    BY <2>1, <2>2 DEF StageInv
<1>8. CASE UNCHANGED vars
  BY <1>8 DEF vars, walk, cmd, StageInv
<1>9. QED
  BY <1>1, <1>2, <1>3, <1>4, <1>6, <1>7, <1>8, StepsAre DEF Quiet

(* When the file is closed, no section of code is left out. *)
LEMMA ClosedStep == P!WalkInv /\ StageInv /\ ClosedInv /\ [Next]_vars => ClosedInv'
<1> SUFFICES ASSUME P!WalkInv, StageInv, ClosedInv, [Next]_vars, stage' = "closed" PROVE ClosedInv'
  BY DEF ClosedInv
<1>1. CASE CloseFile
  <2> DEFINE m == cur.file
  <2>1. /\ pc = "object" /\ cur.obj > Len(P!File) /\ UNCHANGED <<files, funcs, failed>>
        /\ cur' = [file |-> m + 1, obj |-> 1]
    BY <1>1, SameSection DEF CloseFile, D!CloseFile, D!NextFile
  <2>2. cur \in [file : Nat, obj : Nat] /\ m \in 1..Len(files) /\ m \in Nat /\ cur.obj \in Nat
    <3>1. P!PlaceInv
      BY DEF P!WalkInv
    <3>2. Len(files) \in Nat
      BY <3>1, LoadsAre, P!FilesAre
    <3>3. QED
      BY <2>1, <3>1, <3>2 DEF P!PlaceInv
  <2>3. /\ P!IsSeq(files[m]) /\ Len(files[m]) \in Nat
        /\ \A j \in 1..Len(files[m]) : P!IsSeq(files[m][j].sections)
    <3>1. P!PlaceInv
      BY DEF P!WalkInv
    <3>2. P!IsLoad(files)
      BY <3>1, LoadsAre DEF P!PlaceInv
    <3>3. m \in DOMAIN files
      BY <2>2, <3>2, LoadsAre, P!SequenceIs DEF P!IsLoad
    <3>4. P!IsSeq(files[m]) /\ \A j \in DOMAIN files[m] : P!IsObject(files[m][j])
      BY <3>2, <3>3 DEF P!IsLoad
    <3>5. Len(files[m]) \in Nat /\ DOMAIN files[m] = 1..Len(files[m])
      BY <3>4, LoadsAre, P!SequenceIs
    <3>6. QED
      BY <3>4, <3>5 DEF P!IsObject
  <2>4. ASSUME NEW j \in 1..Len(files[m]), [file |-> m, obj |-> j] \notin failed
        PROVE  P!Walked([file |-> m, obj |-> j], Len(files[m][j].sections))
    <3>1. j \in 1..cur.obj - 1
      BY <2>1, <2>2, <2>3 DEF P!File
    <3>2. P!CoverInv
      BY DEF P!WalkInv
    <3>3. P!Walked(P!ObjectAt(j), Len(P!File[j].sections))
      BY <2>1, <2>4, <3>1, <3>2 DEF P!CoverInv, P!ObjectAt
    <3>4. QED
      BY <3>3 DEF P!ObjectAt, P!File
  <2>5. ASSUME NEW o, NEW n PROVE P!Walked(o, n)' <=> P!Walked(o, n)
    BY <2>1, LoadsAre, P!WalkedKept
  <2>6. cur'.file - 1 = m
    BY <2>1, <2>2
  <2>7. QED
    BY <2>1, <2>2, <2>3, <2>4, <2>5, <2>6 DEF ClosedInv
<1>2. CASE UNCHANGED vars
  <2>1. UNCHANGED <<files, funcs, cur, failed, stage>>
    BY <1>2 DEF vars, walk, cmd
  <2>2. ASSUME NEW o, NEW n PROVE P!Walked(o, n)' <=> P!Walked(o, n)
    BY <2>1, LoadsAre, P!WalkedKept
  <2>3. QED
    BY <2>1, <2>2 DEF ClosedInv
<1>3. QED
  <2>1. ~ (main \/ on_execaction_clicked)
    BY CallIs DEF walk
  <2>2. QED
    BY <1>1, <1>2, <2>1 DEF Next, dumpwrap_load, display_bfd, dump_bfd, disassemble_data, disassemble_section, Walk,
                    FuncStart, End, cmd

(* A command starts when no function is of its file. *)
LEMMA StartIs ==
    ASSUME P!WalkInv, StageInv, main \/ on_execaction_clicked, stage' \in {"load", "run", "closed"}
    PROVE  /\ TextsAre(out', funcs', CmdFile', call')
           /\ LinesAre(out', funcs', CmdFile', call')
<1>1. /\ funcs' = funcs /\ cur' = cur /\ stage = "idle" /\ stage' = "load"
      /\ out' = <<[kind |-> "title"]>>
  BY CallIs DEF walk
<1>2. CmdFile' = cur.file
  BY <1>1 DEF CmdFile
<1>3. \A i \in 1..Len(funcs) : funcs[i].object.file < cur.file
  BY <1>1 DEF StageInv
<1>4. Mine(funcs, cur.file) = {}
  BY <1>3, FilesOf DEF Mine
<1>5. QED
  BY <1>1, <1>2, <1>4, NoneYet

LEMMA TextStep == P!WalkInv /\ StageInv /\ TextInv /\ [Next]_vars => TextInv'
<1> SUFFICES ASSUME P!WalkInv, StageInv, TextInv, [Next]_vars, stage' \in {"load", "run", "closed"}
             PROVE  TextsAre(out', funcs', CmdFile', call')
  BY DEF TextInv
<1>0. P!IsSeq(out)
  BY DEF StageInv
<1>1. CASE main \/ on_execaction_clicked
  BY <1>1, StartIs
<1>2. CASE Quiet
  <2>1. /\ stage \in {"load", "run", "closed"} /\ UNCHANGED <<funcs, call>> /\ CmdFile' = CmdFile
        /\ Aside2(call, out, out')
    BY <1>2, QuietIs DEF P!WalkInv
  <2>2. TextsAre(out, funcs, CmdFile, call)
    BY <2>1 DEF TextInv
  <2>3. TextsAre(out', funcs, CmdFile, call)
    BY <1>0, <2>1, <2>2, AsideKeeps
  <2>4. QED
    BY <2>1, <2>3
<1>3. CASE FuncStart
  <2>1. PICK f :
          /\ Grows(funcs, funcs', f) /\ f.object = cur
          /\ UNCHANGED <<pc, files, cur, stage, call>> /\ stage = "run" /\ pc = "function"
          /\ out' = out \o (IF ListedFor(call, f) THEN <<[kind |-> "line", f |-> f]>> ELSE <<>>)
                        \o (IF WantedFor(call, f) THEN <<[kind |-> "text", f |-> f]>> ELSE <<>>)
    BY <1>3, QuestionIs
  <2> DEFINE u == [kind |-> "line", f |-> f]
             t == [kind |-> "text", f |-> f]
             m == cur.file
  <2>2. TextsAre(out, funcs, m, call) /\ CmdFile' = m /\ f.object.file = m
    BY <2>1 DEF TextInv, CmdFile
  <2>3. u.kind # "text"
    OBVIOUS
  <2>4. out' = out \o (IF ListedFor(call, f) THEN <<u>> ELSE <<>>)
                   \o (IF WantedFor(call, f) THEN <<t>> ELSE <<>>)
    BY <2>1
  <2> DEFINE q == IF ListedFor(call, f) THEN Append(out, u) ELSE out
  <2> HIDE DEF u, m
  <2>5. P!IsSeq(q) /\ out \o (IF ListedFor(call, f) THEN <<u>> ELSE <<>>) = q
    BY <1>0, Joined
  <2>6. TextsAre(q, funcs, m, call)
    <3>1. TextsAre(Append(out, u), funcs, m, call)
      BY <1>0, <2>2, <2>3, TextsStay
    <3>2. QED
      BY <2>2, <3>1
  <2> HIDE DEF q
  <2>7. out' = IF WantedFor(call, f) THEN Append(q, t) ELSE q
    <3> HIDE DEF t
    <3>1. q \o <<t>> = Append(q, t) /\ q \o <<>> = q
      BY <2>5, Joined
    <3>2. QED
      BY <2>4, <2>5, <3>1
  <2>8. /\ ~WantedFor(call, f) => TextsAre(q, funcs', m, call)
        /\ WantedFor(call, f) => TextsAre(Append(q, t), funcs', m, call)
    <3>1. P!IsSeq(q) /\ f.object.file = m /\ TextsAre(q, funcs, m, call) /\ Grows(funcs, funcs', f)
      BY <2>1, <2>2, <2>5, <2>6
    <3> HIDE DEF t
    <3>2. /\ ~WantedFor(call, f) => TextsAre(q, funcs', m, call)
          /\ WantedFor(call, f) => TextsAre(Append(q, [kind |-> "text", f |-> f]), funcs', m, call)
      BY <3>1, TextsGrow
    <3>3. QED
      BY <3>2 DEF t
  <2>9. QED
    BY <2>1, <2>2, <2>7, <2>8
<1>4. CASE End
  BY <1>4 DEF End
<1>5. QED
  BY <1>1, <1>2, <1>3, <1>4, StepsAre

LEMMA ListStep == P!WalkInv /\ StageInv /\ ListInv /\ [Next]_vars => ListInv'
<1> SUFFICES ASSUME P!WalkInv, StageInv, ListInv, [Next]_vars, stage' \in {"load", "run", "closed"},
                    call'.mode \in ListModes
             PROVE  LinesAre(out', funcs', CmdFile', call')
  BY DEF ListInv
<1>0. P!IsSeq(out)
  BY DEF StageInv
<1>1. CASE main \/ on_execaction_clicked
  BY <1>1, StartIs
<1>2. CASE Quiet
  <2>1. /\ stage \in {"load", "run", "closed"} /\ UNCHANGED <<funcs, call>> /\ CmdFile' = CmdFile
        /\ Aside2(call, out, out')
    BY <1>2, QuietIs DEF P!WalkInv
  <2>2. LinesAre(out, funcs, CmdFile, call)
    BY <2>1 DEF ListInv
  <2>3. LinesAre(out', funcs, CmdFile, call)
    BY <1>0, <2>1, <2>2, AsideKeeps
  <2>4. QED
    BY <2>1, <2>3
<1>3. CASE FuncStart
  <2>1. PICK f :
          /\ Grows(funcs, funcs', f) /\ f.object = cur
          /\ UNCHANGED <<pc, files, cur, stage, call>> /\ stage = "run" /\ pc = "function"
          /\ out' = out \o (IF ListedFor(call, f) THEN <<[kind |-> "line", f |-> f]>> ELSE <<>>)
                        \o (IF WantedFor(call, f) THEN <<[kind |-> "text", f |-> f]>> ELSE <<>>)
    BY <1>3, QuestionIs
  <2> DEFINE u == [kind |-> "line", f |-> f]
             m == cur.file
  <2>2. LinesAre(out, funcs, m, call) /\ CmdFile' = m /\ f.object.file = m
    BY <2>1 DEF ListInv, CmdFile
  <2>3. ~WantedFor(call, f)
    BY <2>1, LineOrText
  <2>4. out' = out \o (IF ListedFor(call, f) THEN <<u>> ELSE <<>>) \o <<>>
    BY <2>1, <2>3
  <2> DEFINE q == IF ListedFor(call, f) THEN Append(out, u) ELSE out
  <2> HIDE DEF m
  <2>5. out' = q
    <3> HIDE DEF u
    <3>1. P!IsSeq(q) /\ out \o (IF ListedFor(call, f) THEN <<u>> ELSE <<>>) = q
      BY <1>0, Joined
    <3> HIDE DEF q
    <3>2. q \o <<>> = q
      BY <3>1, Joined
    <3>3. QED
      BY <2>4, <3>1, <3>2
  <2>6. /\ ~ListedFor(call, f) => LinesAre(out, funcs', m, call)
        /\ ListedFor(call, f) => LinesAre(Append(out, u), funcs', m, call)
    BY <1>0, <2>1, <2>2, LinesGrow
  <2>7. LinesAre(q, funcs', m, call)
    BY <2>6
  <2> HIDE DEF q
  <2>8. QED
    BY <2>1, <2>2, <2>5, <2>7
<1>4. CASE End
  BY <1>4 DEF End
<1>5. QED
  BY <1>1, <1>2, <1>3, <1>4, StepsAre

LEMMA WholeCommand ==
    /\ Init => P!WalkInv /\ CmdInv
    /\ P!WalkInv /\ CmdInv /\ [Next]_vars => (P!WalkInv /\ CmdInv)'
<1>1. ASSUME Init PROVE P!WalkInv /\ CmdInv
  <2>1. P!Init
    BY <1>1 DEF Init, D!Init, P!Init
  <2>2. P!WalkInv
    BY <2>1, LoadsAre, P!WholeWalk
  <2>3. StageInv /\ ClosedInv /\ TextInv /\ ListInv
    <3>1. stage = "idle" /\ pc = "load" /\ Len(funcs) = 0 /\ out = <<>>
      BY <1>1 DEF Init, D!Init
    <3>2. call \in [by : {"app", "dlg"}, mode : EExcDasmMode, param : Param]
      BY <1>1 DEF Init, EExcDasmMode, Param
    <3>3. QED
      BY <3>1, <3>2, ShortOnes DEF StageInv, ClosedInv, TextInv, ListInv
  <2>4. QED
    BY <2>2, <2>3 DEF CmdInv
<1>2. P!WalkInv /\ CmdInv /\ [Next]_vars => (P!WalkInv /\ CmdInv)'
  <2>1. P!WalkInv /\ [Next]_vars => P!WalkInv'
    BY WalkStep, LoadsAre, P!WholeWalk
  <2>2. QED
    BY <2>1, StageStep, ClosedStep, TextStep, ListStep DEF CmdInv
<1>3. QED
  BY <1>1, <1>2

-----------------------------------------------------------------------------
(* The dialog gives Exc_Dasm no command it refuses: what it asks of the     *)
(* parameter before it goes on leaves no case for Exc_Dasm to refuse.       *)
THEOREM DialogIsNotRefused == Spec => []DialogChecks
<1>0. 0 # E_EXC_INVALID /\ 1 # E_EXC_INVALID
  BY DEF E_EXC_INVALID
<1>1. Init => DialogChecks
  BY DEF Init, DialogChecks
<1>2. DialogChecks /\ [Next]_vars => DialogChecks'
  <2> SUFFICES ASSUME DialogChecks, [Next]_vars PROVE DialogChecks'
    OBVIOUS
  <2>1. CASE main
    <3>1. PICK mode \in EExcDasmMode, arg \in Param, elffile \in {"", "file"} :
            \/ result' = 1 /\ call' = call
            \/ Exc_Dasm("app", elffile, mode, IF NeedsParam(mode) THEN arg ELSE NULL)
      BY <2>1 DEF main
    <3>2. CASE result' = 1 /\ call' = call
      BY <1>0, <3>2 DEF DialogChecks
    <3>3. CASE Exc_Dasm("app", elffile, mode, IF NeedsParam(mode) THEN arg ELSE NULL)
      BY <3>3 DEF Exc_Dasm, DialogChecks
    <3>4. QED
      BY <3>1, <3>2, <3>3
  <2>2. CASE on_execaction_clicked
    <3>1. PICK index \in DOMAIN DlgModes, param \in Strings \cup {""} :
            /\ ~(param = "" /\ actmod(index, param) \in {"FuncMatch", "Func", "Addr"})
            /\ Exc_Dasm("dlg", "file", actmod(index, param), param)
      BY <2>2 DEF on_execaction_clicked
    <3>2. param = "" => actmod(index, param) # "FuncMatchList"
      <4>1. DlgModes[index] # "FuncMatchList"
        BY NoSuchMode
      <4>2. QED
        BY <4>1 DEF actmod
    <3>3. ~Refused(actmod(index, param), param)
      <4>1. CASE param = ""
        BY <3>1, <3>2, <4>1 DEF Refused, NeedsParam
      <4>2. CASE param \in Strings /\ param # ""
        BY <4>2, CmdAssumption DEF Refused
      <4>3. QED
        BY <4>1, <4>2
    <3>4. result' = 0
      BY <3>1, <3>3 DEF Exc_Dasm
    <3>5. QED
      BY <1>0, <3>4 DEF DialogChecks
  <2>3. CASE End
    BY <1>0, <2>3 DEF End, DialogChecks
  <2>4. CASE FuncStart \/ Quiet
    BY <2>4 DEF FuncStart, Quiet, dumpwrap_load, display_bfd, dump_bfd, disassemble_data,
                disassemble_section, Walk, CloseFile, vars, cmd, DialogChecks
  <2>5. QED
    BY <2>1, <2>2, <2>3, <2>4, StepsAre
<1>3. QED
  BY <1>1, <1>2, PTL DEF Spec

-----------------------------------------------------------------------------
LEMMA OutIs ==
    ASSUME P!WalkInv, StageInv
    PROVE  /\ Len(funcs) \in Nat /\ DOMAIN funcs = 1..Len(funcs)
           /\ DOMAIN out = 1..Len(out) /\ Lines("text") = Texts(out)
           /\ P!PlaceInv /\ P!FuncsInv /\ P!TilesInv /\ P!CoverInv /\ P!NamesInv
<1>1. P!PlaceInv /\ P!FuncsInv /\ P!TilesInv /\ P!CoverInv /\ P!NamesInv
  BY DEF P!WalkInv
<1>2. Len(funcs) \in Nat /\ DOMAIN funcs = 1..Len(funcs)
  BY <1>1, LoadsAre, P!RangesAre
<1>3. DOMAIN out = 1..Len(out)
  BY LoadsAre, P!SequenceIs DEF StageInv
<1>4. QED
  BY <1>1, <1>2, <1>3 DEF Lines, Texts

(* A command for names shows the code of the functions asked for, of any    *)
(* file and table of symbols: an address is shown just when the symbol it   *)
(* belongs to is one the callback of the mode looks for.                    *)
THEOREM NamedCodeIsShown == Spec => []RightAddresses
<1>1. P!WalkInv /\ CmdInv => RightAddresses
  <2> SUFFICES ASSUME P!WalkInv, CmdInv, stage = "run", pc = "function",
                      call.mode \in {"All", "FuncMatch", "Func"},
                      NEW a \in P!Section.vma .. P!addr - 1
               PROVE  LET s == P!SymbolOf(P!Range(sorted_syms), a, sec)
                      IN  Shows(cur, sec, a) <=>
                            CASE call.mode = "All" -> TRUE
                              [] call.mode = "Func" -> s # NULL /\ s.name = call.param
                              [] OTHER -> s # NULL /\ <<s.name, call.param>> \in strstr
    <3>1. \A q : P!Range(q) = Range(q)
      BY DEF P!Range, Range
    <3>2. QED
      BY <3>1, SameSection DEF RightAddresses
  <2> DEFINE s == P!SymbolOf(P!Range(sorted_syms), a, sec)
             Asks(x) == CASE call.mode = "All" -> TRUE
                          [] call.mode = "Func" -> x # NULL /\ x.name = call.param
                          [] OTHER -> x # NULL /\ <<x.name, call.param>> \in strstr
  <2>0. StageInv /\ TextsAre(out, funcs, cur.file, call)
    BY DEF CmdInv, TextInv, CmdFile
  <2>1. PICK l \in Nat : l = Len(funcs)
    BY <2>0, OutIs
  <2>2. \A i \in 1..l : funcs[i].object = cur /\ funcs[i].section = sec /\ funcs[i].start <= a /\ a < funcs[i].end
                           => funcs[i].sym = s
    <3> HIDE DEF s
    <3> SUFFICES ASSUME NEW i \in 1..l, funcs[i].object = cur, funcs[i].section = sec,
                        funcs[i].start <= a, a < funcs[i].end
                 PROVE  funcs[i].sym = s
      OBVIOUS
    <3>1. funcs[i].start \in Nat /\ funcs[i].end \in Nat
      BY <2>0, <2>1, OutIs DEF P!FuncsInv
    <3>2. a \in funcs[i].start .. funcs[i].end - 1
      BY <3>1
    <3>3. QED
      BY <2>0, <2>1, <3>2, OutIs DEF P!NamesInv, s
  <2>3. \A f : WantedFor(call, f) <=> Asks(f.sym)
    BY DEF WantedFor
  <2> HIDE DEF s, Asks
  <2>4. ASSUME Shows(cur, sec, a) PROVE Asks(s)
    <3>1. PICK k \in Texts(out) :
            /\ out[k].f.object = cur /\ out[k].f.section = sec
            /\ out[k].f.start <= a /\ a < out[k].f.end
      BY <2>0, <2>4, OutIs DEF Shows
    <3>2. PICK i \in Mine(funcs, cur.file) : out[k].f = funcs[i] /\ WantedFor(call, funcs[i])
      BY <2>0, <3>1 DEF TextsAre
    <3>3. i \in 1..l
      BY <2>1, <3>2 DEF Mine
    <3>4. funcs[i].sym = s
      BY <2>2, <3>1, <3>2, <3>3
    <3>5. QED
      BY <2>3, <3>2, <3>4
  <2>5. ASSUME Asks(s) PROVE Shows(cur, sec, a)
    <3>1. P!Section.vma \in Nat /\ addr_offset \in Nat /\ a \in Nat
      <4>1. P!Section.vma \in Nat /\ addr_offset \in Nat
        BY <2>0, OutIs, LoadsAre, P!ObjectIs DEF P!PlaceInv, P!Section
      <4>2. QED
        BY <4>1 DEF P!addr
    <3>2. l # 0 /\ P!Place(l) = <<cur, sec>> /\ funcs[l].end = P!addr
      <4>1. addr_offset # 0
        BY <3>1 DEF P!addr
      <4>2. QED
        BY <2>0, <2>1, <4>1, OutIs DEF P!TilesInv
    <3>3. P!SectionOf(funcs[l]) = P!Section
      BY <3>2 DEF P!Place, P!SectionOf, P!Section, P!Object, P!File
    <3>4. l \in 1..Len(funcs) /\ P!SectionOf(funcs[l]).vma <= a /\ a < funcs[l].end
      BY <2>1, <3>1, <3>2, <3>3 DEF P!addr
    <3>5. PICK i \in 1..Len(funcs) : P!Place(i) = P!Place(l) /\ funcs[i].start <= a /\ a < funcs[i].end
      BY <2>0, <3>1, <3>4, OutIs, LoadsAre, P!AddressIn
    <3>6. funcs[i].object = cur /\ funcs[i].section = sec
      BY <3>2, <3>5 DEF P!Place
    <3>7. i \in Mine(funcs, cur.file) /\ WantedFor(call, funcs[i])
      BY <2>1, <2>2, <2>3, <2>5, <3>5, <3>6 DEF Mine
    <3>8. PICK k \in Texts(out) : out[k].f = funcs[i]
      BY <2>0, <3>7 DEF TextsAre
    <3>9. QED
      BY <2>0, <3>5, <3>6, <3>8, OutIs DEF Shows
  <2>6. Shows(cur, sec, a) <=> Asks(s)
    BY <2>4, <2>5
  <2>7. QED
    BY <2>6 DEF Asks, s
<1>2. QED
  BY <1>1, WholeCommand, PTL DEF Spec

(* Whatever files, sections and symbols there are, the command for an       *)
(* address shows the one function it is in, in each section with it.        *)
THEOREM AddressHasItsFunction == Spec => []FunctionOfAddress
<1>1. P!WalkInv /\ CmdInv => FunctionOfAddress
  <2> SUFFICES ASSUME P!WalkInv, CmdInv, stage = "closed", call.mode = "Addr" PROVE FunctionOfAddress
    BY DEF FunctionOfAddress
  <2> DEFINE a    == strtoull[call.param]
             this == cur.file - 1
  <2>0. StageInv /\ ClosedInv /\ TextsAre(out, funcs, this, call) /\ pc = "load"
    BY DEF CmdInv, StageInv, TextInv, CmdFile
  <2>1. PICK l \in Nat : l = Len(funcs)
    BY <2>0, OutIs
  <2>2. a \in Nat
    <3>1. call.param \in Strings
      BY <2>0 DEF StageInv, Refused, NeedsParam, Param
    <3>2. QED
      BY <3>1, CmdAssumption
  <2>3. \A f : WantedFor(call, f) <=> f.start <= a /\ a < f.end
    BY DEF WantedFor
  <2>4. Lines("text") = Texts(out)
    BY <2>0, OutIs
  <2>5. cur.file \in Nat /\ this \in 1..Len(files)
    BY <2>0, FilesOf DEF ClosedInv
  <2> HIDE DEF a, this
  (* What is shown of a section is where the walk was. *)
  <2>6. ASSUME NEW i \in 1..l
        PROVE  /\ funcs[i].start \in Nat /\ funcs[i].end \in Nat
               /\ P!SectionOf(funcs[i]) = files[funcs[i].object.file][funcs[i].object.obj].sections[funcs[i].section]
               /\ P!SectionOf(funcs[i]).vma \in Nat /\ P!SectionOf(funcs[i]).vma <= funcs[i].start
               /\ \E k \in 1..l :
                     /\ P!Place(k) = P!Place(i) /\ funcs[i].end <= funcs[k].end
                     /\ funcs[k].end = P!SectionOf(funcs[i]).vma + P!SectionOf(funcs[i]).size
               /\ funcs[i].object \notin failed /\ P!SectionOf(funcs[i]).code
    <3>1. P!FuncsInv /\ P!TilesInv /\ P!CoverInv
      BY <2>0, OutIs
    <3>2. P!SectionOf(funcs[i]) = files[funcs[i].object.file][funcs[i].object.obj].sections[funcs[i].section]
      BY DEF P!SectionOf
    <3>3. funcs[i].start \in Nat /\ funcs[i].end \in Nat
      BY <2>1, <3>1 DEF P!FuncsInv
    <3>4. P!SectionOf(funcs[i]).vma \in Nat /\ P!SectionOf(funcs[i]).vma <= funcs[i].start
      BY <2>1, <3>1, LoadsAre, P!FirstIn
    <3>5. \E k \in 1..l : /\ P!Place(k) = P!Place(i) /\ funcs[i].end <= funcs[k].end
                          /\ funcs[k].end = P!SectionOf(funcs[i]).vma + P!SectionOf(funcs[i]).size
      BY <2>0, <2>1, <3>1, LoadsAre, P!LastIn
    <3>6. funcs[i].object \notin failed /\ P!SectionOf(funcs[i]).code
      BY <2>1, <3>1 DEF P!CoverInv
    <3>7. QED
      BY <3>2, <3>3, <3>4, <3>5, <3>6
  <2>7. ASSUME NEW j \in DOMAIN files[this], NEW c \in DOMAIN files[this][j].sections,
               Inside([file |-> this, obj |-> j], c, a)
        PROVE  Shows([file |-> this, obj |-> j], c, a)
    <3> DEFINE o == [file |-> this, obj |-> j]
               s == files[this][j].sections[c]
    <3>1. o \notin failed /\ s.code /\ s.vma <= a /\ a < s.vma + s.size
      BY <2>7 DEF Inside
    <3>2. j \in 1..Len(files[this])
      BY <2>0, <2>5, LoadsAre, P!SequenceIs DEF ClosedInv, this
    <3>3. c \in 1..Len(files[this][j].sections) /\ P!Walked(o, Len(files[this][j].sections))
      <4>1. P!IsSeq(files[this][j].sections) /\ P!Walked(o, Len(files[this][j].sections))
        BY <2>0, <3>1, <3>2 DEF ClosedInv, this
      <4>2. QED
        BY <4>1, LoadsAre, P!SequenceIs
    <3>4. s.vma \in Nat /\ s.size \in Nat
      <4>1. P!IsLoad(files)
        BY <2>0, LoadsAre, OutIs DEF P!PlaceInv
      <4>2. this \in DOMAIN files
        BY <2>5, <4>1, LoadsAre, P!SequenceIs DEF P!IsLoad
      <4>3. P!IsObject(files[this][j])
        BY <4>1, <4>2 DEF P!IsLoad
      <4>4. QED
        BY <4>3 DEF P!IsObject, P!IsSection
    <3> HIDE DEF o, s
    <3>5. s = files[o.file][o.obj].sections[c] /\ o.file = this /\ s.size # 0
      BY <2>2, <3>1, <3>4 DEF o, s
    <3>6. PICK i \in 1..l : funcs[i].object = o /\ funcs[i].section = c
      <4>1. P!Of(o, c) # {}
        BY <3>1, <3>3, <3>5 DEF P!Walked
      <4>2. QED
        BY <2>0, <2>1, <4>1, OutIs DEF P!Of
    <3>7. P!SectionOf(funcs[i]) = s
      BY <2>6, <3>5, <3>6
    <3>8. PICK k \in 1..l : P!Place(k) = P!Place(i) /\ funcs[k].end = s.vma + s.size
      BY <2>6, <3>7
    <3>9. P!SectionOf(funcs[k]) = s
      BY <3>7, <3>8 DEF P!Place, P!SectionOf
    <3>10. PICK n \in 1..l : P!Place(n) = P!Place(k) /\ funcs[n].start <= a /\ a < funcs[n].end
      BY <2>0, <2>1, <2>2, <3>1, <3>8, <3>9, OutIs, LoadsAre, P!AddressIn
    <3>11. funcs[n].object = o /\ funcs[n].section = c
      BY <3>6, <3>8, <3>10 DEF P!Place
    <3>12. n \in Mine(funcs, this)
      BY <2>1, <3>5, <3>11 DEF Mine
    <3>13. PICK q \in Texts(out) : out[q].f = funcs[n]
      BY <2>0, <2>3, <3>10, <3>12 DEF TextsAre
    <3>14. QED
      BY <2>4, <3>10, <3>11, <3>13 DEF Shows, o
  <2>8. ASSUME NEW k \in Lines("text")
        PROVE  \E i \in 1..l : /\ out[k].f = funcs[i] /\ funcs[i].object.file = this
                               /\ funcs[i].start <= a /\ a < funcs[i].end
    BY <2>0, <2>1, <2>3, <2>4 DEF TextsAre, Mine
  <2>9. ASSUME NEW k \in Lines("text")
        PROVE  /\ out[k].f.object.file = this /\ Inside(out[k].f.object, out[k].f.section, a)
               /\ out[k].f.start <= a /\ a < out[k].f.end
    <3>1. PICK i \in 1..l : /\ out[k].f = funcs[i] /\ funcs[i].object.file = this
                            /\ funcs[i].start <= a /\ a < funcs[i].end
      BY <2>8
    <3> DEFINE s == P!SectionOf(funcs[i])
    <3>2. PICK e \in 1..l : funcs[i].end <= funcs[e].end /\ funcs[e].end = s.vma + s.size
      BY <2>6
    <3>3. /\ s = files[funcs[i].object.file][funcs[i].object.obj].sections[funcs[i].section]
          /\ s.vma \in Nat /\ s.vma <= funcs[i].start /\ funcs[i].object \notin failed /\ s.code
          /\ funcs[i].start \in Nat /\ funcs[i].end \in Nat /\ funcs[e].end \in Nat
      BY <2>6
    <3> HIDE DEF s
    <3>4. s.vma <= a /\ a < s.vma + s.size
      <4>0. /\ funcs[i].start \in Nat /\ funcs[i].end \in Nat /\ funcs[e].end \in Nat /\ s.vma \in Nat
            /\ s.vma <= funcs[i].start /\ funcs[i].end <= funcs[e].end
        BY <3>2, <3>3
      <4>1. s.vma <= a
        BY <2>2, <3>1, <4>0
      <4>2. a < funcs[e].end
        BY <2>2, <3>1, <4>0
      <4>3. QED
        BY <3>2, <4>1, <4>2
    <3>5. Inside(funcs[i].object, funcs[i].section, a)
      BY <3>3, <3>4 DEF Inside
    <3>6. QED
      BY <3>1, <3>5
  <2>10. ASSUME NEW k \in Lines("text"), NEW n \in Lines("text"),
                out[k].f.object = out[n].f.object, out[k].f.section = out[n].f.section
         PROVE  k = n
    <3>1. PICK i \in 1..l : out[k].f = funcs[i] /\ funcs[i].start <= a /\ a < funcs[i].end
      BY <2>8
    <3>2. PICK j \in 1..l : out[n].f = funcs[j] /\ funcs[j].start <= a /\ a < funcs[j].end
      BY <2>8
    <3>3. P!Place(i) = P!Place(j)
      BY <2>10, <3>1, <3>2 DEF P!Place
    <3>4. P!FuncsInv /\ P!TilesInv
      BY <2>0, OutIs
    <3>5. ~ (i < j)
      <4> SUFFICES ASSUME i < j PROVE FALSE
        OBVIOUS
      <4>1. funcs[i].end <= funcs[j].start
        BY <2>1, <3>3, <3>4, LoadsAre, P!Follow
      <4>2. QED
        BY <2>2, <2>6, <3>1, <3>2, <4>1
    <3>6. ~ (j < i)
      <4> SUFFICES ASSUME j < i PROVE FALSE
        OBVIOUS
      <4>1. funcs[j].end <= funcs[i].start
        BY <2>1, <3>3, <3>4, LoadsAre, P!Follow
      <4>2. QED
        BY <2>2, <2>6, <3>1, <3>2, <4>1
    <3>7. i = j
      BY <3>5, <3>6
    <3>8. QED
      BY <2>0, <2>4, <3>1, <3>2, <3>7 DEF TextsAre
  <2>11. QED
    BY <2>7, <2>9, <2>10 DEF FunctionOfAddress, a, this
<1>2. QED
  BY <1>1, WholeCommand, PTL DEF Spec

(* A list has one line for each function asked for and for no other, in the *)
(* order of the walk, and what failed on the way: nothing else of the file  *)
(* whatever commands and answers there were before.                         *)
THEOREM ListIsComplete == Spec => []ListOfFunctions
<1>1. P!WalkInv /\ CmdInv => ListOfFunctions
  <2> SUFFICES ASSUME P!WalkInv, CmdInv, stage = "closed", call.mode \in {"FuncList", "FuncMatchList"}
               PROVE  ListOfFunctions
    BY DEF ListOfFunctions
  <2> DEFINE mine == {i \in DOMAIN funcs :
                        /\ funcs[i].object.file = cur.file - 1
                        /\ \/ call.mode = "FuncList"
                           \/ funcs[i].sym # NULL /\ <<funcs[i].sym.name, call.param>> \in strstr}
  <2>1. LinesAre(out, funcs, cur.file - 1, call) /\ StageInv
    BY DEF CmdInv, ListInv, CmdFile, ListModes
  <2>2. DOMAIN funcs = 1..Len(funcs) /\ DOMAIN out = 1..Len(out)
    BY <2>1, OutIs
  <2>3. mine = Chosen(funcs, cur.file - 1, call) /\ Lines("line") = LinesOf(out)
    BY <2>2 DEF Chosen, Mine, ListedFor, Lines, LinesOf
  <2> HIDE DEF mine
  <2>4. /\ out[1] = [kind |-> "title"]
        /\ \A k \in 2..Len(out) : out[k].kind \in {"line", "error"}
        /\ \A i \in mine : \E k \in Lines("line") : out[k].f = funcs[i]
        /\ \A k \in Lines("line") : \E i \in mine : out[k].f = funcs[i]
        /\ \A i, j \in mine : \A k, l \in Lines("line") :
              out[k].f = funcs[i] /\ out[l].f = funcs[j] => (k < l <=> i < j)
    BY <2>1, <2>3 DEF LinesAre
  <2>5. QED
    BY <2>4 DEF ListOfFunctions, mine
<1>2. QED
  BY <1>1, WholeCommand, PTL DEF Spec
=============================================================================
