------------------------------ MODULE ExcDasmCmd ------------------------------
(***************************************************************************)
(* The disassembly commands: main (parser/app.c) and the dialog of the     *)
(* plugin (ui/dasmdlg.cpp) choose a mode and a parameter, Exc_Dasm         *)
(* (parser/dasm.c) gives dumpwrap_load a callback that chooses functions   *)
(* and one that writes their text.  The walk through the file is ExcDump,  *)
(* whose actions are used as they are; added is what a command prints.     *)
(* Commands follow each other, each on the next of the files.              *)
(***************************************************************************)
EXTENDS Integers, Sequences, SequencesExt, FiniteSets

CONSTANTS
    NULL,
    Loads,          (* sequences of files; their symbols have a name        *)
    Strings,        (* parameters that are not empty                        *)
    strstr,         (* pairs of a name and a parameter that is part of it   *)
    strtoull        (* the number each parameter starts with, 0 for none    *)

VARIABLES
    pc, files, cur, syms, dynsyms, synthsyms, sorted_syms,
    sec, addr_offset, sym, place, ret, funcs, failed,   (* of ExcDump       *)
    stage,      (* "idle", "load", "run", "closed" or "missing"             *)
    call,       (* who gave the command, its mode and parameter             *)
    allowout,   (* s_pctl->allowout                                         *)
    out,        (* what the command wrote                                   *)
    result      (* what it returned                                         *)

D == INSTANCE ExcDump

ASSUME CmdAssumption ==
    /\ strtoull \in [Strings -> Nat]
    /\ NULL \notin Strings /\ "" \notin Strings
    /\ \A l \in Loads : D!IsLoad(l)

cmd  == <<stage, call, allowout, out, result>>
walk == <<pc, files, cur, syms, dynsyms, synthsyms, sorted_syms,
          sec, addr_offset, sym, place, ret, funcs, failed>>
vars == <<walk, cmd>>

EExcDasmMode == {"All", "FuncList", "FuncMatchList", "FuncMatch", "Func", "Addr"}
Param == Strings \cup {NULL, ""}
E_EXC_INVALID == -1
-----------------------------------------------------------------------------
Init ==
    /\ D!Init
    /\ stage = "idle"
    /\ call = [by |-> "app", mode |-> "All", param |-> NULL]
    /\ allowout = FALSE
    /\ out = <<>>
    /\ result = 0

(* Exc_Dasm up to dumpwrap_load: it refuses a missing parameter, or an      *)
(* empty name of the file.                                                  *)
NeedsParam(mode) == mode \in {"FuncMatchList", "FuncMatch", "Func", "Addr"}
Refused(mode, param)     == NeedsParam(mode) /\ param \in {NULL, ""}
Exc_Dasm(by, elffile, mode, param) ==
    /\ call' = [by |-> by, mode |-> mode, param |-> param]
    /\ \/ /\ elffile = ""
          /\ stage' = "idle" /\ result' = E_EXC_INVALID
          /\ out' = <<>>
       \/ /\ elffile # ""
          /\ Refused(mode, param)
          /\ stage' = "idle" /\ result' = E_EXC_INVALID
          /\ out' = <<[kind |-> "needparam"]>>
       \/ /\ elffile # ""
          /\ ~Refused(mode, param)
          /\ stage' = "load" /\ result' = 0
          /\ out' = <<[kind |-> "title"]>>
    /\ allowout' = FALSE
    /\ UNCHANGED walk

Ready == stage = "idle" /\ cur.file <= Len(files)

(* main: the name of the operation is the mode's; those with a parameter    *)
(* show the help without one (argc < 4), the others give Exc_Dasm none.     *)
main ==
    /\ Ready
    /\ \E mode \in EExcDasmMode, arg \in Param, elffile \in {"", "file"} :
          \/ NeedsParam(mode) /\ arg = NULL /\ result' = 1
             /\ UNCHANGED <<walk, stage, call, allowout, out>>
          \/ ~(NeedsParam(mode) /\ arg = NULL)
             /\ Exc_Dasm("app", elffile, mode, IF NeedsParam(mode) THEN arg ELSE NULL)

(* DasmDlg::on_execaction_clicked: the functions whose name contains the    *)
(* parameter are listed, all without one; it asks for the name of a file    *)
(* and for the parameters first.                                            *)
DlgModes == <<"All", "FuncList", "FuncMatch", "Func", "Addr">>
MatchList(index, param) == IF index = 2 THEN "FuncMatchList" ELSE DlgModes[index]   \* mutant
actmod(index, param) ==
    IF index = 2 /\ param # "" THEN "FuncMatchList" ELSE DlgModes[index]
on_execaction_clicked ==
    /\ Ready
    /\ \E index \in DOMAIN DlgModes, param \in Strings \cup {""} :
          /\ ~(param = "" /\ actmod(index, param) \in {"FuncMatch", "Func", "Addr"})
          /\ Exc_Dasm("dlg", "file", actmod(index, param), param)

-----------------------------------------------------------------------------
(* wrap_printf: the list modes have no callback for text.                   *)
dump == call.mode \in {"All", "FuncMatch", "Func", "Addr"}
wrap_printf(line) == IF allowout /\ dump THEN Append(out, line) ELSE out
(* wrap_errout: dasm_op_errdump writes to the same file, in every mode and  *)
(* whatever is allowed.  What a step writes with it is one "error".         *)
wrap_errout(q, fails) == IF fails THEN Append(q, [kind |-> "error"]) ELSE q

LoadGoesOn ==                                            \* mutant
    /\ stage = "load"
    /\ D!dumpwrap_load
    /\ stage' = "run"
    /\ UNCHANGED <<call, allowout, out, result>>
dumpwrap_load ==
    /\ stage = "load"
    /\ D!dumpwrap_load
    /\ stage' = IF pc' = "object" THEN "run" ELSE "missing"
    /\ out' = wrap_errout(out, pc' = "load")
    /\ UNCHANGED <<call, allowout, result>>

display_bfd ==
    /\ stage = "run"
    /\ D!display_bfd
    /\ out' = wrap_errout(out, pc' = "object")
    /\ UNCHANGED <<stage, call, allowout, result>>

(* dump_bfd prints the name of the object before it reads the tables;       *)
(* slurp_symtab and slurp_dynamic_symtab say when they fail.                *)
dump_bfd ==
    /\ stage = "run"
    /\ D!slurp_symtab
    /\ out' = wrap_errout(wrap_printf([kind |-> "file", object |-> cur]),
                          \/ syms' # D!Object.syms
                          \/ D!Object.dynsyms # {} /\ dynsyms' # D!Object.dynsyms)
    /\ UNCHANGED <<stage, call, allowout, result>>

disassemble_data ==
    /\ stage = "run"
    /\ D!disassemble_data
    /\ out' = wrap_errout(out, pc' = "free")
    /\ UNCHANGED <<stage, call, allowout, result>>

(* disassemble_section prints the name of the section before it asks about  *)
(* its first function.                                                      *)
disassemble_section ==
    /\ stage = "run"
    /\ D!disassemble_section
    /\ out' = IF pc' = "function"
              THEN wrap_printf([kind |-> "section", object |-> cur, section |-> sec']) ELSE out
    /\ UNCHANGED <<stage, call, allowout, result>>

(* The steps of the walk that print nothing. *)
Walk ==
    /\ stage = "run"
    /\ D!SectionEnd \/ D!DataEnd \/ D!FreeTables
    /\ UNCHANGED cmd

(* strcmp, strstr with the name of a function, NULL without a symbol.       *)
Same(s)     == s # NULL /\ s.name = call.param
Matches(s)  == s # NULL /\ <<s.name, call.param>> \in strstr
(* dasm_addr_act *)
AddrInside(start, end)  == start <= strtoull[call.param] /\ strtoull[call.param] <= end   \* mutant
dasm_addr_act(start, end) == start <= strtoull[call.param] /\ strtoull[call.param] < end

(* What the callback of the mode answers for a function. *)
Wanted(f) ==
    CASE call.mode = "All" -> TRUE
      [] call.mode = "FuncMatch" -> Matches(f.sym)
      [] call.mode = "Func" -> Same(f.sym)
      [] call.mode = "Addr" -> dasm_addr_act(f.start, f.end)
      [] OTHER -> FALSE

(* The list modes write a line themselves. *)
ListUnnamed(f) == call.mode \in {"FuncList", "FuncMatchList"}               \* mutant
Listed(f) == call.mode = "FuncList" \/ (call.mode = "FuncMatchList" /\ Matches(f.sym))

(* disassemble_section asks act about a function; its answer allows output, *)
(* the text of the function first, until the next question, also after      *)
(* FuncEnd.                                                                 *)
StaysAllowed(answer)    == allowout \/ answer             \* mutant
AllowedAfter(answer)    == answer
FuncStart ==
    /\ stage = "run"
    /\ D!FuncStart
    /\ LET f == Last(funcs')
       IN  /\ allowout' = AllowedAfter(Wanted(f))
           /\ out' = out \o (IF Listed(f) THEN <<[kind |-> "line", f |-> f]>> ELSE <<>>)
                         \o (IF allowout' /\ dump THEN <<[kind |-> "text", f |-> f]>> ELSE <<>>)
    /\ UNCHANGED <<stage, call, result>>

CloseFile ==
    /\ stage = "run"
    /\ D!CloseFile
    /\ \/ ret' = ret /\ out' = out
       \/ D!Broken /\ out' = wrap_errout(out, TRUE)
    /\ stage' = "closed"
    /\ UNCHANGED <<call, allowout, result>>

(* The end of Exc_Dasm: what dumpwrap_load returned is printed, not         *)
(* returned.                                                                *)
End ==
    /\ stage \in {"closed", "missing"}
    /\ out' = Append(out, [kind |-> "end", ret |-> ret])
    /\ result' = 0
    /\ stage' = "idle"
    /\ UNCHANGED <<walk, call, allowout>>

Next ==
    \/ main \/ on_execaction_clicked
    \/ dumpwrap_load \/ display_bfd \/ dump_bfd \/ disassemble_data \/ disassemble_section
    \/ Walk \/ FuncStart \/ CloseFile \/ End

Running == stage # "idle" /\ Next
Spec == Init /\ [][Next]_vars /\ WF_vars(Running)

-----------------------------------------------------------------------------
Lines(kind) == {k \in DOMAIN out : out[k].kind = kind}
(* The text that is shown of section c of object o contains address a. *)
Shows(o, c, a) == \E k \in Lines("text") :
    LET f == out[k].f IN f.object = o /\ f.section = c /\ f.start <= a /\ a < f.end

(* A command for a name shows the code of the symbols with that name, and   *)
(* of no other: each address the walk has passed is shown exactly when the  *)
(* symbol it belongs to is asked for (as D!NamedByItsSymbol has it, the     *)
(* first symbol of a section also names what precedes it).                  *)
RightAddresses ==
    stage = "run" /\ pc = "function" /\ call.mode \in {"All", "FuncMatch", "Func"} =>
        \A a \in D!Section.vma .. D!addr - 1 :
            LET s == D!SymbolOf(Range(sorted_syms), a, sec)
            IN  Shows(cur, sec, a) <=>
                    CASE call.mode = "All" -> TRUE
                      [] call.mode = "Func" -> s # NULL /\ s.name = call.param
                      [] OTHER -> s # NULL /\ <<s.name, call.param>> \in strstr

(* Section c of object o, which was disassembled, is code and contains a.   *)
Inside(o, c, a) ==
    LET s == files[o.file][o.obj].sections[c]
    IN  o \notin failed /\ s.code /\ s.vma <= a /\ a < s.vma + s.size
(* exc_parse.h: EExcDasmAddr disassembles the function an address is in.    *)
(* When the file is closed every section of code with the address, of an    *)
(* object that was disassembled, has exactly one text, which contains it,   *)
(* and there is no other text.                                              *)
FunctionOfAddress ==
    stage = "closed" /\ call.mode = "Addr" =>
        LET a    == strtoull[call.param]
            this == cur.file - 1
        IN  /\ \A j \in DOMAIN files[this] : \A c \in DOMAIN files[this][j].sections :
                  LET o == [file |-> this, obj |-> j]
                  IN  Inside(o, c, a) => Shows(o, c, a)
            /\ \A k \in Lines("text") :
                  LET f == out[k].f
                  IN  /\ f.object.file = this /\ Inside(f.object, f.section, a)
                      /\ f.start <= a /\ a < f.end
            /\ \A k, l \in Lines("text") :
                  out[k].f.object = out[l].f.object /\ out[k].f.section = out[l].f.section => k = l

(* A list has one line for each function asked for and for no other, in the *)
(* order of the walk; else there is the title and what failed, nothing of   *)
(* the file.                                                                *)
ListOfFunctions ==
    stage = "closed" /\ call.mode \in {"FuncList", "FuncMatchList"} =>
        LET mine == {i \in DOMAIN funcs :
                        /\ funcs[i].object.file = cur.file - 1
                        /\ \/ call.mode = "FuncList"
                           \/ funcs[i].sym # NULL /\ <<funcs[i].sym.name, call.param>> \in strstr}
        IN  /\ out[1] = [kind |-> "title"]
            /\ \A k \in 2..Len(out) : out[k].kind \in {"line", "error"}
            /\ \A i \in mine : \E k \in Lines("line") : out[k].f = funcs[i]
            /\ \A k \in Lines("line") : \E i \in mine : out[k].f = funcs[i]
            /\ \A i, j \in mine : \A k, l \in Lines("line") :
                  out[k].f = funcs[i] /\ out[l].f = funcs[j] => (k < l <=> i < j)

(* The dialog gives Exc_Dasm no command it refuses. *)
DialogChecks == call.by = "dlg" => result # E_EXC_INVALID

(* A command comes to its end. *)
CommandEnds == stage = "load" ~> stage = "idle"

(* exc_parse.h:62: 0 means success.  With 0 the file was opened and each of *)
(* its objects disassembled.                                                *)
ZeroMeansDone ==
    stage = "idle" /\ result = 0 /\ Lines("end") # {} =>
        /\ out[Len(out)].ret = 0
        /\ \A o \in failed : o.file # cur.file - 1
=============================================================================
