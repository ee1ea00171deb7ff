------------------------------- MODULE ExcFields ------------------------------
(***************************************************************************)
(* How excblock_parse_appexc (parser/exclist.c) fills a T_AppExcRec from   *)
(* the sections of an exception: phases2val and its phase2val_* handlers   *)
(* (parser/exclist_appstr2rec.c), and what item_setstack shows of it.  A   *)
(* section (ExcText makes them) is a record of what the handlers search    *)
(* for in it.  The value of a field is where it was read: exception,       *)
(* section and line; only the numbers of a stack are numbers, because the  *)
(* code compares them with 0.                                              *)
(***************************************************************************)
EXTENDS Integers, Sequences, FiniteSets, FiniteSetsExt

CONSTANTS
    NULL,
    Texts,      (* sequences of exceptions                                  *)
    MaxLines    (* size of the arrays of lines (64 in the code)             *)

ErrType == {"exc", "deadlock", "deadloop"}
Owner   == {"task", "job"}

(* What a line is searched for: the keys in it, and which of the optional   *)
(* parts of its value are there.                                            *)
(* A section: the keywords in it; its lines; whose stack it prints, the     *)
(* numbers of the stack (sp is also the SP register of a section of         *)
(* registers), the text after them (none; an empty line; lines); whether it *)
(* has more than one line; how many lines start with an address.            *)
IsSection(s) ==
    /\ Len(s.lines) \in Nat /\ DOMAIN s.lines = 1..Len(s.lines)
    /\ \A j \in DOMAIN s.lines : DOMAIN s.lines[j] = {"keys", "parts"}
    /\ s.of \in Owner \cup {NULL}
    /\ {s.sp, s.base, s.bottom} \subseteq Nat \cup {NULL}
    /\ s.text \in {"none", "blank", "text"}
    /\ s.more \in BOOLEAN /\ s.count \in Nat

ASSUME FieldsAssumption ==
    /\ NULL \notin Nat \cup {"line", "reg", "stack", "soinfo", "bt"}
    /\ MaxLines \in Nat \ {0}
    /\ \A t \in Texts : Len(t) \in Nat /\ DOMAIN t = 1..Len(t)
    /\ \A t \in Texts : \A e \in DOMAIN t :
          /\ t[e].errtype \in ErrType
          /\ Len(t[e].phases) \in Nat \ {0} /\ DOMAIN t[e].phases = 1..Len(t[e].phases)
          /\ \A j \in DOMAIN t[e].phases : IsSection(t[e].phases[j])

VARIABLES
    text,       (* the exceptions of the block                              *)
    n,          (* the exception excblock_parse_appexc works on             *)
    i,          (* the section phases2val works on, 0 before the first      *)
    pc,         (* "next", "phases", "sp" or "push"                         *)
    val,        (* the fields read from single lines                        *)
    stack,      (* rec.task.stack and rec.job.stack                         *)
    sigsp,      (* rec.signal.stack.sp                                      *)
    regstr, libs, libnum, btfunc, btfuncnum,
    heap        (* buffers not freed                                        *)

arrays == <<libs, libnum, btfunc, btfuncnum>>
rec    == <<val, stack, sigsp, regstr, arrays>>
vars   == <<text, n, i, pc, rec, heap>>

phases  == text[n].phases
errtype == text[n].errtype
section == phases[i]

-----------------------------------------------------------------------------
(* The helpers that read a line: the fields they always write, and those    *)
(* they write when that part of the value is there.                         *)
Writes(must, may) == [must |-> must, may |-> may]
copystr(f)  == Writes({f}, {})
str2int(f)  == Writes({f}, {})
str2ll(f)   == Writes({f}, {})
posstr2val  == Writes({"pos0"}, {"pos1", "pos2", "pos3"})
parse_pc    == Writes({"signal.pc"}, {})
parse_task  == Writes({"task.thrid"}, {"task.tid", "task.name"})
parse_task2 == Writes({"task.thrid"}, {"task.name"})
parse_stack == Writes({}, {"signal.stack.base", "signal.stack.bottom"})
sigstr2val  == Writes({}, {"signal.signum"})
taskstr2mode == Writes({}, {"task.mode"})
line2pcinfo == Writes({"signal.pc"}, {"signal.funcname", "signal.soname"})

(* The tables of lines: of the keys a line contains the first counts. *)
s_baseinfo == <<
    <<"User: Rack:", posstr2val>>,
    <<"Used Time:", copystr("errtime")>>,
    <<"This is an exception signal:", str2int("signal.signum")>>,
    <<"registers: pc[", parse_pc>>,
    <<"Save context of task", parse_task>>,
    <<"stackbase: ", parse_stack>>,
    <<"SIGNAL:", sigstr2val>>,
    <<"ErrorAddr =", str2ll("signal.addr")>>,
    <<"Error Address:", str2ll("signal.addr")>>,
    <<"Find dead lock in thread ", parse_task2>>,
    <<"task id   :", str2ll("task.thrid")>>,
    <<"task name :", copystr("task.name")>>,
    <<"task tid :", str2ll("task.tid")>>,
    <<"Job Name  :", copystr("job.name")>>,
    <<"Job Type  :", str2int("job.type")>>,
    <<"Job ID    :", str2ll("job.jno")>>,
    <<"Job state :", str2int("job.stat")>>,
    <<"Msg ID    :", str2ll("job.msg.id")>>,
    <<"Headver   :", str2ll("job.msg.hver")>>,
    <<"AppVer    :", str2ll("job.msg.appver")>>,
    <<"Msg type  :", str2ll("job.msg.type")>> >>
s_posinfo == << <<"Rack:", posstr2val>> >>
s_procinfo == <<
    <<"Proc Name:", copystr("process.name")>>,
    <<"gpid     :", str2int("process.pid")>> >>
s_taskinfo == <<
    <<"The task is a", taskstr2mode>>,
    <<"Task Name   :", copystr("task.name")>>,
    <<"Thread id   :", str2ll("task.thrid")>>,
    <<"Taskid(LWP) :", str2int("task.tid")>> >>
s_jobinfo == <<
    <<"Job name       :", copystr("job.name")>>,
    <<"Job SvrId      :", str2ll("job.jno")>>,
    <<"Job Run status :", str2int("job.runstat")>>,
    <<"Job MsgId      :", str2ll("job.msg.id")>>,
    <<"Job state      :", str2int("job.stat")>> >>
s_curexcinfo == << <<"pc   =", line2pcinfo>> >>

Fields(table) == UNION {table[r][2].must \cup table[r][2].may : r \in DOMAIN table}
Field == Fields(s_baseinfo) \cup Fields(s_posinfo) \cup Fields(s_procinfo)
         \cup Fields(s_taskinfo) \cup Fields(s_jobinfo) \cup Fields(s_curexcinfo)

(* The keywords of sections and their handlers, in the order of the table;  *)
(* the first section is for "BASE INFO PARSE" without a search.             *)
Op(key, func, param) == [key |-> key, func |-> func, param |-> param]
s_parseop == <<
    Op("BASE INFO PARSE", "line", s_baseinfo),
    Op("Exception Registers Start", "reg", NULL),
    Op("Board Position start", "line", s_posinfo),
    Op("Information of Proc Start", "line", s_procinfo),
    Op("Information of Task Start", "line", s_taskinfo),
    Op("Information of job start", "line", s_jobinfo),
    Op("Job Stack Info Start", NULL, NULL),
    Op("Current Exception Context Start", "line", s_curexcinfo),
    Op("Task Stack start", "stack", "task"),
    Op("Job Stack start", "stack", "job"),
    Op("ProcSelf SoInfo Start", "soinfo", NULL),
    Op("Function Calling Trace Start", "bt", NULL),
    Op("Current Message Start", NULL, NULL),
    Op("Code Segment Start", NULL, NULL),
    Op(" stack from ", "stack", "printed"),
    Op("Track function call list...", "bt", NULL) >>
Ignored == Op("", NULL, NULL)

(* phases2val: the handler of section j of exception e. *)
ParseOp(e, j) ==
    LET K == {r \in 2..Len(s_parseop) : s_parseop[r].key \in text[e].phases[j].keys}
    IN  IF j = 1 THEN s_parseop[1] ELSE IF K = {} THEN Ignored ELSE s_parseop[Min(K)]

-----------------------------------------------------------------------------
NoStack == [base |-> 0, bottom |-> 0, sp |-> 0, stackstr |-> NULL]
Cleared ==
    /\ val' = [f \in Field |-> NULL]
    /\ stack' = [o \in Owner |-> NoStack]
    /\ sigsp' = 0
    /\ regstr' = NULL /\ libs' = NULL /\ btfunc' = NULL
    /\ libnum' = 0 /\ btfuncnum' = 0

Init ==
    /\ text \in Texts
    /\ n = 0 /\ i = 0
    /\ pc = "next"
    /\ val = [f \in Field |-> NULL]
    /\ stack = [o \in Owner |-> NoStack]
    /\ sigsp = 0
    /\ regstr = NULL /\ libs = NULL /\ btfunc = NULL
    /\ libnum = 0 /\ btfuncnum = 0
    /\ heap = {}

(* Exc_Malloc, or Exc_StrDup, for a field of the record: the buffer, which  *)
(* holds len things of section s, or NULL.                                  *)
Buffer(f, s, len) == [field |-> f, exc |-> n, sec |-> i, holds |-> s, len |-> len]
Alloc(f, s, len)  == {Buffer(f, s, len), NULL}
Live(b) == IF b = NULL THEN heap ELSE heap \cup {b}

(* excblock_parse_appexc comes to the next exception: apprec_init, and      *)
(* excstr2apprec copies its text (rec.excstr, nobody reads it).             *)
NextRecord ==
    /\ pc = "next"
    /\ n < Len(text)
    /\ n' = n + 1
    /\ i' = 1
    /\ pc' = "phases"
    /\ Cleared
    /\ UNCHANGED <<text, heap>>

(* phases2val goes on with the next section, or has done the last one.      *)
InSection(func) == pc = "phases" /\ ParseOp(n, i).func = func
Advance ==
    /\ i' = IF i < Len(phases) THEN i + 1 ELSE i
    /\ pc' = IF i < Len(phases) THEN "phases" ELSE "sp"
    /\ UNCHANGED <<text, n>>

Skipped ==
    /\ InSection(NULL)
    /\ Advance
    /\ UNCHANGED <<rec, heap>>

(* The row of a table a line is for, and the fields it writes. *)
LastRow(table, line)  == {r \in DOMAIN table : table[r][1] \in line.keys /\
                          \A q \in DOMAIN table : table[q][1] \in line.keys => q <= r}  \* mutant
FirstRow(table, line) == {r \in DOMAIN table : table[r][1] \in line.keys /\
                          \A q \in DOMAIN table : table[q][1] \in line.keys => r <= q}
Written(table, line) ==
    UNION {table[r][2].must \cup (table[r][2].may \cap line.parts) : r \in FirstRow(table, line)}

(* A field has the value of the last line of the section that writes it.    *)
phase2val_line ==
    /\ InSection("line")
    /\ LET W(f) == {j \in DOMAIN section.lines :
                      f \in Written(ParseOp(n, i).param, section.lines[j])}
       IN  val' = [f \in Field |-> IF W(f) = {} THEN val[f] ELSE <<n, i, Max(W(f))>>]
    /\ Advance
    /\ UNCHANGED <<stack, sigsp, regstr, arrays, heap>>

phase2val_reg ==
    /\ InSection("reg")
    /\ \/ ~section.more /\ UNCHANGED <<regstr, heap>>
       \/ /\ section.more
          /\ regstr' \in Alloc("regstr", i, 1)
          /\ heap' = Live(regstr')
    /\ Advance
    /\ UNCHANGED <<val, stack, sigsp, arrays>>

(* The numbers of a stack in the order the handler reads them: it returns   *)
(* at the first it does not find, and leaves the rest as it was.            *)
Order(param) == IF param = "printed" THEN <<"bottom", "base">> ELSE <<"sp", "base", "bottom">>
WhoseStack(e, j) ==
    IF ParseOp(e, j).param = "printed" THEN text[e].phases[j].of ELSE ParseOp(e, j).param
FoundThis(order, r) == section[order[r]] # NULL          \* mutant
Found(order, r) == \A q \in 1..r : section[order[q]] # NULL
TRY_GET_VAL(order, old) ==
    [f \in DOMAIN old |-> IF \E r \in DOMAIN order : order[r] = f /\ Found(order, r)
                          THEN section[f] ELSE old[f]]

(* The text after the numbers, from the second character of the next line   *)
(* on: behind an empty line that is what follows the section, the next      *)
(* section or, after the last one, the rest of the block (section 0).       *)
Behind == IF section.text = "text" THEN i ELSE IF i < Len(phases) THEN i + 1 ELSE 0

phase2val_stack ==
    /\ InSection("stack")
    /\ LET param == ParseOp(n, i).param
           order == Order(param)
           o     == WhoseStack(n, i)
           read  == TRY_GET_VAL(order, stack[o])
       IN  \/ /\ o \notin Owner
              /\ UNCHANGED <<stack, heap>>
           \/ /\ o \in Owner
              /\ section.text = "none" \/ ~Found(order, Len(order))
              /\ stack' = [stack EXCEPT ![o] = read]
              /\ UNCHANGED heap
           \/ /\ o \in Owner
              /\ section.text # "none" /\ Found(order, Len(order))
              /\ \E b \in Alloc(o, Behind, 1) :
                    /\ stack' = [stack EXCEPT ![o] = [read EXCEPT !.stackstr = b]]
                    /\ heap' = Live(b)
    /\ Advance
    /\ UNCHANGED <<val, sigsp, regstr, arrays>>

(* The lines with an address, as many as the array has room for. *)
getlines_0xhead(s) == IF s.count > MaxLines THEN MaxLines ELSE s.count

(* The count is only written when there is an array for it. *)
CountAnyway(b, count) == getlines_0xhead(section)        \* mutant
CountAfter(b, count)  == IF b = NULL THEN count ELSE getlines_0xhead(section)

phase2val_soinfo ==
    /\ InSection("soinfo")
    /\ \/ /\ ~section.more \/ section.count = 0
          /\ UNCHANGED <<libs, libnum, heap>>
       \/ /\ section.more /\ section.count > 0
          /\ libs' \in Alloc("libs", i, getlines_0xhead(section))
          /\ libnum' = CountAfter(libs', libnum)
          /\ heap' = Live(libs')
    /\ Advance
    /\ UNCHANGED <<val, stack, sigsp, regstr, btfunc, btfuncnum>>

(* The title of the calls of this kind of exception. *)
AnyBtTitle(type) == CHOOSE k \in section.keys :              \* mutant
                       k \in {"Track function call list...", "Function Calling Trace Start"}
BtTitle(type) == IF type \in {"deadlock", "deadloop"} THEN "Track function call list..."
                 ELSE "Function Calling Trace Start"

phase2val_bt ==
    /\ InSection("bt")
    /\ \/ /\ BtTitle(errtype) \notin section.keys \/ section.count = 0
          /\ UNCHANGED <<btfunc, btfuncnum, heap>>
       \/ /\ BtTitle(errtype) \in section.keys /\ section.count > 0
          /\ btfunc' \in Alloc("btfunc", i, getlines_0xhead(section))
          /\ btfuncnum' = CountAfter(btfunc', btfuncnum)
          /\ heap' = Live(btfunc')
    /\ Advance
    /\ UNCHANGED <<val, stack, sigsp, regstr, libs, libnum>>

(* The end of phases2val: the SP register is the sp of the stack of the     *)
(* task, or else of that of the job, when its section had none.             *)
WithContents == {o \in Owner : stack[o].stackstr # NULL}
JobFirst     == IF "job" \in WithContents THEN {"job"} ELSE WithContents
JobIsGiven   == IF "job" \in WithContents THEN {"job"} ELSE {}    \* mutant
TaskFirst    == IF "task" \in WithContents THEN {"task"} ELSE WithContents
SP == IF regstr = NULL \/ phases[regstr.holds].sp = NULL THEN 0 ELSE phases[regstr.holds].sp
SetSp ==
    /\ pc = "sp"
    /\ stack' = [o \in Owner |-> IF o \in TaskFirst /\ stack[o].sp = 0
                                 THEN [stack[o] EXCEPT !.sp = SP] ELSE stack[o]]
    /\ sigsp' = IF sigsp = 0 THEN SP ELSE sigsp
    /\ pc' = "push"
    /\ UNCHANGED <<text, n, i, val, regstr, arrays, heap>>

(* apprec_release: the buffers of the record are freed. *)
NotOfJob == ({regstr, libs, btfunc} \cup {stack["task"].stackstr}) \ {NULL}   \* mutant
Owned == ({regstr, libs, btfunc} \cup {stack[o].stackstr : o \in Owner}) \ {NULL}

(* apprec_push2list has shown the record (ExcList), the record is released; *)
(* after an error the rest of the block is left.                            *)
PushAndRelease ==
    /\ pc = "push"
    /\ heap' = heap \ Owned
    /\ Cleared
    /\ n' \in {n, Len(text)}
    /\ i' = 0
    /\ pc' = "next"
    /\ UNCHANGED text

Next ==
    \/ NextRecord \/ Skipped
    \/ phase2val_line \/ phase2val_reg \/ phase2val_stack \/ phase2val_soinfo \/ phase2val_bt
    \/ SetSp \/ PushAndRelease

Spec == Init /\ [][Next]_vars

(* item_setstack: the stack the record shows. *)
shown == JobFirst
-----------------------------------------------------------------------------
(* The sections of this exception whose handler is func, up to the one      *)
(* phases2val has come to.                                                  *)
Done(func) == {j \in DOMAIN phases : ParseOp(n, j).func = func /\ (j < i \/ pc \in {"sp", "push"})}

(* A field is what the last line of the last section says that is about it, *)
(* of the tables for the sections of this exception and of nothing else:    *)
(* no line is taken for another field, no later section without the field   *)
(* takes it back, nothing is left of the exception before.                  *)
Says(f, j, q) ==
    LET table == ParseOp(n, j).param
        rows  == {r \in DOMAIN table : table[r][1] \in phases[j].lines[q].keys}
        w     == table[Min(rows)][2]
    IN  rows # {} /\ (f \in w.must \/ (f \in w.may /\ f \in phases[j].lines[q].parts))
About(f) ==
    UNION {{<<j, q>> : q \in {l \in DOMAIN phases[j].lines : Says(f, j, l)}} : j \in Done("line")}
FieldSource ==
    pc = "push" =>
        \A f \in Field :
            IF About(f) = {} THEN val[f] = NULL
            ELSE \E a \in About(f) :
                    /\ val[f] = <<n, a[1], a[2]>>
                    /\ \A b \in About(f) : b[1] < a[1] \/ (b[1] = a[1] /\ b[2] <= a[2])

(* The sections that print the stack of o. *)
Printing(o) == {j \in Done("stack") : WhoseStack(n, j) = o}

(* When one section prints a stack, everything the record knows of that     *)
(* stack comes from it: with its text its numbers are complete, a number is *)
(* the section's, and sp, which " stack from " does not print, may be the   *)
(* SP register's instead of 0.                                              *)
StackOfItsSection ==
    pc = "push" =>
        \A o \in Owner : \A j \in Printing(o) : Printing(o) = {j} =>
            LET s == phases[j]
                own == IF ParseOp(n, j).param = "printed" \/ s.sp = NULL THEN 0 ELSE s.sp
            IN  /\ stack[o].base \in {0, s.base} /\ stack[o].bottom \in {0, s.bottom}
                /\ stack[o].sp \in {own} \cup (IF own = 0 THEN {SP} ELSE {})
                /\ stack[o].stackstr # NULL =>
                      stack[o].base = s.base /\ stack[o].bottom = s.bottom

(* What item_setstack shows has the last sp printed for it, or else the SP  *)
(* register when the record has the text of that stack alone.  With two     *)
(* texts phases2val gives the register to the stack of the task, and the    *)
(* job's, which is shown, is left at 0.                                     *)
SectionSp(o) ==
    LET S == {j \in Printing(o) : ParseOp(n, j).param # "printed" /\ phases[j].sp # NULL}
    IN  IF S = {} THEN 0 ELSE phases[Max(S)].sp
ShownSp ==
    pc = "push" =>
        /\ \A o \in shown : stack[o].sp = IF SectionSp(o) # 0 THEN SectionSp(o)
                                          ELSE IF WithContents = {o} THEN SP ELSE 0
        /\ \A o \in WithContents \ shown :
              stack[o].sp = IF SectionSp(o) # 0 THEN SectionSp(o) ELSE SP

(* The sections of this exception that print calls, under the title of its  *)
(* kind, and libraries.                                                     *)
Calls == {j \in Done("bt") : phases[j].count > 0 /\
             (IF errtype = "exc" THEN "Function Calling Trace Start"
                                 ELSE "Track function call list...") \in phases[j].keys}
Libraries == {j \in Done("soinfo") : phases[j].more /\ phases[j].count > 0}

(* The loops over the libraries and over the calls go by the count.  They   *)
(* stay in the array when there is one; there is none only when nothing was *)
(* counted, or when a later section printed the same thing again: then the  *)
(* array is missing and the count is still that of an earlier section.  An  *)
(* exception that prints its calls and its libraries once is safe whichever *)
(* allocation fails.                                                        *)
Counted(array, count, S) ==
    \/ array # NULL /\ count = array.len
    \/ array = NULL /\ count = 0
    \/ array = NULL /\ \E j, k \in S : j < k /\ count = getlines_0xhead(phases[j])
CountsOfArrays ==
    /\ Counted(libs, libnum, Libraries)
    /\ Counted(btfunc, btfuncnum, Calls)

(* The calls and the libraries are those printed last, under the title of   *)
(* this kind of exception: a dead lock or a dead loop shows none of the     *)
(* calls of an exception, and no array is left of an earlier section or of  *)
(* the exception before.                                                    *)
LastArrays ==
    pc = "push" =>
        /\ btfunc # NULL => btfunc.exc = n /\ btfunc.holds = Max(Calls \cup {0})
        /\ libs # NULL => libs.exc = n /\ libs.holds = Max(Libraries \cup {0})

(* Every buffer is the record's, or was lost when a later section of the    *)
(* same exception had something for its field; after the release none is    *)
(* the record's.                                                            *)
HasSome(e, j) ==
    LET s == text[e].phases[j]
    IN  CASE ParseOp(e, j).func = "reg"    -> s.more
          [] ParseOp(e, j).func = "soinfo" -> s.more /\ s.count > 0
          [] ParseOp(e, j).func = "bt"     -> s.count > 0 /\ BtTitle(text[e].errtype) \in s.keys
          [] ParseOp(e, j).func = "stack"  ->
                s.text # "none" /\ \A r \in {"sp", "base", "bottom"} :
                   s[r] = NULL => r = "sp" /\ ParseOp(e, j).param = "printed"
          [] OTHER -> FALSE
Overwritten(b) ==
    \E j \in b.sec+1 .. Len(text[b.exc].phases) :
        /\ ParseOp(b.exc, j).func = ParseOp(b.exc, b.sec).func
        /\ ParseOp(b.exc, j).func = "stack" => WhoseStack(b.exc, j) = b.field
        /\ HasSome(b.exc, j)
BuffersReleased ==
    \A b \in heap : b \in Owned \/ Overwritten(b)

(* parser_comm.h:78: stackstr is what the stack contains. *)
StackstrOfStack ==
    pc = "push" =>
        \A o \in Owner : stack[o].stackstr # NULL => stack[o].stackstr.holds \in Printing(o)
=============================================================================
