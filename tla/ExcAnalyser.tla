------------------------------ MODULE ExcAnalyser -----------------------------
(***************************************************************************)
(* The analysis of an exception record (parser/analyser.c): the list of    *)
(* analysis modules AddModule builds, the walk of Analyser_Analyse along   *)
(* it, and what the five modules report through analyser_callback          *)
(* (parser/exclist_apprec2list.c).  A record is abstracted to what the     *)
(* modules branch on; the name of a function in the backtrace to the set   *)
(* of marks analyse_deadlock searches in it.  rec->lockstr is always NULL  *)
(* (nothing in the program assigns it), so a lock in the backtrace never   *)
(* ends the search; every record has version EXCREC_VERSION0.              *)
(***************************************************************************)
EXTENDS Integers, Sequences, FiniteSets

CONSTANTS
    NONE,
    Names,       (* string tables exc_str.h: names of the modules           *)
    FuncNames,   (* sets of marks a function name may contain               *)
    MaxFrames,   (* bound: frames of a backtrace (64 in the code)           *)
    Input        (* the records analysed                                    *)

Marks == {"SignalHandler", "waitpid", "read", "write", "XOS_MulticastMsg"}

Module == {"normal", "deadloop", "deadlock", "stackoverflow", "exc"}

(* The calls of AddModule in Analyser_Init, in their order. *)
Registration == <<[mod |-> "normal",        priority |-> 99],
                  [mod |-> "deadloop",      priority |-> 80],
                  [mod |-> "deadlock",      priority |-> 80],
                  [mod |-> "stackoverflow", priority |-> 79],
                  [mod |-> "exc",           priority |-> 1]>>

E_EXC_EXIST == -5

(* A record: type of error, whether the stack pointer of the task or of     *)
(* the job is beyond the base of its stack, and the backtrace.              *)
Record == [errtype  : {"exc", "deadlock", "deadloop"},
           taskover : BOOLEAN,
           jobover  : BOOLEAN,
           btfunc   : UNION {[1..n -> FuncNames] : n \in 0..MaxFrames}]

ASSUME AnalyserAssumption ==
    /\ MaxFrames \in Nat
    /\ \A n \in Names : DOMAIN n = Module
    /\ FuncNames \subseteq SUBSET Marks
    /\ Input \subseteq Record
    /\ NONE \notin Module \cup Record

VARIABLES
    name,          (* mod->name                                             *)
    s_ModuleList,  (* first module of the list                              *)
    next,          (* mod->next                                             *)
    priority,      (* mod->priority                                         *)
    isinit,        (* static of Analyser_Analyse                            *)
    pc,            (* "idle", "init", "walk", "handler" or "frames"         *)
    reg,           (* the next call of Analyser_Init                        *)
    rec,           (* the record being analysed                             *)
    item,          (* the module Analyser_Analyse is to call                *)
    btnum,         (* frames analyse_deadlock has not examined              *)
    btitem,        (* index of the frame it examines                        *)
    ret,           (* what Analyser_Analyse has returned                    *)
    called,        (* history: modules called for this record, in order     *)
    reports,       (* what they reported, on which frame of the backtrace   *)
    last, num      (* struct analyser_ctl: last reporter, how many          *)

list   == <<name, s_ModuleList, next, priority, isinit, reg>>
search == <<btnum, btitem>>
output == <<called, reports, last, num>>
vars   == <<list, pc, rec, item, search, ret, output>>

-----------------------------------------------------------------------------
Init ==
    /\ name \in Names
    /\ s_ModuleList = NONE
    /\ next = [m \in Module |-> NONE]
    /\ priority = [m \in Module |-> 0]
    /\ isinit = FALSE
    /\ pc = "idle" /\ reg = 1
    /\ rec = NONE
    /\ item = NONE
    /\ btnum = 0 /\ btitem = 1
    /\ ret = 0
    /\ called = <<>> /\ reports = <<>> /\ last = NONE /\ num = 0

(* Analyser_Analyse is called with a record. *)
Analyse ==
    /\ pc = "idle"
    /\ rec' \in Input
    /\ ret' = 0
    /\ called' = <<>> /\ reports' = <<>> /\ last' = NONE /\ num' = 0
    /\ \/ isinit /\ pc' = "walk" /\ item' = s_ModuleList /\ UNCHANGED reg
       \/ ~isinit /\ pc' = "init" /\ reg' = 1 /\ UNCHANGED item
    /\ UNCHANGED <<name, s_ModuleList, next, priority, isinit, search>>

-----------------------------------------------------------------------------
(* The module n links behind the head along nx; NONE behind the last. *)
Behind(nx) ==
    LET at[n \in 0..Cardinality(Module)] ==
            IF n = 0 THEN s_ModuleList
            ELSE IF at[n-1] = NONE THEN NONE ELSE nx[at[n-1]]
    IN  at

(* The modules reached from the head along the links nx, in order. *)
ModuleList(nx) ==
    LET reached == {n \in 0..Cardinality(Module) : Behind(nx)[n] # NONE}
    IN  [i \in 1..Cardinality(reached) |-> Behind(nx)[i-1]]

(* The list s goes on with a module of priority p after its element i: the  *)
(* last, or the first whose successor has a higher priority than p.         *)
InsertsAhead(s, i, p) ==                                         \* mutant
    LET ends == {j \in DOMAIN s : j = Len(s) \/ p <= priority[s[j+1]]}
    IN  i \in ends /\ \A j \in ends : i <= j
InsertsAfter(s, i, p) ==
    LET ends == {j \in DOMAIN s : j = Len(s) \/ p < priority[s[j+1]]}
    IN  i \in ends /\ \A j \in ends : i <= j

(* A module of priority p goes before the head of the list. *)
BeforeHead(p) == p > priority[s_ModuleList]

(* The link of a module inserted after m. *)
RestLost(m)  == NONE                                     \* mutant
RestAfter(m) == next[m]

(* AddModule: the link of the module is reset before anything else. *)
AddModule(mod, p) ==
    LET cleared == [next EXCEPT ![mod] = NONE]
        s       == ModuleList(cleared)
    IN  /\ priority' = [priority EXCEPT ![mod] = p]
        /\ \/ /\ s_ModuleList = NONE
              /\ s_ModuleList' = mod
              /\ next' = cleared
              /\ ret' = 0
           \/ /\ \E i \in DOMAIN s : name[s[i]] = name[mod]
              /\ ret' = E_EXC_EXIST
              /\ next' = cleared
              /\ UNCHANGED s_ModuleList
           \/ /\ s_ModuleList # NONE
              /\ \A i \in DOMAIN s : name[s[i]] # name[mod]
              /\ ret' = 0
              /\ \/ /\ BeforeHead(p)
                    /\ s_ModuleList' = mod
                    /\ next' = [cleared EXCEPT ![mod] = s_ModuleList]
                 \/ /\ ~BeforeHead(p)
                    /\ \E i \in DOMAIN s :
                          /\ InsertsAfter(s, i, p)
                          /\ next' = [cleared EXCEPT ![s[i]] = mod, ![mod] = RestAfter(s[i])]
                    /\ UNCHANGED s_ModuleList

(* Analyser_Init gives up. *)
Fails      == ret' # 0

(* Analyser_Init: the next call of AddModule; the first error ends it and   *)
(* the analysis, the last success starts the walk.                          *)
Analyser_Init ==
    /\ pc = "init"
    /\ AddModule(Registration[reg].mod, Registration[reg].priority)
    /\ \/ Fails /\ pc' = "idle" /\ UNCHANGED <<isinit, reg, item>>
       \/ /\ ~Fails /\ reg < Len(Registration)
          /\ reg' = reg + 1
          /\ UNCHANGED <<pc, isinit, item>>
       \/ /\ ~Fails /\ reg = Len(Registration)
          /\ isinit' = TRUE
          /\ pc' = "walk"
          /\ item' = s_ModuleList'
          /\ UNCHANGED reg
    /\ UNCHANGED <<name, rec, search, output>>

-----------------------------------------------------------------------------
(* analyser_callback: the module item reports what about frame f (0: none). *)
CountModules   == IF item = last THEN num ELSE num + 1
analyser_callback(what, f) ==
    /\ reports' = Append(reports, [mod |-> item, what |-> what, frame |-> f])
    /\ num' = CountModules
    /\ last' = item

(* Analyser_Analyse is told 1: no other module is called. *)
Conclude == ret' = 1 /\ pc' = "idle" /\ item' = NONE

(* Analyser_Analyse is told 0: the next module, if there is one. *)
GoOn ==
    /\ item' = next[item]
    /\ pc' = IF next[item] = NONE THEN "idle" ELSE "walk"
    /\ UNCHANGED ret

Call(m) ==
    /\ pc = "walk" /\ item = m
    /\ called' = Append(called, m)
    /\ UNCHANGED <<list, rec>>

analyse_baseinfo ==
    /\ Call("normal")
    /\ analyser_callback("base", 0)
    /\ GoOn
    /\ UNCHANGED search

analyse_exc ==
    /\ Call("exc")
    /\ IF rec.errtype = "exc" THEN analyser_callback("exc", 0)
                              ELSE UNCHANGED <<reports, last, num>>
    /\ GoOn
    /\ UNCHANGED search

analyse_deadloop ==
    /\ Call("deadloop")
    /\ \/ rec.errtype = "deadloop" /\ analyser_callback("deadloop", 0) /\ Conclude
       \/ rec.errtype # "deadloop" /\ GoOn /\ UNCHANGED <<reports, last, num>>
    /\ UNCHANGED search

(* The stack of the task is looked at first. *)
Overflow == IF rec.taskover THEN "task" ELSE IF rec.jobover THEN "job" ELSE "none"
analyse_stackoverflow ==
    /\ Call("stackoverflow")
    /\ \/ /\ rec.errtype = "exc" /\ Overflow # "none"
          /\ analyser_callback(Overflow, 0) /\ Conclude
       \/ /\ rec.errtype # "exc" \/ Overflow = "none"
          /\ GoOn /\ UNCHANGED <<reports, last, num>>
    /\ UNCHANGED search

-----------------------------------------------------------------------------
(* analyse_deadlock up to its first loop. *)
analyse_deadlock ==
    /\ Call("deadlock")
    /\ \/ /\ rec.errtype # "deadlock"
          /\ GoOn /\ UNCHANGED <<search, reports, last, num>>
       \/ /\ rec.errtype = "deadlock"
          /\ analyser_callback("deadlock", 0)
          /\ btnum' = Len(rec.btfunc) /\ btitem' = 1
          /\ pc' = IF rec.btfunc = <<>> THEN "frames" ELSE "handler"
          /\ UNCHANGED <<item, ret>>

(* One frame further. *)
SkipItem == btitem' = btitem + 1 /\ UNCHANGED btnum              \* mutant
NoSkip   == UNCHANGED search                                     \* mutant
Skip     == btitem' = btitem + 1 /\ btnum' = btnum - 1

(* The search starts over at the first frame when no handler was found. *)
NotRestarted == UNCHANGED search                                 \* mutant
Restart      == btnum' = Len(rec.btfunc) /\ btitem' = 1

(* First loop: leave out the frames up to the signal handler's. *)
SkipHandler ==
    /\ pc = "handler"
    /\ \/ /\ btnum > 0 /\ "SignalHandler" \notin rec.btfunc[btitem]
          /\ Skip
          /\ UNCHANGED <<pc, item, ret, output>>
       \/ /\ btnum > 1 /\ "SignalHandler" \in rec.btfunc[btitem]
          /\ Skip
          /\ pc' = "frames" /\ UNCHANGED <<item, ret, output>>
       \/ /\ btnum = 1 /\ "SignalHandler" \in rec.btfunc[btitem]
          /\ Skip
          /\ analyser_callback("unknown", 0) /\ Conclude /\ UNCHANGED called
       \/ /\ btnum = 0
          /\ Restart
          /\ pc' = "frames" /\ UNCHANGED <<item, ret, output>>
    /\ UNCHANGED <<list, rec>>

(* Second loop: the first frame that waits for something. *)
Waits(f) == f \cap {"waitpid", "read", "write"} # {}
WriteNow(i) == "write" \in rec.btfunc[i] /\ rec.btfunc[i] \cap {"waitpid", "read"} = {}
SearchFrames ==
    /\ pc = "frames"
    /\ \/ /\ btnum > 0 /\ ~Waits(rec.btfunc[btitem])
          /\ Skip /\ UNCHANGED <<pc, item, ret, output>>
       \/ /\ \/ /\ btnum > 0 /\ "waitpid" \in rec.btfunc[btitem]
                /\ analyser_callback("waitpid", btitem)
             \/ /\ btnum > 0 /\ "read" \in rec.btfunc[btitem]
                /\ "waitpid" \notin rec.btfunc[btitem]
                /\ analyser_callback("read", btitem)
             \/ /\ btnum > 1 /\ WriteNow(btitem)
                /\ "XOS_MulticastMsg" \in rec.btfunc[btitem+1]
                /\ analyser_callback("multicast", btitem + 1)
             \/ /\ btnum > 0 /\ WriteNow(btitem)
                /\ btnum > 1 => "XOS_MulticastMsg" \notin rec.btfunc[btitem+1]
                /\ analyser_callback("write", btitem)
             \/ /\ btnum = 0
                /\ analyser_callback("unknown", 0)
          /\ Conclude
          /\ UNCHANGED <<search, called>>
    /\ UNCHANGED <<list, rec>>

-----------------------------------------------------------------------------
Step ==
    \/ Analyser_Init
    \/ analyse_baseinfo \/ analyse_exc \/ analyse_deadloop
    \/ analyse_stackoverflow \/ analyse_deadlock
    \/ SkipHandler \/ SearchFrames

Next == Analyse \/ Step

(* Exc_Load's thread runs an analysis it began to its end. *)
Spec == Init /\ [][Next]_vars /\ WF_vars(Step)

-----------------------------------------------------------------------------
(* The two loops of analyse_deadlock never look beyond the backtrace: the   *)
(* frames left to examine are those from btitem on.                         *)
FramesInBounds ==
    pc \in {"handler", "frames"} => btitem + btnum = Len(rec.btfunc) + 1

(* When a module is called, and once Analyser_Init has succeeded, the list  *)
(* holds every module exactly once: no insertion lost the rest of the list, *)
(* and no record is analysed with the list a failed AddModule left behind.  *)
Complete ==
    isinit \/ called # <<>> =>
        /\ Len(ModuleList(next)) = Cardinality(Module)
        /\ \A m \in Module : \E i \in DOMAIN ModuleList(next) : ModuleList(next)[i] = m

(* The frame and the kind of wait analyse_deadlock is to name: the first    *)
(* frame that waits after the first signal handler, or in the whole         *)
(* backtrace when there is no handler.                                      *)
First(S) == CHOOSE i \in S : \A j \in S : i <= j
Cause(bt) ==
    LET H     == {i \in DOMAIN bt : "SignalHandler" \in bt[i]}
        start == IF H = {} THEN 1 ELSE First(H) + 1
        W     == {i \in start..Len(bt) : Waits(bt[i])}
        i     == First(W)
    IN  IF W = {} THEN [mod |-> "deadlock", what |-> "unknown", frame |-> 0]
        ELSE IF "waitpid" \in bt[i] THEN [mod |-> "deadlock", what |-> "waitpid", frame |-> i]
        ELSE IF "read" \in bt[i] THEN [mod |-> "deadlock", what |-> "read", frame |-> i]
        ELSE IF i < Len(bt) /\ "XOS_MulticastMsg" \in bt[i+1]
             THEN [mod |-> "deadlock", what |-> "multicast", frame |-> i + 1]
        ELSE [mod |-> "deadlock", what |-> "write", frame |-> i]

(* The cause reported for a deadlock is the one the backtrace shows.        *)
DeadlockCause ==
    pc = "idle" /\ called # <<>> /\ rec.errtype = "deadlock" =>
        reports[Len(reports)] = Cause(rec.btfunc)

(* m is asked before n: the module of the highest priority is the first,    *)
(* then the one of the lower priority, of equal ones the one registered     *)
(* first.                                                                   *)
Top(j) == \A k \in DOMAIN Registration : Registration[k].priority <= Registration[j].priority
AskedBefore(m, n) ==
    \E j, k \in DOMAIN Registration :
        /\ Registration[j].mod = m /\ Registration[k].mod = n /\ ~Top(k)
        /\ \/ Top(j)
           \/ Registration[j].priority < Registration[k].priority
           \/ Registration[j].priority = Registration[k].priority /\ j < k

(* The modules that reported, in their order. *)
Tellers == [i \in DOMAIN reports |-> reports[i].mod]

(* Modules are asked in the order AddModule gave them, and the first that   *)
(* is sure ends the walk: behind "normal" the record is explained by the    *)
(* module of its error, an exception also by "stackoverflow" when a stack   *)
(* overflowed, which is asked after "exc" and does not replace it.          *)
AskedInOrder == \A i, j \in DOMAIN called : i < j => AskedBefore(called[i], called[j])
Outcome ==
    pc = "idle" /\ called # <<>> =>
        LET over == rec.errtype = "exc" /\ (rec.taskover \/ rec.jobover)
        IN  /\ Tellers = IF over THEN <<"normal", "exc", "stackoverflow">>
                         ELSE IF rec.errtype = "deadlock" THEN <<"normal", "deadlock", "deadlock">>
                         ELSE <<"normal", rec.errtype>>
            /\ ret = 1 <=> rec.errtype # "exc" \/ over
Verdict == AskedInOrder /\ Outcome

(* Analyser_Analyse returns. *)
AnalyseReturns == pc # "idle" ~> pc = "idle"
=============================================================================
