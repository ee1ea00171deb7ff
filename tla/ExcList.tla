-------------------------------- MODULE ExcList -------------------------------
(***************************************************************************)
(* Exc_Load and Exc_Release (parser/exclist.c) with the construction of a  *)
(* record's item (parser/exclist_apprec2list.c).  The text to analyse is   *)
(* abstracted to the number of record blocks it is cut into and, for each  *)
(* block, what the parsers find there; the text of the files is abstracted *)
(* to the item that wrote them.  Every Exc_Malloc and every fopen may      *)
(* fail, at each place where the code calls it.                            *)
(***************************************************************************)
EXTENDS Integers, Sequences, FiniteSets

CONSTANTS
    Addr,       (* addresses of blocks of the guarded heap                  *)
    NULL,
    Pick(_),    (* the addresses Exc_Malloc may return, given those in use  *)
    ListInit,   (* slots of the array made by exclist_init: 10              *)
    ListGrow,   (* slots added by exclist_push when it is full: 32          *)
    MaxBlocks,  (* bound: record blocks in one text                         *)
    MaxApps,    (* bound: exception texts in one block                      *)
    MaxFrames,  (* bound: frames of a backtrace (64 in the code)            *)
    MaxStuck    (* bound: files that cannot be removed at one time          *)

ASSUME ListAssumption ==
    /\ ListInit \in Nat \ {0}
    /\ ListGrow \in Nat \ {0}
    /\ MaxBlocks \in Nat /\ MaxApps \in Nat /\ MaxFrames \in Nat
    /\ MaxStuck \in Nat

ASSUME HeapAssumption ==
    /\ NULL \notin Addr
    /\ \A L \in SUBSET Addr : Pick(L) \subseteq Addr \ L

E_EXC_INVALID == -1
E_EXC_NOMEM   == -2
E_EXC_FOPEN   == -8
Errors == {E_EXC_INVALID, E_EXC_NOMEM, E_EXC_FOPEN}

VARIABLES
    pc,         (* the place the running call has reached; "idle" outside   *)
    ret,        (* what the call returns or, when idle, has returned        *)
    exlist,     (* exclist->list of the caller's struct ExcList             *)
    count,      (* exclist->count                                           *)
    fp_sum,     (* ctl.fp_sum: "open" or "closed"                           *)
    sum_index,  (* ctl.sum_index                                            *)
    list,       (* ctl.list                                                 *)
    list_num,   (* ctl.list_num                                             *)
    list_index, (* ctl.list_index                                           *)
    slots,      (* contents of the array at ctl.list or exclist->list       *)
    str,        (* Exc_Load's copy of the text                              *)
    todo,       (* blocks of the text exclist_parse has not reached         *)
    apps,       (* exception texts excblock_parse_appexc has not reached    *)
    rec,        (* heap blocks owned by the T_AppExcRec being built         *)
    frames,     (* rec.btfuncnum                                            *)
    item,       (* the item being built                                     *)
    dasminfo,   (* the T_DasmInfo of item_setdasms                          *)
    k,          (* next entry item_setdasms fills, 0 for the pc             *)
    live,       (* addresses Exc_Malloc returned and Exc_Free has not seen  *)
    desc,       (* the number in the description of each item               *)
    info,       (* the paths in the entries of each item                    *)
    files,      (* files of the temporary directory and who wrote them      *)
    summary,    (* lines written to the summary file after its header       *)
    lost        (* history: blocks nobody will free any more: items         *)
                (* exclist_push refused, buffers of sections met again      *)

ctl    == <<fp_sum, sum_index, list, list_num, list_index, slots>>
caller == <<exlist, count, ret>>
parser == <<str, todo, apps>>
apprec == <<rec, frames>>
making == <<item, dasminfo, k>>
items  == <<desc, info>>
disk   == <<files, summary>>
vars   == <<pc, ctl, caller, parser, apprec, making, live, items, disk, lost>>

-----------------------------------------------------------------------------
(* exclist_fmt_path: directory prefix, number of the record, kind of file;  *)
(* j tells the frames of a backtrace apart.                                 *)
Kind       == {"info", "base", "parse", "stack", "PC", "bt"}
Path       == Nat \X Kind \X Nat
NoPath     == <<>>
PathNoNumber(name, j)     == <<0, name, j>>            \* mutant
exclist_fmt_path(name, j) == <<sum_index, name, j>>
(* The file of the k-th entry item_setdasms fills. *)
DasmPathNoPC == exclist_fmt_path("bt", k - 1)          \* mutant
DasmPath     == IF k = 0 THEN exclist_fmt_path("PC", 0) ELSE exclist_fmt_path("bt", k - 1)

NoSlots    == [i \in {} |-> NULL]
(* The entries of an item of num entries just after its memset. *)
NewInfo(num) == [j \in 0..num-1 |-> NoPath]

(* fopen(p,"w") by item a: the file is created or truncated. *)
Write(p, a) == {f \in files : f.path # p} \cup {[path |-> p, writer |-> a]}
(* What the freed items A wrote belongs to nobody any more. *)
Orphan(F, A) ==
    {[path |-> f.path, writer |-> IF f.writer \in A THEN NULL ELSE f.writer] :
        f \in F}
(* What may be left of the files F after an attempt to remove them all. *)
Remaining(F) == {R \in SUBSET F : Cardinality(R) <= MaxStuck}
(* The items A are freed and their contents gone. *)
Forget(A) ==
    /\ desc' = [a \in Addr |-> IF a \in A THEN 0 ELSE desc[a]]
    /\ info' = [a \in Addr |-> IF a \in A THEN NoSlots ELSE info[a]]

(* The items an array with contents s holds. *)
Entries(s) == {s[i] : i \in DOMAIN s} \ {NULL}
Listed == Entries(slots)

(* Where Exc_Load goes on with code c: back to its caller. *)
EndRetries(c) == IF c = E_EXC_NOMEM THEN "initlist" ELSE "idle"   \* mutant
End(c)        == "idle"

(* Back to the caller with code c; the locals of Exc_Load are gone. *)
Return(c) ==
    /\ pc' = End(c)
    /\ ret' = c
    /\ fp_sum' = "closed"
    /\ sum_index' = 0
    /\ list' = NULL
    /\ list_num' = 0
    /\ list_index' = 0
    /\ str' = NULL
    /\ todo' = 0

-----------------------------------------------------------------------------
Init ==
    /\ pc = "idle"
    /\ ret = 0
    /\ exlist = NULL /\ count = 0
    /\ fp_sum = "closed" /\ sum_index = 0
    /\ list = NULL /\ list_num = 0 /\ list_index = 0
    /\ slots = NoSlots
    /\ str = NULL /\ todo = 0 /\ apps = 0
    /\ rec = {} /\ frames = 0
    /\ item = NULL /\ dasminfo = NULL /\ k = 0
    /\ live = {}
    /\ desc = [a \in Addr |-> 0]
    /\ info = [a \in Addr |-> NoSlots]
    /\ files = {} /\ summary = <<>>
    /\ lost = {}

(* Exc_Load with a path or a text it refuses. *)
LoadReject ==
    /\ pc = "idle"
    /\ exlist = NULL
    /\ ret' = E_EXC_INVALID
    /\ UNCHANGED <<pc, ctl, exlist, count, parser, apprec, making, live, items,
                   disk, lost>>

(* Exc_Load up to reinit_tmpdir: clear_dir removes what it can (a file that *)
(* cannot be removed stays, and its error code is ignored).                 *)
Load ==
    /\ pc = "idle"
    /\ exlist = NULL
    /\ pc' = "initlist"
    /\ ret' = 0
    /\ todo' \in 1..MaxBlocks
    /\ files' \in Remaining(files)
    /\ summary' = <<>>
    /\ UNCHANGED <<ctl, exlist, count, str, apps, apprec, making, live, items,
                   lost>>

(* exclist_init allocates the array. *)
InitList ==
    /\ pc = "initlist"
    /\ \/ \E a \in Pick(live) :
            /\ live' = live \cup {a}
            /\ list' = a
            /\ list_num' = ListInit
            /\ slots' = [i \in 0..ListInit-1 |-> NULL]
            /\ pc' = "inititem"
            /\ UNCHANGED <<ret, fp_sum, sum_index, list_index, str, todo>>
       \/ /\ Return(E_EXC_NOMEM)
          /\ UNCHANGED <<live, slots>>
    /\ UNCHANGED <<exlist, count, apps, apprec, making, items, disk, lost>>

(* exclist_init allocates the summary's item, or frees the array. *)
InitItem ==
    /\ pc = "inititem"
    /\ \/ \E a \in Pick(live) :
            /\ live' = live \cup {a}
            /\ slots' = [slots EXCEPT ![0] = a]
            /\ list_index' = 1
            /\ info' = [info EXCEPT ![a] =
                           [j \in {0} |-> exclist_fmt_path("info", 0)]]
            /\ UNCHANGED desc
            /\ pc' = "initfile"
            /\ UNCHANGED <<ret, fp_sum, sum_index, list, list_num, str, todo>>
       \/ /\ Return(E_EXC_NOMEM)
          /\ live' = live \ {list}
          /\ slots' = NoSlots
          /\ UNCHANGED items
    /\ UNCHANGED <<exlist, count, apps, apprec, making, disk, lost>>

(* exclist_init opens the summary file, or frees the item and the array. *)
InitFile ==
    /\ pc = "initfile"
    /\ \/ /\ files' = Write(info[slots[0]][0], slots[0])
          /\ fp_sum' = "open"
          /\ sum_index' = 1
          /\ pc' = "strdup"
          /\ UNCHANGED <<ret, list, list_num, list_index, slots, str, todo,
                         live, items>>
       \/ /\ Return(E_EXC_FOPEN)
          /\ live' = live \ {list, slots[0]}
          /\ Forget({slots[0]})
          /\ slots' = NoSlots
          /\ UNCHANGED files
    /\ UNCHANGED <<exlist, count, apps, apprec, making, summary, lost>>

(* Exc_Load copies the text. *)
DupStr ==
    /\ pc = "strdup"
    /\ \/ \E a \in Pick(live) :
            /\ live' = live \cup {a}
            /\ str' = a
            /\ pc' = "parse"
            /\ UNCHANGED ret
       \/ /\ ret' = E_EXC_NOMEM
          /\ pc' = "abort"
          /\ UNCHANGED <<live, str>>
    /\ UNCHANGED <<ctl, exlist, count, todo, apps, apprec, making, items, disk,
                   lost>>

-----------------------------------------------------------------------------
(* exclist_parse takes the next block; excblock_parse finds it blank, finds *)
(* a marker of an application exception, or leaves it to                    *)
(* excblock_parse_otherexc.                                                 *)
ParseBlock ==
    /\ pc = "parse"
    /\ todo > 0
    /\ todo' = todo - 1
    /\ \/ pc' = "parse" /\ UNCHANGED apps
       \/ pc' = "app" /\ apps' \in 1..MaxApps
       \/ pc' = "other" /\ UNCHANGED apps
    /\ UNCHANGED <<ctl, caller, str, apprec, making, live, items, disk, lost>>

(* excblock_parse_appexc has consumed the block: excblock_parse returns 0. *)
AppDone ==
    /\ pc = "app"
    /\ apps = 0
    /\ pc' = "parse"
    /\ UNCHANGED <<ctl, caller, parser, apprec, making, live, items, disk,
                   lost>>

(* excstr2apprec succeeds and has allocated the blocks R (an allocation     *)
(* that fails there is not an error).  A section that occurs twice in the   *)
(* text overwrites the pointer to its first buffer: the blocks O are lost,  *)
(* the record owns the others.                                              *)
AppFound ==
    /\ pc = "app"
    /\ apps > 0
    /\ apps' = apps - 1
    /\ frames' \in 0..MaxFrames
    /\ \E R \in SUBSET Pick(live) : \E O \in SUBSET R :
          /\ rec' = R \ O
          /\ lost' = lost \cup O
          /\ live' = live \cup R
    /\ pc' = "item"
    /\ UNCHANGED <<ctl, caller, str, todo, making, items, disk>>

(* A failure of excstr2apprec or apprec_push2list: the item is freed by     *)
(* apprec_push2list, what it already wrote stays on disk, apprec_release    *)
(* frees the record, and excblock_parse goes on to excblock_parse_otherexc  *)
(* with the same block, whatever the error was.                             *)
AppFail(freed) ==
    /\ live' = live \ (rec \cup freed)
    /\ Forget(freed)
    /\ files' = Orphan(files, freed)
    /\ rec' = {}
    /\ frames' = 0
    /\ item' = NULL
    /\ dasminfo' = NULL
    /\ k' = 0
    /\ apps' = 0
    /\ pc' = "other"

(* excstr2apprec returns E_EXC_NOTFOUND. *)
AppNotFound ==
    /\ pc = "app"
    /\ apps > 0
    /\ AppFail({})
    /\ UNCHANGED <<ctl, caller, str, todo, summary, lost>>

(* apprec_push2list allocates the item: four entries and one a frame. *)
NewAppItem ==
    /\ pc = "item"
    /\ \/ \E a \in Pick(live) :
            /\ live' = live \cup {a}
            /\ item' = a
            /\ info' = [info EXCEPT ![a] = NewInfo(4 + frames)]
            /\ pc' = "base"
            /\ UNCHANGED <<apps, apprec, dasminfo, k, desc, files>>
       \/ AppFail({})
    /\ UNCHANGED <<ctl, caller, str, todo, summary, lost>>

(* Entry j of the item gets path p; its file is opened and written. *)
SetInfo(j, p) ==
    /\ info' = [info EXCEPT ![item][j] = p]
    /\ files' = Write(p, item)
    /\ UNCHANGED desc

(* item_setbase *)
SetBase ==
    /\ pc = "base"
    /\ \/ /\ SetInfo(0, exclist_fmt_path("base", 0))
          /\ pc' = "analyse"
          /\ UNCHANGED <<apps, apprec, making, live>>
       \/ AppFail({item})
    /\ UNCHANGED <<ctl, caller, str, todo, summary, lost>>

(* item_setanalyse: fopen fails, or Analyser_Analyse reports an error after *)
(* the file was written.                                                    *)
SetAnalyse ==
    /\ pc = "analyse"
    /\ \/ /\ SetInfo(1, exclist_fmt_path("parse", 0))
          /\ pc' = "stack"
          /\ UNCHANGED <<apps, apprec, making, live>>
       \/ AppFail({item})
       \/ /\ pc' = "other"
          /\ files' = Orphan(Write(exclist_fmt_path("parse", 0), item), {item})
          /\ live' = live \ (rec \cup {item})
          /\ Forget({item})
          /\ rec' = {} /\ frames' = 0 /\ apps' = 0
          /\ item' = NULL
          /\ UNCHANGED <<dasminfo, k>>
    /\ UNCHANGED <<ctl, caller, str, todo, summary, lost>>

(* item_setstack *)
SetStack ==
    /\ pc = "stack"
    /\ \/ /\ SetInfo(2, exclist_fmt_path("stack", 0))
          /\ pc' = "getdasm"
          /\ UNCHANGED <<apps, apprec, making, live>>
       \/ AppFail({item})
    /\ UNCHANGED <<ctl, caller, str, todo, summary, lost>>

(* item_setdasms calls Dasm_GetFromRec: nothing to disassemble (no frames,  *)
(* or no library path), a T_DasmInfo, or an error.                          *)
GetDasm ==
    /\ pc = "getdasm"
    /\ \/ /\ pc' = "dasm"
          /\ k' = 0
          /\ UNCHANGED <<apps, apprec, item, dasminfo, live, items, files>>
       \/ /\ frames > 0
          /\ \E a \in Pick(live) :
                /\ live' = live \cup {a}
                /\ dasminfo' = a
          /\ pc' = "dasm"
          /\ k' = 0
          /\ UNCHANGED <<apps, apprec, item, items, files>>
       \/ /\ frames > 0
          /\ AppFail({item})
    /\ UNCHANGED <<ctl, caller, str, todo, summary, lost>>

(* item_setdasms calls set_a_dasm for the pc (k = 0), then for each frame;  *)
(* whatever happens it ends with Dasm_Release.                              *)
SetADasm ==
    /\ pc = "dasm"
    /\ \/ /\ SetInfo(3 + k, DasmPath)
          /\ \/ /\ k < frames
                /\ k' = k + 1
                /\ UNCHANGED <<pc, dasminfo, live>>
             \/ /\ k = frames
                /\ k' = 0
                /\ pc' = "pushapp"
                /\ dasminfo' = NULL
                /\ live' = live \ {dasminfo}
          /\ UNCHANGED <<apps, apprec, item>>
       \/ AppFail({item} \cup ({dasminfo} \ {NULL}))
    /\ UNCHANGED <<ctl, caller, str, todo, summary, lost>>

-----------------------------------------------------------------------------
(* exclist_push: the array is full and cannot grow (the item stays where it *)
(* is), or the item takes the next slot, of a new array when need be.       *)
PushRefused ==
    /\ list_index >= list_num
    /\ lost' = lost \cup {item}
    /\ UNCHANGED <<list, list_num, list_index, slots>>

PushFits ==
    /\ list_index < list_num
    /\ slots' = [slots EXCEPT ![list_index] = item]
    /\ list_index' = list_index + 1
    /\ UNCHANGED <<list, list_num, lost>>

(* The larger array: the old slots are copied, the item takes the next. *)
GrownUncopied ==                                        \* mutant
    [i \in 0..(list_num + ListGrow - 1) |-> IF i = list_index THEN item ELSE NULL]
Grown ==
    [i \in 0..(list_num + ListGrow - 1) |->
        IF i < list_num THEN slots[i] ELSE IF i = list_index THEN item ELSE NULL]

PushGrows(a) ==
    /\ list_index >= list_num
    /\ list_num' = list_num + ListGrow
    /\ slots' = Grown
    /\ list' = a
    /\ list_index' = list_index + 1
    /\ UNCHANGED lost

(* The number of the next record. *)
NextIndexOfItems == IF item = NULL THEN sum_index ELSE sum_index + 1   \* mutant
NextIndex        == sum_index + 1

(* exclist_push_item for the item in hand (NULL for a record the summary    *)
(* line says all about): description, exclist_push with its result lost, *)
(* summary line, next number.  freed is what the caller releases after it.  *)
exclist_push_item(freed) ==
    /\ \/ /\ item = NULL
          /\ live' = live \ freed
          /\ UNCHANGED <<desc, list, list_num, list_index, slots, lost>>
       \/ /\ item # NULL
          /\ desc' = [desc EXCEPT ![item] = sum_index]
          /\ \/ (PushRefused \/ PushFits) /\ live' = live \ freed
             \/ \E a \in Pick(live) :
                   /\ PushGrows(a)
                   /\ live' = ((live \cup {a}) \ {list}) \ freed
    /\ summary' = Append(summary, [index  |-> sum_index,
                                   detail |-> IF item = NULL THEN "none" ELSE "item"])
    /\ sum_index' = NextIndex
    /\ item' = NULL
    /\ UNCHANGED <<fp_sum, info, files>>

(* apprec_push2list pushes the item; apprec_release follows. *)
PushApp ==
    /\ pc = "pushapp"
    /\ exclist_push_item(rec)
    /\ rec' = {}
    /\ frames' = 0
    /\ pc' = "app"
    /\ UNCHANGED <<caller, parser, dasminfo, k>>

(* excblock_parse_otherexc: a short text goes to the summary only. *)
OtherBrief ==
    /\ pc = "other"
    /\ pc' = "pushother"
    /\ UNCHANGED <<ctl, caller, parser, apprec, making, live, items, disk,
                   lost>>

(* exclist_push_simple_record for a long text: an item with one file; a     *)
(* failure ends the whole load.                                             *)
OtherLong ==
    /\ pc = "other"
    /\ \/ /\ \E a \in Pick(live) :
                /\ live' = live \cup {a}
                /\ item' = a
                /\ info' = [info EXCEPT ![a] =
                               [j \in {0} |-> exclist_fmt_path("info", 0)]]
                /\ files' = Write(exclist_fmt_path("info", 0), a)
          /\ pc' = "pushother"
          /\ UNCHANGED <<ret, desc>>
       \/ /\ pc' = "abort"                 \* Exc_Malloc or fopen fails
          /\ ret' = E_EXC_NOMEM
          /\ UNCHANGED <<live, item, items, files>>
    /\ UNCHANGED <<ctl, exlist, count, parser, apprec, dasminfo, k, summary,
                   lost>>

PushOther ==
    /\ pc = "pushother"
    /\ exclist_push_item({})
    /\ pc' = "parse"
    /\ UNCHANGED <<caller, parser, apprec, dasminfo, k>>

-----------------------------------------------------------------------------
(* The number of items Exc_Load hands over. *)
HandedButLast == list_index - 1                         \* mutant
Handed        == list_index

(* Exc_Load has parsed the whole text: the array goes to the caller, and    *)
(* exclist_release only closes the summary file.                            *)
Deliver ==
    /\ pc = "parse"
    /\ todo = 0
    /\ exlist' = list
    /\ count' = Handed
    /\ live' = live \ {str}
    /\ Return(0)
    /\ UNCHANGED <<slots, apps, apprec, making, items, disk, lost>>

(* What exclist_release frees: every slot and the array. *)
SlotsOnly       == Listed                               \* mutant
exclist_release == {list} \cup Listed

(* Exc_Load fails. *)
Abort ==
    /\ pc = "abort"
    /\ live' = live \ ({str} \cup exclist_release)
    /\ Forget(Listed)
    /\ files' = Orphan(files, Listed)
    /\ slots' = NoSlots
    /\ Return(ret)
    /\ UNCHANGED <<exlist, count, apps, apprec, making, summary, lost>>

(* Exc_Release: unlink every file of every item (an unlink may fail), free  *)
(* the items and the array.                                                 *)
Release ==
    /\ pc = "idle"
    /\ exlist # NULL
    /\ LET given == {slots[i] : i \in 0..count-1}
           own   == {f \in files : \E a \in given :
                        \E j \in DOMAIN info[a] : info[a][j] = f.path}
       IN /\ \E stuck \in Remaining(own) :
                files' = Orphan((files \ own) \cup stuck, given)
          /\ live' = live \ ({exlist} \cup given)
          /\ Forget(given)
    /\ exlist' = NULL
    /\ count' = 0
    /\ slots' = NoSlots
    /\ UNCHANGED <<pc, ret, fp_sum, sum_index, list, list_num, list_index,
                   parser, apprec, making, summary, lost>>

-----------------------------------------------------------------------------
(* The steps of a call that has begun: nothing ever blocks it. *)
Step ==
    \/ InitList \/ InitItem \/ InitFile \/ DupStr
    \/ ParseBlock \/ Deliver \/ Abort
    \/ AppFound \/ AppNotFound \/ AppDone
    \/ NewAppItem \/ SetBase \/ SetAnalyse \/ SetStack \/ GetDasm \/ SetADasm
    \/ PushApp \/ OtherBrief \/ OtherLong \/ PushOther

Next == Load \/ LoadReject \/ Release \/ Step

(* A single thread runs the call to its end; the caller may never call.     *)
Spec == Init /\ [][Next]_vars /\ WF_vars(Step)

-----------------------------------------------------------------------------
(* The values of the variables at every place of the code. *)
CallTypeOK ==
    /\ pc \in {"idle", "initlist", "inititem", "initfile", "strdup", "parse",
              "app", "item", "base", "analyse", "stack", "getdasm", "dasm",
              "pushapp", "other", "pushother", "abort"}
    /\ ret \in Errors \cup {0}
    /\ count \in Nat /\ fp_sum \in {"open", "closed"} /\ sum_index \in Nat
    /\ list_num \in Nat /\ list_index \in Nat
    /\ todo \in Nat /\ apps \in Nat /\ frames \in Nat /\ k \in Nat
    /\ summary \in Seq([index : Nat, detail : {"none", "item"}])

HeapTypeOK ==
    /\ list \in Addr \cup {NULL} /\ exlist \in Addr \cup {NULL}
    /\ str \in Addr \cup {NULL} /\ item \in Addr \cup {NULL}
    /\ dasminfo \in Addr \cup {NULL}
    /\ \A i \in DOMAIN slots : i \in Nat /\ slots[i] \in Addr \cup {NULL}
    /\ live \subseteq Addr /\ rec \subseteq Addr /\ lost \subseteq Addr

ItemsTypeOK ==
    /\ desc \in [Addr -> Nat]
    /\ DOMAIN info = Addr
    /\ \A a \in Addr : \A j \in DOMAIN info[a] :
          info[a][j] \in Path \cup {NoPath}
    /\ \A f \in files : f.path \in Path /\ f.writer \in Addr \cup {NULL}

TypeOK == CallTypeOK /\ HeapTypeOK /\ ItemsTypeOK

(* The blocks held by the pointers of the call and of the caller. *)
Pointers == {list, exlist, str, item, dasminfo} \ {NULL}

(* Every heap block in use has exactly one owner, from which it will be     *)
(* freed exactly once: a pointer, a slot of the array, the record.  The     *)
(* only blocks without one are the items exclist_push refused and the       *)
(* overwritten buffers of repeated sections.  Between two calls only these  *)
(* and the caller's list are in use.                                        *)
OneOwner ==
    /\ live = Pointers \cup Listed \cup rec \cup lost
    /\ \A i, j \in DOMAIN slots :
          slots[i] = slots[j] /\ i # j => slots[i] = NULL
    /\ Pointers \cap (Listed \cup rec \cup lost) = {}
    /\ Listed \cap (rec \cup lost) = {}
    /\ rec \cap lost = {}
    /\ list = NULL \/ exlist = NULL
    /\ str # NULL => str \notin {list, exlist, item, dasminfo}
    /\ item # NULL => item \notin {list, exlist, dasminfo}
    /\ dasminfo # NULL => dasminfo \notin {list, exlist}
    /\ pc = "idle" => Pointers \subseteq {exlist} /\ rec = {} /\ fp_sum = "closed"

(* Every entry of every listed item names a file that is on disk and holds  *)
(* what was written for this very item: no later record, retry, clean-up    *)
(* or left-over of an earlier load overwrote or removed it.                 *)
FilesOfItems ==
    pc \notin {"initlist", "inititem", "initfile", "abort"} =>
        \A a \in Listed : \A j \in DOMAIN info[a] :
            [path |-> info[a][j], writer |-> a] \in files

(* Numbers in the summary are 1, 2, ... without gap or repetition; the      *)
(* items follow the summary in strictly increasing number, each with a      *)
(* summary line that announces it, and its files carry that number.         *)
Numbering ==
    LET last == IF pc = "idle" THEN count ELSE list_index
    IN  /\ pc \notin {"idle", "initlist", "inititem", "initfile"} =>
              sum_index = Len(summary) + 1
        /\ \A i \in 1..Len(summary) : summary[i].index = i
        /\ \A i \in 1..last-1 :
              LET a == slots[i] IN
              /\ desc[slots[i-1]] < desc[a]
              /\ desc[a] \in 1..Len(summary) /\ summary[desc[a]].detail = "item"
              /\ \A j \in DOMAIN info[a] : info[a][j][1] = desc[a]

(* exclist_push only ever appends: what a slot holds stays there, also      *)
(* when the array is replaced by a larger one.                              *)
AppendOnly ==
    [][list # NULL /\ list' # NULL =>
         /\ list_index' \in {list_index, list_index + 1}
         /\ \A i \in 0..list_index-1 : slots'[i] = slots[i]]_vars

(* A call returns, whatever allocations and files fail. *)
LoadReturns == pc # "idle" ~> pc = "idle"

-----------------------------------------------------------------------------
(* What the caller sees of a call: nothing before it returns. *)
ItemPaths(a) == {info[a][j] : j \in DOMAIN info[a]}
Shown == IF exlist = NULL THEN {}
         ELSE {ItemPaths(slots[i]) : i \in 0..count-1}
Readable == IF exlist = NULL THEN {}
            ELSE {f.path : f \in {g \in files : g.writer \in Listed
                                        /\ g.path \in ItemPaths(g.writer)}}

Api == INSTANCE ExcApi WITH
    Errors   <- Errors,
    Path     <- Path,
    busy     <- pc # "idle",
    shown    <- Shown,
    readable <- Readable,
    ret      <- IF pc = "idle" THEN ret ELSE 0

(* Exc_Load and Exc_Release behave as their interface promises. *)
ImplementsApi == Api!Spec
=============================================================================
