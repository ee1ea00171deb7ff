-------------------------------- MODULE ExcDasm -------------------------------
(***************************************************************************)
(* The disassembly of a call chain (parser/dasm.c): Dasm_GetFromRec loads  *)
(* the program and its libraries one after the other; for each function    *)
(* dumpwrap_load (binutils/dumpwrap.c) comes to, funcs_actcheck decides    *)
(* whether an item of the chain wants it, and funcs_dump collects its      *)
(* text.  Then item_setdasms (parser/exclist_apprec2list.c) chooses the    *)
(* item each entry of the record shows.  A file is abstracted to its load  *)
(* address and its functions; the text of a function to the function.      *)
(***************************************************************************)
EXTENDS Integers, Sequences, FiniteSets, FiniteSetsExt

CONSTANTS
    NULL,
    Chains,     (* pc of the exception followed by those of the backtrace   *)
    Libraries,  (* the program and its libraries: sequences of files        *)
    IntSize,    (* an int keeps a dasm_addr_t modulo this (2^32)            *)
    CacheSize   (* size of funcs_ctl.cache (320K)                           *)

(* A function in a file; a file without symbols has functions named NULL.   *)
IsFunction(f) == f.code_start \in Nat /\ f.code_end \in Nat
IsFile(e) ==
    /\ e.vma_offset \in Nat
    /\ Len(e.functions) \in Nat /\ DOMAIN e.functions = 1..Len(e.functions)
    /\ \A i \in DOMAIN e.functions : IsFunction(e.functions[i])

ASSUME DasmAssumption ==
    /\ \A c \in Chains : c \in Seq(Nat) /\ c # <<>>
    /\ \A l \in Libraries :
          /\ l # <<>> /\ Len(l) \in Nat /\ DOMAIN l = 1..Len(l)
          /\ \A i \in DOMAIN l : IsFile(l[i])
    /\ NULL \notin [elf : Nat, fn : Nat]
    /\ IntSize \in Nat \ {0} /\ CacheSize \in Nat \ {0}

VARIABLES
    pc,         (* "load", "function", "dump", "entries" or "done"          *)
    chain,      (* pc of the items, in their order                          *)
    libs,       (* the files to load; <<>> without a path to look in        *)
    elf,        (* index of the file DasmAElf is to load or is loading      *)
    fn,         (* index of the next function of that file                  *)
    funcaddr,   (* item->funcaddr                                           *)
    funcname,   (* item->funcname, NULL when empty                          *)
    from,       (* function whose file and offset the item has              *)
    dasmstr,    (* function whose text the item has                         *)
    cur,        (* funcctl->cur: an item's index, 0 for NULL                *)
    len,        (* funcctl->len                                             *)
    entries,    (* item shown by each entry, 0 for none                     *)
    loaded      (* the files disassembled (for the properties)              *)

input  == <<chain, libs>>
dasms  == <<funcaddr, funcname, from, dasmstr>>
output == <<cur, len>>
vars   == <<pc, input, elf, fn, dasms, output, entries, loaded>>

Items == DOMAIN chain

-----------------------------------------------------------------------------
(* Dasm_GetFromRec, which loads nothing without a path to the files or      *)
(* without a backtrace.                                                     *)
Init ==
    /\ chain \in Chains
    /\ \/ libs \in Libraries /\ Len(chain) > 1 /\ pc = "load"
       \/ libs = <<>> /\ pc = "entries"
    /\ elf = 1 /\ fn = 1
    /\ funcaddr = [i \in Items |-> 0]
    /\ funcname = [i \in Items |-> NULL]
    /\ from = [i \in Items |-> NULL]
    /\ dasmstr = [i \in Items |-> NULL]
    /\ cur = 0 /\ len = 0
    /\ entries = <<>>
    /\ loaded = {}

(* dumpwrap_load begins a file, or finds that it is missing, has another    *)
(* size than the record says, or cannot be disassembled.                    *)
DasmAElf ==
    /\ pc = "load"
    /\ elf <= Len(libs)
    /\ \/ pc' = "function" /\ fn' = 1 /\ loaded' = loaded \cup {elf} /\ UNCHANGED elf
       \/ elf' = elf + 1 /\ UNCHANGED <<pc, fn, loaded>>
    /\ UNCHANGED <<input, dasms, output, entries>>

File     == libs[elf]
Function == File.functions[fn]
(* A function, wherever it is loaded. *)
Where    == [elf |-> elf, fn |-> fn]

(* funcs_endfunc: the item has the text collected for it, or none when      *)
(* there is no text or no memory.                                           *)
funcs_endfunc ==
    \/ cur = 0 /\ UNCHANGED dasmstr
    \/ cur # 0 /\ len = 0 /\ dasmstr' = [dasmstr EXCEPT ![cur] = NULL]
    \/ cur # 0 /\ len > 0 /\ \E s \in {from[cur], NULL} : dasmstr' = [dasmstr EXCEPT ![cur] = s]

(* The items that want the function: not found yet, their pc in it (an item *)
(* without a pc takes any), and no other name.                              *)
NoRange(p, e, f) == e.vma_offset + f.code_start <= p                 \* mutant
InRange(p, e, f) == e.vma_offset + f.code_start <= p /\ p < e.vma_offset + f.code_end
Wants(i) ==
    /\ funcaddr[i] = 0
    /\ chain[i] # 0 => InRange(chain[i], File, Function)
    /\ Function.name # NULL /\ funcname[i] # NULL => funcname[i] = Function.name

(* func_startfunc returns an int: dumpwrap_load takes 0 for a function      *)
(* nobody wants and does not disassemble it.                                *)
Answer(i) ==
    (IF chain[i] # 0 THEN chain[i] - File.vma_offset ELSE Function.code_start) % IntSize

(* The item that gets the function. *)
LastOf(i, W)  == i \in W /\ \A j \in W : j <= i                     \* mutant
FirstOf(i, W) == i \in W /\ \A j \in W : i <= j

FuncStart ==
    /\ pc = "function"
    /\ fn <= Len(File.functions)
    /\ funcs_endfunc
    /\ LET W == {i \in Items : Wants(i)}
       IN  \/ /\ W = {}
              /\ cur' = 0 /\ len' = 0
              /\ fn' = fn + 1
              /\ UNCHANGED <<pc, funcaddr, funcname, from>>
           \/ \E i \in Items :
                 /\ FirstOf(i, W)
                 /\ funcaddr' = [funcaddr EXCEPT ![i] = Function.code_start]
                 /\ funcname' = [funcname EXCEPT ![i] =
                       IF Function.name = NULL THEN @ ELSE Function.name]
                 /\ from' = [from EXCEPT ![i] = Where]
                 /\ cur' = i /\ len' = 0
                 /\ \/ Answer(i) # 0 /\ pc' = "dump" /\ UNCHANGED fn
                    \/ Answer(i) = 0 /\ fn' = fn + 1 /\ UNCHANGED pc
    /\ UNCHANGED <<input, elf, entries, loaded>>

(* What funcs_dump takes of n characters. *)
WholeCache(n) == Min({n, CacheSize - len})                           \* mutant
RoomFor(n)    == Min({n, CacheSize - len - 1})
funcs_dump ==
    /\ pc = "dump"
    /\ \E n \in 1..CacheSize : len' = len + RoomFor(n)
    /\ UNCHANGED <<pc, input, elf, fn, dasms, cur, entries, loaded>>

FuncEnd ==
    /\ pc = "dump"
    /\ funcs_endfunc
    /\ cur' = 0 /\ len' = 0
    /\ fn' = fn + 1
    /\ pc' = "function"
    /\ UNCHANGED <<input, elf, funcaddr, funcname, from, entries, loaded>>

(* EDumpWrapEnd *)
FileEnd ==
    /\ pc = "function"
    /\ fn > Len(File.functions)
    /\ funcs_endfunc
    /\ cur' = 0 /\ len' = 0
    /\ elf' = elf + 1
    /\ pc' = "load"
    /\ UNCHANGED <<input, fn, funcaddr, funcname, from, entries, loaded>>

DasmEnd ==
    /\ pc = "load"
    /\ elf > Len(libs)
    /\ pc' = "entries"
    /\ UNCHANGED <<input, elf, fn, dasms, output, entries, loaded>>

-----------------------------------------------------------------------------
(* The item shown by entry n of the record: the pc, the first frame (which  *)
(* shares the item of the pc when that took its function), other frames.    *)
SharedAlways == funcaddr[2] = 0                                      \* mutant
SharedFound  == chain[1] = chain[2] /\ funcaddr[2] # 0               \* mutant
Shared       == chain[1] = chain[2] /\ funcaddr[2] = 0
ItemOf(n) == IF libs = <<>> THEN 0 ELSE IF n = 2 /\ Shared THEN 1 ELSE n

item_setdasms ==
    /\ pc = "entries"
    /\ entries' = Append(entries, ItemOf(Len(entries) + 1))
    /\ pc' = IF Len(entries') = Len(chain) THEN "done" ELSE pc
    /\ UNCHANGED <<input, elf, fn, dasms, output, loaded>>

Next ==
    \/ DasmAElf \/ FuncStart \/ funcs_dump \/ FuncEnd \/ FileEnd \/ DasmEnd
    \/ item_setdasms

Spec == Init /\ [][Next]_vars

-----------------------------------------------------------------------------
(* The values of the variables: text is only collected for an item, and     *)
(* funcs_dump leaves room for the final '\0'.                               *)
TypeOK ==
    /\ pc \in {"load", "function", "dump", "entries", "done"}
    /\ chain \in Chains /\ libs \in Libraries \cup {<<>>}
    /\ elf \in 1..Len(libs)+1 /\ fn \in Nat /\ loaded \subseteq DOMAIN libs
    /\ funcaddr \in [Items -> Nat]
    /\ DOMAIN funcname = Items /\ DOMAIN from = Items /\ DOMAIN dasmstr = Items
    /\ cur \in Items \cup {0} /\ len \in 0..CacheSize-1
    /\ cur = 0 => len = 0
    /\ Len(entries) <= Len(chain)

(* Whether address p is in function w. *)
Holds(w, p) ==
    LET e == libs[w.elf]
    IN  p - e.vma_offset \in e.functions[w.fn].code_start .. e.functions[w.fn].code_end - 1

(* Between two files, what an item shows is a function its own pc is in, in *)
(* the file loaded there, and its text is the text of that function: the    *)
(* one cache and the one current item of func_startfunc, funcs_dump and     *)
(* funcs_endfunc never give it the text of an earlier or later function.    *)
OwnFunction ==
    pc \in {"load", "entries", "done"} =>
        /\ cur = 0
        /\ \A i \in Items :
              /\ chain[i] # 0 /\ from[i] # NULL => Holds(from[i], chain[i])
              /\ dasmstr[i] \in {from[i], NULL}

(* func_startfunc gives a function to one item only.  An item left without  *)
(* any, whose pc is in a function of a file that was loaded, lost it to an  *)
(* item before it in the chain: the pc of the exception is served first.    *)
(* (A function at 0 leaves its item unresolved, to be taken again.)         *)
NothingMissed ==
    pc \in {"entries", "done"} =>
        \A i \in Items, e \in loaded : \A f \in DOMAIN libs[e].functions :
            LET w == [elf |-> e, fn |-> f]
            IN  from[i] = NULL /\ Holds(w, chain[i]) /\ libs[e].functions[f].code_start # 0 =>
                    \E j \in 1..i-1 : from[j] = w

(* The assertion of set_a_dasm: the item an entry shows has the entry's pc. *)
AssertPc == \A n \in DOMAIN entries : entries[n] # 0 => chain[entries[n]] = chain[n]

(* The pc and the first frame of an exception are often the same address:   *)
(* though one item only gets the function, both entries show it.            *)
FirstFrameShown ==
    Len(entries) >= 2 /\ libs # <<>> /\ chain[1] = chain[2] /\ from[1] # NULL =>
        from[entries[2]] # NULL
=============================================================================
