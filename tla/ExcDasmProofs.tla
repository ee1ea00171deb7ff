---------------------------- MODULE ExcDasmProofs ----------------------------
(***************************************************************************)
(* Theorems about ExcDasm, for every call chain, every set of files, every *)
(* size of the cache and of an int.                                        *)
(***************************************************************************)
EXTENDS ExcDasm, TLAPS

Functions(e) == libs[e].functions

(* Where Dasm_GetFromRec and the callbacks are. *)
PlaceInv ==
    /\ pc \in {"load", "function", "dump", "entries", "done"}
    /\ chain \in Chains /\ libs \in Libraries \cup {<<>>}
    /\ elf \in 1..Len(libs)+1 /\ fn \in Nat
    /\ pc \in {"function", "dump"} => elf \in DOMAIN libs /\ fn \in 1..Len(Functions(elf))+1
    /\ pc = "dump" => fn \in 1..Len(Functions(elf))
    /\ loaded \subseteq DOMAIN libs
    /\ \A e \in loaded : e < elf \/ (e = elf /\ pc \in {"function", "dump"})

(* The cache has room for what it holds, which is text of the current item. *)
CacheInv ==
    /\ cur \in Items \cup {0} /\ len \in 0..CacheSize-1
    /\ cur = 0 => len = 0
    /\ pc = "dump" => cur # 0
    /\ pc \in {"load", "entries", "done"} => cur = 0

(* An item with a function has its name and address; text is of that        *)
(* function, except for the current item, whose text is not yet collected.  *)
IsPlace(w) == w \in [elf : Nat, fn : Nat] /\ w.elf \in DOMAIN libs /\ w.fn \in DOMAIN Functions(w.elf)
ItemsInv ==
    /\ funcaddr \in [Items -> Nat]
    /\ DOMAIN funcname = Items /\ DOMAIN from = Items /\ DOMAIN dasmstr = Items
    /\ \A i \in Items :
          /\ from[i] = NULL => funcaddr[i] = 0 /\ funcname[i] = NULL
          /\ from[i] # NULL =>
                /\ IsPlace(from[i])
                /\ funcaddr[i] = Functions(from[i].elf)[from[i].fn].code_start
                /\ chain[i] # 0 => Holds(from[i], chain[i])
          /\ i # cur => dasmstr[i] \in {from[i], NULL}

(* The functions the callbacks were asked about. *)
Passed(e, f) ==
    /\ e \in loaded /\ f \in DOMAIN Functions(e)
    /\ e = elf /\ pc \in {"function", "dump"} => f < fn \/ (f = fn /\ pc = "dump")
MissedInv ==
    \A i \in Items, e \in loaded : \A f \in DOMAIN Functions(e) :
        Passed(e, f) /\ from[i] = NULL /\ Holds([elf |-> e, fn |-> f], chain[i])
                     /\ Functions(e)[f].code_start # 0
            => \E j \in 1..i-1 : from[j] = [elf |-> e, fn |-> f]

(* What the entries show. *)
EntriesInv ==
    /\ entries \in Seq(Nat)
    /\ Len(entries) <= Len(chain)
    /\ pc \notin {"entries", "done"} => entries = <<>>
    /\ pc = "entries" => Len(entries) < Len(chain)
    /\ \A n \in DOMAIN entries : entries[n] = ItemOf(n)

IInv == PlaceInv /\ CacheInv /\ ItemsInv /\ MissedInv /\ EntriesInv

-----------------------------------------------------------------------------
(* What the assumption on the constants says of the files and the chain. *)
LEMMA Inputs ==
    ASSUME PlaceInv
    PROVE  /\ Items = 1..Len(chain) /\ Len(chain) \in Nat \ {0}
           /\ \A i \in Items : chain[i] \in Nat
           /\ Len(libs) \in Nat /\ DOMAIN libs = 1..Len(libs)
           /\ \A e \in DOMAIN libs :
                 /\ libs[e].vma_offset \in Nat
                 /\ Len(Functions(e)) \in Nat /\ DOMAIN Functions(e) = 1..Len(Functions(e))
                 /\ \A f \in DOMAIN Functions(e) :
                       Functions(e)[f].code_start \in Nat /\ Functions(e)[f].code_end \in Nat
<1>1. chain \in Seq(Nat) /\ chain # <<>>
  BY DasmAssumption DEF PlaceInv
<1>2. CASE libs = <<>>
  BY <1>1, <1>2 DEF Items
<1>3. CASE libs \in Libraries
  BY <1>1, <1>3, DasmAssumption DEF Items, Functions, IsFile, IsFunction
<1>4. QED
  BY <1>2, <1>3 DEF PlaceInv

(* funcs_dump takes what the cache has room for. *)
LEMMA Room ==
    ASSUME NEW n \in 1..CacheSize, len \in 0..CacheSize-1
    PROVE  RoomFor(n) \in 0..CacheSize-1-len
<1> DEFINE m == CacheSize - len - 1
<1>1. CacheSize \in Nat /\ m \in Nat
  BY DasmAssumption
<1>2. \E x \in {n, m} : \A y \in {n, m} : x <= y
  BY <1>1
<1>3. Min({n, m}) \in {n, m} /\ \A y \in {n, m} : Min({n, m}) <= y
  BY <1>2 DEF Min
<1>4. QED
  BY <1>1, <1>3 DEF RoomFor

(* funcs_endfunc gives the current item the text of its function. *)
LEMMA EndFunc ==
    ASSUME PlaceInv, ItemsInv, CacheInv, funcs_endfunc
    PROVE  /\ DOMAIN dasmstr' = Items
           /\ \A i \in Items : dasmstr'[i] \in {from[i], NULL}
<1>1. /\ DOMAIN dasmstr = Items /\ cur \in Items \cup {0}
      /\ \A i \in Items : i # cur => dasmstr[i] \in {from[i], NULL}
  BY DEF ItemsInv, CacheInv
<1>2. 0 \notin Items
  BY Inputs
<1>3. CASE cur = 0 /\ UNCHANGED dasmstr
  BY <1>1, <1>2, <1>3
<1>4. CASE cur # 0 /\ len = 0 /\ dasmstr' = [dasmstr EXCEPT ![cur] = NULL]
  BY <1>1, <1>4
<1>5. CASE \E s \in {from[cur], NULL} : dasmstr' = [dasmstr EXCEPT ![cur] = s]
  BY <1>1, <1>5
<1>6. QED
  BY <1>3, <1>4, <1>5 DEF funcs_endfunc

-----------------------------------------------------------------------------
(* The initial states. *)
LEMMA InitInv == Init => IInv
<1> SUFFICES ASSUME Init PROVE IInv
  OBVIOUS
<1>1. chain \in Seq(Nat) /\ Len(chain) \in Nat \ {0} /\ Items = 1..Len(chain)
  BY DasmAssumption DEF Init, Items
<1>2. PlaceInv
  BY DasmAssumption DEF Init, PlaceInv
<1>3. CacheInv
  BY DasmAssumption DEF Init, CacheInv
<1>4. ItemsInv
  BY DEF Init, ItemsInv
<1>5. MissedInv
  BY DEF Init, MissedInv
<1>6. EntriesInv
  BY <1>1 DEF Init, EntriesInv
<1>7. QED
  BY <1>2, <1>3, <1>4, <1>5, <1>6 DEF IInv

LEMMA PlaceStep == IInv /\ Next => PlaceInv'
<1> SUFFICES ASSUME IInv, Next PROVE PlaceInv'
  OBVIOUS
<1> USE DEF PlaceInv, Functions
<1>0. PlaceInv /\ UNCHANGED input
  BY DEF IInv, Next, DasmAElf, FuncStart, funcs_dump, FuncEnd, FileEnd, DasmEnd, item_setdasms, input
<1>1. CASE DasmAElf
  BY <1>0, <1>1, Inputs DEF DasmAElf, input
<1>2. CASE FuncStart
  <2>1. /\ pc = "function" /\ UNCHANGED <<elf, loaded>>
        /\ elf \in DOMAIN libs /\ elf \in Nat /\ Len(Functions(elf)) \in Nat
        /\ fn \in Nat \ {0} /\ fn <= Len(Functions(elf))
    BY <1>0, <1>2, Inputs DEF FuncStart, File
  <2>2. \/ pc' = "function" /\ fn' = fn + 1
        \/ pc' = "dump" /\ fn' = fn
    BY <1>2, <2>1 DEF FuncStart
  <2>3. QED
    BY <1>0, <2>1, <2>2 DEF input
<1>3. CASE funcs_dump
  BY <1>0, <1>3 DEF funcs_dump, input
<1>4. CASE FuncEnd
  BY <1>0, <1>4, Inputs DEF FuncEnd, input
<1>5. CASE FileEnd
  BY <1>0, <1>5, Inputs DEF FileEnd, File, input
<1>6. CASE DasmEnd
  BY <1>0, <1>6 DEF DasmEnd, input
<1>7. CASE item_setdasms
  BY <1>0, <1>7 DEF item_setdasms, input
<1>8. QED
  BY <1>1, <1>2, <1>3, <1>4, <1>5, <1>6, <1>7 DEF Next

LEMMA CacheStep == IInv /\ Next => CacheInv'
<1> SUFFICES ASSUME IInv, Next PROVE CacheInv'
  OBVIOUS
<1> USE DEF CacheInv, Items
<1>0. PlaceInv /\ CacheInv /\ UNCHANGED input /\ 0 \in 0..CacheSize-1 /\ 0 \notin Items
  BY Inputs, DasmAssumption
     DEF IInv, Next, DasmAElf, FuncStart, funcs_dump, FuncEnd, FileEnd, DasmEnd, item_setdasms, input
<1>1. CASE DasmAElf
  BY <1>0, <1>1 DEF DasmAElf, input, output
<1>2. CASE FuncStart
  BY <1>0, <1>2 DEF FuncStart, input
<1>3. CASE funcs_dump
  <2>1. PICK n \in 1..CacheSize : len' = len + RoomFor(n)
    BY <1>3 DEF funcs_dump
  <2>2. RoomFor(n) \in 0..CacheSize-1-len
    BY <1>0, Room
  <2>3. len' \in 0..CacheSize-1
    BY <1>0, <2>1, <2>2, DasmAssumption
  <2>4. QED
    BY <1>0, <1>3, <2>3 DEF funcs_dump, input
<1>4. CASE FuncEnd
  BY <1>0, <1>4 DEF FuncEnd, input
<1>5. CASE FileEnd
  BY <1>0, <1>5 DEF FileEnd, input
<1>6. CASE DasmEnd
  BY <1>0, <1>6 DEF DasmEnd, input, output
<1>7. CASE item_setdasms
  BY <1>0, <1>7 DEF item_setdasms, input, output, PlaceInv
<1>8. QED
  BY <1>1, <1>2, <1>3, <1>4, <1>5, <1>6, <1>7 DEF Next

(* The item that gets a function had none at an address other than 0, and   *)
(* has its pc in the function.                                              *)
LEMMA Given ==
    ASSUME PlaceInv, ItemsInv, pc = "function", fn <= Len(File.functions),
           NEW i \in Items, Wants(i)
    PROVE  /\ IsPlace(Where) /\ Where # NULL
           /\ Function = Functions(Where.elf)[Where.fn]
           /\ Function.code_start \in Nat
           /\ funcaddr[i] = 0
           /\ chain[i] # 0 => Holds(Where, chain[i])
<1>1. elf \in DOMAIN libs /\ fn \in DOMAIN Functions(elf) /\ elf \in Nat /\ fn \in Nat
  BY Inputs DEF PlaceInv, File, Functions
<1>2. Where.elf = elf /\ Where.fn = fn /\ Where \in [elf : Nat, fn : Nat]
  BY <1>1 DEF Where
<1>3. Where # NULL
  BY <1>2, DasmAssumption
<1>4. IsPlace(Where) /\ Function = Functions(Where.elf)[Where.fn]
  BY <1>1, <1>2 DEF IsPlace, Function, File, Functions
<1>5. Function.code_start \in Nat /\ Function.code_end \in Nat /\ File.vma_offset \in Nat
      /\ chain[i] \in Nat
  BY <1>1, Inputs DEF Function, File, Functions
<1>6. chain[i] # 0 => InRange(chain[i], File, Function)
  BY DEF Wants
<1>7. ASSUME InRange(chain[i], File, Function) PROVE Holds(Where, chain[i])
  <2>1. /\ File.vma_offset + Function.code_start <= chain[i]
        /\ chain[i] < File.vma_offset + Function.code_end
    BY <1>7 DEF InRange
  <2>2. \A v, s, t, p \in Nat : v + s <= p /\ p < v + t => p - v \in s..t-1
    OBVIOUS
  <2>3. chain[i] - File.vma_offset \in Function.code_start..Function.code_end-1
    BY <1>5, <2>1, <2>2
  <2>4. QED
    BY <1>2, <2>3 DEF Holds, File, Function
<1>8. QED
  BY <1>3, <1>4, <1>5, <1>6, <1>7 DEF Wants

LEMMA ItemsStep == IInv /\ Next => ItemsInv'
<1> SUFFICES ASSUME IInv, Next PROVE ItemsInv'
  OBVIOUS
<1>0. PlaceInv /\ CacheInv /\ ItemsInv /\ UNCHANGED <<chain, libs>>
  BY DEF IInv, Next, DasmAElf, FuncStart, funcs_dump, FuncEnd, FileEnd, DasmEnd, item_setdasms, input
<1>a. Items' = Items /\ \A w : IsPlace(w)' = IsPlace(w)
  BY <1>0 DEF Items, IsPlace, Functions
<1>b. ASSUME UNCHANGED <<dasms, cur>> PROVE ItemsInv'
  BY <1>0, <1>a, <1>b DEF ItemsInv, dasms, Holds, Functions
<1>c. ASSUME funcs_endfunc, UNCHANGED <<funcaddr, funcname, from>> PROVE ItemsInv'
  <2>1. DOMAIN dasmstr' = Items /\ \A i \in Items : dasmstr'[i] \in {from[i], NULL}
    BY <1>0, <1>c, EndFunc
  <2>2. QED
    BY <1>0, <1>a, <1>c, <2>1 DEF ItemsInv, Holds, Functions
<1>1. CASE DasmAElf
  BY <1>1, <1>b DEF DasmAElf, output
<1>2. CASE FuncStart
  <2>1. CASE UNCHANGED <<funcaddr, funcname, from>>
    BY <1>2, <1>c, <2>1 DEF FuncStart
  <2>2. CASE \E i \in Items :
               /\ Wants(i)
               /\ funcaddr' = [funcaddr EXCEPT ![i] = Function.code_start]
               /\ funcname' = [funcname EXCEPT ![i] =
                     IF Function.name = NULL THEN @ ELSE Function.name]
               /\ from' = [from EXCEPT ![i] = Where]
               /\ cur' = i
    <3>1. PICK i \in Items :
               /\ Wants(i)
               /\ funcaddr' = [funcaddr EXCEPT ![i] = Function.code_start]
               /\ funcname' = [funcname EXCEPT ![i] =
                     IF Function.name = NULL THEN @ ELSE Function.name]
               /\ from' = [from EXCEPT ![i] = Where]
               /\ cur' = i
      BY <2>2
    <3>2. /\ IsPlace(Where) /\ Where # NULL
          /\ Function = Functions(Where.elf)[Where.fn]
          /\ Function.code_start \in Nat
          /\ chain[i] # 0 => Holds(Where, chain[i])
      BY <1>0, <1>2, <3>1, Given DEF FuncStart
    <3>3. DOMAIN dasmstr' = Items /\ \A j \in Items : dasmstr'[j] \in {from[j], NULL}
      BY <1>0, <1>2, EndFunc DEF FuncStart
    <3>4. /\ funcaddr' \in [Items -> Nat]
          /\ DOMAIN funcname' = Items /\ DOMAIN from' = Items
      BY <1>0, <3>1, <3>2 DEF ItemsInv
    <3>5. /\ from'[i] = Where /\ funcaddr'[i] = Function.code_start
          /\ \A j \in Items : j # i => /\ from'[j] = from[j] /\ funcaddr'[j] = funcaddr[j]
                                       /\ funcname'[j] = funcname[j]
      BY <1>0, <3>1 DEF ItemsInv
    <3>6. \A w, p : Holds(w, p)' = Holds(w, p)
      BY <1>0 DEF Holds
    <3>7. \A e : Functions(e)' = Functions(e)
      BY <1>0 DEF Functions
    <3>8. ASSUME NEW j \in Items
          PROVE  /\ from'[j] = NULL => funcaddr'[j] = 0 /\ funcname'[j] = NULL
                 /\ from'[j] # NULL =>
                       /\ IsPlace(from'[j])
                       /\ funcaddr'[j] = Functions(from'[j].elf)[from'[j].fn].code_start
                       /\ chain[j] # 0 => Holds(from'[j], chain[j])
                 /\ j # cur' => dasmstr'[j] \in {from'[j], NULL}
      <4>1. CASE j = i
        BY <3>1, <3>2, <3>5, <4>1
      <4>2. CASE j # i
        BY <1>0, <3>3, <3>5, <4>2 DEF ItemsInv
      <4>3. QED
        BY <4>1, <4>2
    <3>9. QED
      BY <1>0, <1>a, <3>3, <3>4, <3>6, <3>7, <3>8 DEF ItemsInv
  <2>3. QED
    BY <1>2, <2>1, <2>2 DEF FuncStart, FirstOf
<1>3. CASE funcs_dump
  BY <1>3, <1>b DEF funcs_dump
<1>4. CASE FuncEnd
  BY <1>4, <1>c DEF FuncEnd
<1>5. CASE FileEnd
  BY <1>5, <1>c DEF FileEnd
<1>6. CASE DasmEnd
  BY <1>6, <1>b DEF DasmEnd, output
<1>7. CASE item_setdasms
  BY <1>7, <1>b DEF item_setdasms, output
<1>8. QED
  BY <1>1, <1>2, <1>3, <1>4, <1>5, <1>6, <1>7 DEF Next

(* A function stays with the item it was given to, but for one at 0.        *)
LEMMA Kept ==
    ASSUME IInv, FuncStart, NEW j \in Items, from[j] # NULL, funcaddr[j] # 0
    PROVE  from'[j] = from[j]
<1>1. DOMAIN from = Items
  BY DEF IInv, ItemsInv
<1>2. ASSUME NEW i \in Items, Wants(i), from' = [from EXCEPT ![i] = Where]
      PROVE  from'[j] = from[j]
  BY <1>1, <1>2 DEF Wants
<1>3. QED
  BY <1>2 DEF FuncStart, FirstOf

(* The function dumpwrap_load asks about goes to the first item that wants  *)
(* it.                                                                      *)
LEMMA Served ==
    ASSUME IInv, FuncStart, NEW i \in Items, from'[i] = NULL,
           Holds(Where, chain[i]), Function.code_start # 0
    PROVE  \E j \in 1..i-1 : from'[j] = Where
<1>1. /\ PlaceInv /\ ItemsInv /\ pc = "function" /\ fn <= Len(File.functions)
      /\ DOMAIN from = Items
  BY DEF IInv, ItemsInv, FuncStart
<1>2. elf \in DOMAIN libs /\ fn \in DOMAIN Functions(elf) /\ Items = 1..Len(chain) /\ Len(chain) \in Nat
  BY <1>1, Inputs DEF PlaceInv, File, Functions
<1>3. /\ File.vma_offset \in Nat /\ Function.code_start \in Nat /\ Function.code_end \in Nat
      /\ chain[i] \in Nat
  BY <1>1, <1>2, Inputs DEF Function, File, Functions
<1>4. Where # NULL
  BY <1>2, DasmAssumption, Inputs, <1>1 DEF Where, PlaceInv
<1>5. from[i] = NULL
  BY <1>1, <1>4 DEF FuncStart
<1>6. Wants(i)
  <2>1. chain[i] - File.vma_offset \in Function.code_start..Function.code_end-1
    BY DEF Holds, Where, File, Function
  <2>2. \A v, s, t, p \in Nat : p - v \in s..t-1 => v + s <= p /\ p < v + t
    OBVIOUS
  <2>3. InRange(chain[i], File, Function)
    BY <1>3, <2>1, <2>2 DEF InRange
  <2>4. QED
    BY <1>1, <1>5, <2>3 DEF Wants, ItemsInv
<1>7. PICK k \in Items : FirstOf(k, {j \in Items : Wants(j)}) /\ from' = [from EXCEPT ![k] = Where]
  BY <1>6 DEF FuncStart
<1>8. k <= i /\ from'[k] = Where
  BY <1>1, <1>6, <1>7 DEF FirstOf
<1>9. k # i
  BY <1>4, <1>8
<1>10. QED
  BY <1>2, <1>8, <1>9

LEMMA MissedStep == IInv /\ Next => MissedInv'
<1> SUFFICES ASSUME IInv, Next PROVE MissedInv'
  OBVIOUS
<1>0. PlaceInv /\ ItemsInv /\ MissedInv /\ UNCHANGED <<chain, libs>>
  BY DEF IInv, Next, DasmAElf, FuncStart, funcs_dump, FuncEnd, FileEnd, DasmEnd, item_setdasms, input
<1>1. Items' = Items /\ \A e : Functions(e)' = Functions(e)
  BY <1>0 DEF Items, Functions
<1>2. \A w, p : Holds(w, p)' = Holds(w, p)
  BY <1>0 DEF Holds
<1>3. ASSUME UNCHANGED from,
             \A e \in loaded' : \A f \in DOMAIN Functions(e) : Passed(e, f)' => Passed(e, f)
      PROVE  MissedInv'
  BY <1>0, <1>1, <1>2, <1>3 DEF MissedInv, Passed
<1>4. CASE DasmAElf
  <2>1. /\ pc = "load" /\ elf' \in {elf, elf + 1} /\ UNCHANGED from
        /\ \/ pc' = "function" /\ fn' = 1 /\ elf' = elf /\ loaded' = loaded \cup {elf}
           \/ pc' = "load" /\ loaded' = loaded
    BY <1>4 DEF DasmAElf, dasms
  <2>2. ASSUME NEW e \in loaded', NEW f \in DOMAIN Functions(e), Passed(e, f)'
        PROVE  Passed(e, f)
    <3>1. e \in loaded
      <4>1. CASE e = elf /\ elf' = elf /\ pc' = "function"
        <5>1. f \in Nat /\ f # 0
          BY <1>0, <2>1, <4>1, Inputs DEF PlaceInv
        <5>2. QED
          BY <2>1, <2>2, <4>1, <5>1 DEF Passed
      <4>2. QED
        BY <2>1, <2>2, <4>1
    <3>2. QED
      BY <2>1, <2>2, <3>1 DEF Passed
  <2>3. QED
    BY <1>3, <2>1, <2>2
<1>5. CASE FuncStart
  <2> SUFFICES ASSUME NEW i \in Items, NEW e \in loaded, NEW f \in DOMAIN Functions(e),
                      Passed(e, f)', from'[i] = NULL, Holds([elf |-> e, fn |-> f], chain[i]),
                      Functions(e)[f].code_start # 0
               PROVE  \E j \in 1..i-1 : from'[j] = [elf |-> e, fn |-> f]
    BY <1>0, <1>1, <1>2, <1>5 DEF MissedInv, FuncStart
  <2> DEFINE w == [elf |-> e, fn |-> f]
  <2>0. /\ Items = 1..Len(chain) /\ Len(chain) \in Nat
        /\ Len(Functions(e)) \in Nat /\ DOMAIN Functions(e) = 1..Len(Functions(e))
    BY <1>0, Inputs DEF PlaceInv
  <2>1. CASE Passed(e, f)
    <3>1. from[i] = NULL
      <4>1. \A j \in Items : from[j] # NULL => from'[j] # NULL
        BY <1>0, <1>5, Given DEF FuncStart, FirstOf, ItemsInv
      <4>2. QED
        BY <4>1
    <3>2. PICK j \in 1..i-1 : from[j] = w
      BY <1>0, <2>1, <3>1 DEF MissedInv
    <3>3. j \in Items
      BY <2>0
    <3>4. w # NULL /\ w.elf = e /\ w.fn = f
      <4>1. w \in [elf : Nat, fn : Nat]
        BY <1>0, <2>0, Inputs DEF PlaceInv
      <4>2. QED
        BY <4>1, DasmAssumption
    <3>5. funcaddr[j] # 0
      BY <1>0, <3>2, <3>3, <3>4 DEF ItemsInv
    <3>6. from'[j] = from[j]
      BY <1>5, <3>2, <3>3, <3>4, <3>5, Kept
    <3>7. QED
      BY <3>2, <3>6
  <2>2. CASE ~Passed(e, f)
    <3>1. e = elf /\ f = fn
      <4>1. e = elf /\ ~(f < fn) /\ pc = "function"
        BY <1>5, <2>2 DEF FuncStart, Passed
      <4>2. \/ pc' = "function" /\ fn' = fn + 1
            \/ pc' = "dump" /\ fn' = fn
        BY <1>5, <4>1 DEF FuncStart
      <4>3. elf' = elf /\ (f < fn' \/ (f = fn' /\ pc' = "dump"))
        BY <1>5, <4>1, <4>2 DEF FuncStart, Passed
      <4>4. f \in Nat /\ fn \in Nat
        BY <1>0, <2>0 DEF PlaceInv
      <4>5. QED
        BY <4>1, <4>2, <4>3, <4>4
    <3>2. w = Where /\ Function = Functions(e)[f]
      BY <3>1 DEF Where, Function, File, Functions
    <3>3. QED
      BY <1>5, <3>2, Served
  <2>3. QED
    BY <2>1, <2>2
<1>6. CASE funcs_dump
  BY <1>0, <1>1, <1>3, <1>6 DEF funcs_dump, Passed, dasms
<1>7. CASE FuncEnd
  BY <1>0, <1>1, <1>3, <1>7, Inputs DEF FuncEnd, Passed, PlaceInv
<1>8. CASE FileEnd
  BY <1>0, <1>1, <1>3, <1>8, Inputs DEF FileEnd, Passed, PlaceInv, File, Functions
<1>9. CASE DasmEnd
  BY <1>0, <1>1, <1>3, <1>9 DEF DasmEnd, Passed, dasms
<1>10. CASE item_setdasms
  BY <1>0, <1>1, <1>3, <1>10 DEF item_setdasms, Passed, dasms
<1>11. QED
  BY <1>4, <1>5, <1>6, <1>7, <1>8, <1>9, <1>10 DEF Next

(* item_setdasms chooses the items when no file is loaded any more.         *)
LEMMA EntriesStep == IInv /\ Next => EntriesInv'
<1> SUFFICES ASSUME IInv, Next PROVE EntriesInv'
  OBVIOUS
<1>0. PlaceInv /\ EntriesInv /\ UNCHANGED <<chain, libs>> /\ Len(chain) \in Nat \ {0}
  BY Inputs DEF IInv, Next, DasmAElf, FuncStart, funcs_dump, FuncEnd, FileEnd, DasmEnd, item_setdasms, input
<1>1. ASSUME UNCHANGED entries, pc \notin {"entries", "done"}, pc' # "done"
      PROVE  EntriesInv'
  BY <1>0, <1>1 DEF EntriesInv
<1>2. CASE item_setdasms
  <2>1. /\ pc = "entries" /\ UNCHANGED funcaddr
        /\ entries' = Append(entries, ItemOf(Len(entries) + 1))
        /\ pc' = IF Len(entries') = Len(chain) THEN "done" ELSE pc
    BY <1>2 DEF item_setdasms, dasms
  <2>2. \A n : ItemOf(n)' = ItemOf(n)
    BY <1>0, <2>1 DEF ItemOf, Shared
  <2>3. entries \in Seq(Nat) /\ Len(entries) < Len(chain) /\ ItemOf(Len(entries) + 1) \in Nat
    BY <1>0, <2>1 DEF EntriesInv, ItemOf
  <2>4. /\ entries' \in Seq(Nat) /\ Len(entries') = Len(entries) + 1
        /\ \A n \in DOMAIN entries' :
              entries'[n] = IF n \in DOMAIN entries THEN entries[n] ELSE ItemOf(n)
    BY <2>1, <2>3
  <2>5. \A n \in DOMAIN entries' : entries'[n] = ItemOf(n)
    BY <1>0, <2>4 DEF EntriesInv
  <2>6. QED
    BY <1>0, <2>1, <2>2, <2>3, <2>4, <2>5 DEF EntriesInv
<1>3. CASE DasmAElf
  BY <1>1, <1>3 DEF DasmAElf
<1>4. CASE FuncStart
  BY <1>1, <1>4 DEF FuncStart
<1>5. CASE funcs_dump
  BY <1>1, <1>5 DEF funcs_dump
<1>6. CASE FuncEnd
  BY <1>1, <1>6 DEF FuncEnd
<1>7. CASE FileEnd
  BY <1>1, <1>7 DEF FileEnd
<1>8. CASE DasmEnd
  BY <1>1, <1>8 DEF DasmEnd
<1>9. QED
  BY <1>2, <1>3, <1>4, <1>5, <1>6, <1>7, <1>8 DEF Next

LEMMA Invariance == Spec => []IInv
<1>1. IInv /\ UNCHANGED vars => IInv'
  <2> SUFFICES ASSUME IInv, UNCHANGED vars PROVE IInv'
    OBVIOUS
  <2> USE DEF IInv, vars, input, dasms, output
  <2>1. PlaceInv'
    BY DEF PlaceInv, Functions
  <2>2. CacheInv'
    BY DEF CacheInv, Items
  <2>3. ItemsInv'
    BY DEF ItemsInv, Items, IsPlace, Functions, Holds
  <2>4. MissedInv'
    BY DEF MissedInv, Items, Passed, Functions, Holds
  <2>5. EntriesInv'
    BY DEF EntriesInv, ItemOf, Shared
  <2>6. QED
    BY <2>1, <2>2, <2>3, <2>4, <2>5
<1>2. IInv /\ [Next]_vars => IInv'
  BY <1>1, PlaceStep, CacheStep, ItemsStep, MissedStep, EntriesStep DEF IInv
<1>3. QED
  BY <1>2, InitInv, PTL DEF Spec

-----------------------------------------------------------------------------
(* Text is collected for an item only, and it fits into the cache with its  *)
(* final '\0' (funcs_dump).                                                 *)
THEOREM TextFitsTheCache == Spec => []TypeOK
<1>1. IInv => TypeOK
  BY DEF IInv, PlaceInv, CacheInv, ItemsInv, EntriesInv, TypeOK
<1>2. QED
  BY <1>1, Invariance, PTL

(* What an item shows is a function its pc is in, and its own text: the one *)
(* cache and current item of funcs_dump and funcs_endfunc never mix two.    *)
THEOREM ItemsShowTheirFunction == Spec => []OwnFunction
<1>1. IInv => OwnFunction
  BY Inputs DEF IInv, CacheInv, ItemsInv, OwnFunction
<1>2. QED
  BY <1>1, Invariance, PTL

(* An item without a function lost it to an item before it: funcs_actcheck  *)
(* serves the chain in its order.                                           *)
THEOREM LostToAnEarlierItem == Spec => []NothingMissed
<1>1. IInv => NothingMissed
  BY DEF IInv, MissedInv, NothingMissed, Passed, Functions
<1>2. QED
  BY <1>1, Invariance, PTL

(* set_a_dasm never meets an item with another pc than the entry's.         *)
THEOREM AssertionHolds == Spec => []AssertPc
<1>1. IInv => AssertPc
  <2> SUFFICES ASSUME IInv, NEW n \in DOMAIN entries, entries[n] # 0
               PROVE  chain[entries[n]] = chain[n]
    BY DEF AssertPc
  <2>1. entries[n] = ItemOf(n)
    BY DEF IInv, EntriesInv
  <2>2. QED
    BY <2>1 DEF ItemOf, Shared
<1>2. QED
  BY <1>1, Invariance, PTL

(* The pc and the first frame at one address both show the function, though *)
(* funcs_actcheck gave it to one of their items.                            *)
THEOREM FirstFrameShows == Spec => []FirstFrameShown
<1>1. IInv => FirstFrameShown
  <2> SUFFICES ASSUME IInv, Len(entries) >= 2, libs # <<>>, chain[1] = chain[2], from[1] # NULL
               PROVE  from[entries[2]] # NULL
    BY DEF FirstFrameShown
  <2>1. 2 \in DOMAIN entries /\ 2 \in Items
    BY Inputs DEF IInv, EntriesInv
  <2>2. entries[2] = ItemOf(2)
    BY <2>1 DEF IInv, EntriesInv
  <2>3. CASE Shared
    BY <2>2, <2>3 DEF ItemOf
  <2>4. CASE ~Shared
    BY <2>1, <2>2, <2>4 DEF ItemOf, Shared, IInv, ItemsInv
  <2>5. QED
    BY <2>3, <2>4
<1>2. QED
  BY <1>1, Invariance, PTL
=============================================================================
