----------------------------- MODULE ExcListProofs ----------------------------
(***************************************************************************)
(* Theorems about ExcList, for every heap, allocator, array size and bound. *)
(***************************************************************************)
EXTENDS ExcList, TLAPS

-----------------------------------------------------------------------------
(* Where the call is, and which pointers it then holds. *)
Building == {"base", "analyse", "stack", "getdasm", "dasm", "pushapp"}
Parsing  == Building \cup {"parse", "app", "item", "other", "pushother"}
HasList  == Parsing \cup {"inititem", "initfile", "strdup", "abort"}

ControlInv ==
    /\ IF pc \in HasList THEN list # NULL ELSE list = NULL
    /\ pc # "idle" => exlist = NULL
    /\ str # NULL => pc \in Parsing \cup {"abort"}
    /\ pc \in Building => item # NULL
    /\ item # NULL => pc \in Building \cup {"pushother"}
    /\ dasminfo # NULL => pc = "dasm"
    /\ rec # {} => pc \in Building \cup {"item"}
    /\ fp_sum = "open" => pc \in Parsing \cup {"strdup", "abort"}

(* The array in use: full up to list_index (count once it is handed over)   *)
(* and empty from there on.                                                 *)
Used == IF pc = "idle" THEN count ELSE list_index
SlotsInv ==
    /\ list = NULL /\ exlist = NULL => slots = NoSlots
    /\ list # NULL => DOMAIN slots = 0..list_num-1 /\ list_num > 0
                      /\ list_index <= list_num
    /\ exlist # NULL => 0..count-1 \subseteq DOMAIN slots
    /\ \A i \in DOMAIN slots : slots[i] = NULL <=> i >= Used
    /\ list = NULL \/ pc = "inititem" => list_index = 0
    /\ pc = "initfile" => list_index = 1 /\ info[slots[0]][0] \in Path

IInv == TypeOK /\ OneOwner /\ ControlInv /\ SlotsInv

-----------------------------------------------------------------------------
(* Exc_Malloc returns an address of the heap that is not in use. *)
LEMMA PickFresh ==
    ASSUME HeapTypeOK, NEW a \in Pick(live)
    PROVE  a \in Addr /\ a \notin live /\ a # NULL
<1>1. live \in SUBSET Addr
  BY DEF HeapTypeOK
<1>2. QED
  BY <1>1, HeapAssumption

(* The call's own variables keep their types. *)
LEMMA CallTypeStep == CallTypeOK /\ [Next]_vars => CallTypeOK'
<1> SUFFICES ASSUME CallTypeOK, [Next]_vars PROVE CallTypeOK'
  OBVIOUS
<1> USE ListAssumption DEF CallTypeOK, Errors
<1>1. CASE Load
  BY <1>1 DEF Load, ctl, making, apprec
<1>2. CASE LoadReject
  BY <1>2 DEF LoadReject, ctl, making, apprec, parser, disk
<1>3. CASE Release
  BY <1>3 DEF Release, making, apprec, parser
<1>11. CASE InitList
  BY <1>11 DEF InitList, Return, End, making, apprec, disk
<1>12. CASE InitItem
  BY <1>12 DEF InitItem, Return, End, making, apprec, disk
<1>13. CASE InitFile
  BY <1>13 DEF InitFile, Return, End, making, apprec
<1>14. CASE DupStr
  BY <1>14 DEF DupStr, ctl, making, apprec, disk
<1>15. CASE ParseBlock
  BY <1>15 DEF ParseBlock, ctl, caller, making, apprec, disk
<1>16. CASE Deliver
  BY <1>16 DEF Deliver, Handed, Return, End, making, apprec, disk
<1>17. CASE Abort
  BY <1>17 DEF Abort, exclist_release, Return, End, making, apprec, disk
<1>4. CASE AppFound \/ AppNotFound \/ AppDone
  BY <1>4, SMTT(30) DEF AppFound, AppNotFound, AppDone, AppFail, ctl, caller, parser, making, apprec, disk
<1>5. CASE NewAppItem \/ SetBase \/ SetAnalyse \/ SetStack
  BY <1>5, SMTT(30) DEF NewAppItem, SetBase, SetAnalyse, SetStack, AppFail, ctl, caller, apprec, making
<1>6. CASE GetDasm \/ SetADasm
  BY <1>6, SMTT(30) DEF GetDasm, SetADasm, AppFail, ctl, caller, apprec, making
<1>7. CASE PushApp \/ PushOther
  <2>2. PICK F : exclist_push_item(F)
    BY <1>7 DEF PushApp, PushOther
  <2>4. \/ UNCHANGED <<list_num, list_index>>
        \/ PushRefused \/ PushFits \/ \E a \in Pick(live) : PushGrows(a)
    BY <2>2, Zenon DEF exclist_push_item, NextIndex
  <2>5. list_num' \in Nat /\ list_index' \in Nat
    BY <2>4 DEF PushRefused, PushFits, PushGrows, Grown
  <2>6. \E d \in {"none", "item"} :
          summary' = Append(summary, [index |-> sum_index, detail |-> d])
    BY <2>2 DEF exclist_push_item, NextIndex
  <2>7. summary' \in Seq([index : Nat, detail : {"none", "item"}])
    BY <2>6
  <2>8. QED
    BY <1>7, <2>5, <2>7, SMTT(30) DEF PushApp, PushOther, exclist_push_item, NextIndex, caller, parser, apprec
<1>8. CASE OtherBrief \/ OtherLong
  BY <1>8 DEF OtherBrief, OtherLong, ctl, caller, parser, apprec, making, disk
<1>9. CASE UNCHANGED vars
  BY <1>9 DEF vars, ctl, caller, parser, apprec, making, disk
<1>10. QED
  BY <1>1, <1>2, <1>3, <1>4, <1>5, <1>6, <1>7, <1>8, <1>9, <1>11, <1>12, <1>13,
     <1>14, <1>15, <1>16, <1>17 DEF Next, Step

(* Every pointer holds NULL or an address, every slot too. *)
LEMMA HeapTypeStep == HeapTypeOK /\ CallTypeOK /\ ControlInv /\ SlotsInv /\ [Next]_vars => HeapTypeOK'
<1> SUFFICES ASSUME HeapTypeOK, CallTypeOK, ControlInv, SlotsInv, [Next]_vars PROVE HeapTypeOK'
  OBVIOUS
<1> USE ListAssumption DEF HeapTypeOK
<1>1. CASE Load
  BY <1>1 DEF Load, ctl, making, apprec
<1>2. CASE LoadReject
  BY <1>2 DEF LoadReject, ctl, making, apprec, parser
<1>3. CASE Release
  BY <1>3 DEF Release, NoSlots, making, apprec, parser
<1>4. CASE InitList
  BY <1>4, PickFresh DEF InitList, Return, End, making, apprec
<1>5. CASE InitItem
  BY <1>5, PickFresh DEF InitItem, Return, End, NoSlots, making, apprec
<1>6. CASE InitFile
  BY <1>6 DEF InitFile, Return, End, NoSlots, making, apprec
<1>7. CASE DupStr
  BY <1>7, PickFresh DEF DupStr, ctl, making, apprec
<1>8. CASE ParseBlock
  BY <1>8 DEF ParseBlock, ctl, caller, making, apprec
<1>9. CASE Deliver
  BY <1>9 DEF Deliver, Handed, Return, End, making, apprec
<1>10. CASE Abort
  BY <1>10 DEF Abort, exclist_release, Return, End, NoSlots, making, apprec
<1>11. CASE AppFound
  BY <1>11, PickFresh DEF AppFound, ctl, caller, making
<1>12. CASE AppNotFound \/ AppDone
  BY <1>12 DEF AppNotFound, AppDone, AppFail, ctl, caller, parser, making, apprec
<1>13. CASE NewAppItem \/ SetBase \/ SetAnalyse \/ SetStack
  BY <1>13, PickFresh DEF NewAppItem, SetBase, SetAnalyse, SetStack, AppFail, ctl, caller, apprec, making
<1>14. CASE GetDasm \/ SetADasm
  BY <1>14, PickFresh DEF GetDasm, SetADasm, AppFail, ctl, caller, apprec, making
<1>15. CASE PushApp \/ PushOther
  <2>1. PICK F : exclist_push_item(F)
    BY <1>15 DEF PushApp, PushOther
  <2>2. live' \subseteq Addr /\ item' = NULL
    BY <2>1, PickFresh DEF exclist_push_item, NextIndex
  <2>3. \/ UNCHANGED <<list, list_num, list_index, slots, lost>>
        \/ item # NULL /\ (PushRefused \/ PushFits \/ \E a \in Pick(live) : PushGrows(a))
    BY <2>1, Zenon DEF exclist_push_item, NextIndex
  <2>4. ASSUME NEW a \in Pick(live), PushGrows(a)
        PROVE  /\ list' \in Addr \cup {NULL} /\ lost' \subseteq Addr
               /\ \A i \in DOMAIN slots' : i \in Nat /\ slots'[i] \in Addr \cup {NULL}
    <3>1. DOMAIN slots = 0..list_num-1
      BY <1>15 DEF PushApp, PushOther, ControlInv, SlotsInv, HasList, Parsing, Building
    <3>2. /\ list_num \in Nat /\ list_index \in Nat /\ ListGrow \in Nat
          /\ item \in Addr \cup {NULL}
      BY ListAssumption DEF CallTypeOK, HeapTypeOK
    <3>3. \A i \in 0..list_num-1 : slots[i] \in Addr \cup {NULL}
      BY <3>1 DEF HeapTypeOK
    <3>4. DOMAIN slots' = 0..(list_num + ListGrow - 1)
      BY <2>4 DEF PushGrows, Grown
    <3>5. ASSUME NEW i \in DOMAIN slots'
          PROVE  i \in Nat /\ slots'[i] \in Addr \cup {NULL}
      <4>1. i \in 0..(list_num + ListGrow - 1)
        BY <3>4, <3>5
      <4>2. slots'[i] = IF i < list_num THEN slots[i] ELSE IF i = list_index THEN item ELSE NULL
        BY <2>4, <4>1 DEF PushGrows, Grown
      <4>3. i \in Nat /\ (i < list_num => i \in 0..list_num-1)
        BY <3>2, <4>1
      <4>4. QED
        BY <3>2, <3>3, <4>2, <4>3
    <3>6. list' = a /\ lost' = lost /\ a \in Addr
      BY <2>4, PickFresh DEF PushGrows
    <3>7. QED
      BY <3>5, <3>6 DEF HeapTypeOK
  <2>5. /\ list' \in Addr \cup {NULL} /\ lost' \subseteq Addr
        /\ \A i \in DOMAIN slots' : i \in Nat /\ slots'[i] \in Addr \cup {NULL}
    BY <2>3, <2>4 DEF PushRefused, PushFits
  <2>6. QED
    BY <1>15, <2>2, <2>5 DEF PushApp, PushOther, caller, parser, apprec
<1>16. CASE OtherBrief \/ OtherLong
  BY <1>16, PickFresh DEF OtherBrief, OtherLong, ctl, caller, parser, apprec, making
<1>17. CASE UNCHANGED vars
  BY <1>17 DEF vars, ctl, caller, parser, apprec, making
<1>18. QED
  BY <1>1, <1>2, <1>3, <1>4, <1>5, <1>6, <1>7, <1>8, <1>9, <1>10, <1>11, <1>12,
     <1>13, <1>14, <1>15, <1>16, <1>17 DEF Next, Step

-----------------------------------------------------------------------------
(* Descriptions, entries and files keep their types. *)
FilesType(F) == \A f \in F : f.path \in Path /\ f.writer \in Addr \cup {NULL}
InfoType(I)  == DOMAIN I = Addr /\
                \A a \in Addr : \A j \in DOMAIN I[a] : I[a][j] \in Path \cup {NoPath}

LEMMA FmtPath ==
    ASSUME CallTypeOK, NEW n \in Kind, NEW j \in Nat
    PROVE  exclist_fmt_path(n, j) \in Path
BY DEF CallTypeOK, exclist_fmt_path, Path

LEMMA OrphanType ==
    ASSUME NEW F, NEW A, FilesType(F)
    PROVE  FilesType(Orphan(F, A))
BY DEF FilesType, Orphan

LEMMA WriteType ==
    ASSUME FilesType(files), NEW p \in Path, NEW a \in Addr
    PROVE  FilesType(Write(p, a))
BY DEF FilesType, Write

LEMMA ForgetType ==
    ASSUME ItemsTypeOK, NEW A, Forget(A)
    PROVE  desc' \in [Addr -> Nat] /\ InfoType(info')
BY DEF ItemsTypeOK, Forget, InfoType, NoSlots

(* The entry of one item is set, or all its entries are. *)
LEMMA SetInfoType ==
    ASSUME ItemsTypeOK, NEW a \in Addr, NEW j, NEW p \in Path
    PROVE  InfoType([info EXCEPT ![a][j] = p])
BY DEF ItemsTypeOK, InfoType

LEMMA NewInfoType ==
    ASSUME ItemsTypeOK, NEW a \in Addr, NEW E,
           \A j \in DOMAIN E : E[j] \in Path \cup {NoPath},
           info' = [info EXCEPT ![a] = E]
    PROVE  InfoType(info')
BY DEF ItemsTypeOK, InfoType

LEMMA AppFailType ==
    ASSUME ItemsTypeOK, NEW A, AppFail(A)
    PROVE  ItemsTypeOK'
<1>1. FilesType(files') /\ desc' \in [Addr -> Nat] /\ InfoType(info')
  BY OrphanType, ForgetType DEF AppFail, ItemsTypeOK, FilesType
<1>2. QED
  BY <1>1 DEF ItemsTypeOK, FilesType, InfoType

LEMMA SetInfoStep ==
    ASSUME ItemsTypeOK, item \in Addr, NEW j, NEW p \in Path, SetInfo(j, p)
    PROVE  ItemsTypeOK'
<1>1. FilesType(files') /\ InfoType(info')
  BY WriteType, SetInfoType DEF SetInfo, ItemsTypeOK, FilesType
<1>2. QED
  BY <1>1 DEF ItemsTypeOK, FilesType, InfoType, SetInfo

LEMMA ItemsTypeStep ==
    ItemsTypeOK /\ HeapTypeOK /\ CallTypeOK /\ ControlInv /\ SlotsInv /\ [Next]_vars => ItemsTypeOK'
<1> SUFFICES ASSUME ItemsTypeOK, HeapTypeOK, CallTypeOK, ControlInv, SlotsInv, [Next]_vars
             PROVE  ItemsTypeOK'
  OBVIOUS
<1>0. item # NULL => item \in Addr
  BY DEF HeapTypeOK
<1>1. CASE Load
  BY <1>1 DEF Load, Remaining, items, ItemsTypeOK
<1>2. CASE LoadReject
  BY <1>2 DEF LoadReject, items, disk, ItemsTypeOK
<1>3. CASE Release
  <2>1. PICK A : Forget(A)
    BY <1>3 DEF Release
  <2>2. PICK F, B : F \subseteq files /\ files' = Orphan(F, B)
    BY <1>3 DEF Release, Remaining
  <2>3. FilesType(F)
    BY <2>2 DEF FilesType, ItemsTypeOK
  <2>4. FilesType(files')
    BY <2>2, <2>3, OrphanType
  <2>5. desc' \in [Addr -> Nat] /\ InfoType(info')
    BY <2>1, ForgetType
  <2>6. QED
    BY <2>4, <2>5 DEF ItemsTypeOK, FilesType, InfoType
<1>4. CASE InitList
  BY <1>4 DEF InitList, items, disk, ItemsTypeOK
<1>5. CASE InitItem
  <2>1. InfoType(info') /\ desc' = desc /\ files' = files
    <3>1. exclist_fmt_path("info", 0) \in Path
      BY FmtPath DEF Kind
    <3>2. CASE UNCHANGED items
      BY <1>5, <3>2 DEF InitItem, items, disk, ItemsTypeOK, InfoType
    <3>3. CASE \E a \in Pick(live) :
                 /\ info' = [info EXCEPT ![a] = [j \in {0} |-> exclist_fmt_path("info", 0)]]
                 /\ UNCHANGED desc
      <4>1. PICK a \in Pick(live) :
               info' = [info EXCEPT ![a] = [j \in {0} |-> exclist_fmt_path("info", 0)]]
        BY <3>3
      <4>2. a \in Addr
        BY PickFresh
      <4> DEFINE E == [j \in {0} |-> exclist_fmt_path("info", 0)]
      <4>3. (\A j \in DOMAIN E : E[j] \in Path \cup {NoPath}) /\ info' = [info EXCEPT ![a] = E]
        BY <3>1, <4>1
      <4> HIDE DEF E
      <4>4. InfoType(info')
        BY <4>2, <4>3, NewInfoType
      <4>5. QED
        BY <1>5, <3>3, <4>4 DEF InitItem, disk
    <3>4. QED
      BY <1>5, <3>2, <3>3 DEF InitItem
  <2>2. QED
    BY <2>1 DEF ItemsTypeOK, InfoType
<1>6. CASE InitFile
  <2>1. slots[0] \in Addr /\ 0 \in DOMAIN slots
    BY <1>6 DEF InitFile, ControlInv, SlotsInv, HeapTypeOK, CallTypeOK, HasList, Used
  <2>2. CASE files' = Write(info[slots[0]][0], slots[0]) /\ UNCHANGED items
    <3>1. info[slots[0]][0] \in Path
      BY <1>6 DEF InitFile, SlotsInv
    <3>2. FilesType(files')
      BY <2>1, <2>2, <3>1, WriteType DEF ItemsTypeOK, FilesType
    <3>3. QED
      BY <2>2, <3>2 DEF ItemsTypeOK, FilesType, items
  <2>3. CASE Forget({slots[0]}) /\ files' = files
    <3>1. desc' \in [Addr -> Nat] /\ InfoType(info')
      BY <2>3, ForgetType
    <3>2. QED
      BY <3>1, <2>3 DEF ItemsTypeOK, InfoType
  <2>4. QED
    BY <1>6, <2>2, <2>3 DEF InitFile
<1>7. CASE DupStr \/ ParseBlock \/ AppDone \/ AppFound \/ OtherBrief \/ Deliver \/ UNCHANGED vars
  BY <1>7 DEF DupStr, ParseBlock, AppDone, AppFound, OtherBrief, Deliver, Handed, vars, items, disk, ItemsTypeOK
<1>8. CASE Abort
  <2>1. FilesType(files') /\ desc' \in [Addr -> Nat] /\ InfoType(info')
    BY <1>8, ForgetType, OrphanType DEF Abort, exclist_release, ItemsTypeOK, FilesType
  <2>2. QED
    BY <2>1 DEF ItemsTypeOK, FilesType, InfoType
<1>9. CASE AppNotFound
  BY <1>9, AppFailType DEF AppNotFound
<1>10. CASE NewAppItem
  <2>1. CASE \E a \in Pick(live) : info' = [info EXCEPT ![a] = NewInfo(4 + frames)] /\ UNCHANGED <<desc, files>>
    <3>1. InfoType(info')
      <4>1. PICK a \in Pick(live) : info' = [info EXCEPT ![a] = NewInfo(4 + frames)]
        BY <2>1
      <4>2. \A j \in DOMAIN NewInfo(4 + frames) : NewInfo(4 + frames)[j] \in Path \cup {NoPath}
        BY DEF NewInfo
      <4>3. QED
        BY <4>1, <4>2, PickFresh, NewInfoType
    <3>2. QED
      BY <2>1, <3>1 DEF ItemsTypeOK, InfoType
  <2>2. CASE AppFail({})
    BY <2>2, AppFailType
  <2>3. QED
    BY <1>10, <2>1, <2>2 DEF NewAppItem
<1>11. CASE SetBase
  BY <1>0, <1>11, AppFailType, SetInfoStep, FmtPath DEF SetBase, ControlInv, Building, Kind
<1>12. CASE SetAnalyse
  <2>1. exclist_fmt_path("parse", 0) \in Path /\ item \in Addr
    BY <1>0, <1>12, FmtPath DEF SetAnalyse, ControlInv, Building, Kind
  <2>2. CASE files' = Orphan(Write(exclist_fmt_path("parse", 0), item), {item}) /\ Forget({item})
    <3>1. FilesType(files') /\ desc' \in [Addr -> Nat] /\ InfoType(info')
      BY <2>1, <2>2, ForgetType, OrphanType, WriteType DEF ItemsTypeOK, FilesType
    <3>2. QED
      BY <3>1 DEF ItemsTypeOK, FilesType, InfoType
  <2>3. QED
    BY <1>12, <2>1, <2>2, AppFailType, SetInfoStep DEF SetAnalyse
<1>13. CASE SetStack
  BY <1>0, <1>13, AppFailType, SetInfoStep, FmtPath DEF SetStack, ControlInv, Building, Kind
<1>14. CASE GetDasm
  BY <1>14, AppFailType DEF GetDasm, items, ItemsTypeOK
<1>15. CASE SetADasm
  <2>1. \A n \in {"PC", "bt"} : \A j \in Nat : exclist_fmt_path(n, j) \in Path
    BY FmtPath DEF Kind
  <2>2. k # 0 => k - 1 \in Nat
    BY DEF CallTypeOK
  <2>3. DasmPath \in Path
    BY <2>1, <2>2 DEF DasmPath
  <2>4. item \in Addr
    BY <1>0, <1>15 DEF SetADasm, ControlInv, Building
  <2>5. QED
    BY <1>15, <2>3, <2>4, AppFailType, SetInfoStep DEF SetADasm
<1>16. CASE PushApp \/ PushOther
  <2>1. PICK F : exclist_push_item(F)
    BY <1>16 DEF PushApp, PushOther
  <2>2. desc' \in [Addr -> Nat] /\ info' = info /\ files' = files
    BY <2>1 DEF exclist_push_item, NextIndex, ItemsTypeOK, CallTypeOK
  <2>3. QED
    BY <2>2 DEF ItemsTypeOK
<1>17. CASE OtherLong
  <2>1. CASE UNCHANGED <<items, files>>
    BY <2>1 DEF items, ItemsTypeOK
  <2>2. CASE \E a \in Pick(live) :
               /\ info' = [info EXCEPT ![a] = [j \in {0} |-> exclist_fmt_path("info", 0)]]
               /\ files' = Write(exclist_fmt_path("info", 0), a) /\ UNCHANGED desc
    <3>1. exclist_fmt_path("info", 0) \in Path
      BY FmtPath DEF Kind
    <3>2. InfoType(info') /\ FilesType(files')
      <4>1. PICK a \in Pick(live) :
               /\ info' = [info EXCEPT ![a] = [j \in {0} |-> exclist_fmt_path("info", 0)]]
               /\ files' = Write(exclist_fmt_path("info", 0), a)
        BY <2>2
      <4>2. a \in Addr
        BY PickFresh
      <4> DEFINE E == [j \in {0} |-> exclist_fmt_path("info", 0)]
      <4>3. (\A j \in DOMAIN E : E[j] \in Path \cup {NoPath}) /\ info' = [info EXCEPT ![a] = E]
        BY <3>1, <4>1
      <4> HIDE DEF E
      <4>4. InfoType(info')
        BY <4>2, <4>3, NewInfoType
      <4>5. QED
        BY <3>1, <4>1, <4>2, <4>4, WriteType DEF ItemsTypeOK, FilesType
    <3>3. QED
      BY <2>2, <3>2 DEF ItemsTypeOK, InfoType, FilesType
  <2>3. QED
    BY <1>17, <2>1, <2>2 DEF OtherLong
<1>18. QED
  BY <1>1, <1>2, <1>3, <1>4, <1>5, <1>6, <1>7, <1>8, <1>9, <1>10, <1>11, <1>12,
     <1>13, <1>14, <1>15, <1>16, <1>17 DEF Next, Step

-----------------------------------------------------------------------------
(* Which pointers are set at each place of the code. *)
LEMMA ControlStep == HeapTypeOK /\ ControlInv /\ [Next]_vars => ControlInv'
<1> SUFFICES ASSUME HeapTypeOK, ControlInv, [Next]_vars PROVE ControlInv'
  OBVIOUS
<1> USE DEF ControlInv, HasList, Parsing, Building
<1>1. CASE Load \/ LoadReject \/ Release
  BY <1>1 DEF Load, LoadReject, Release, ctl, parser, making, apprec
<1>2. CASE InitList
  BY <1>2, PickFresh DEF InitList, Return, End, making, apprec
<1>3. CASE InitItem
  BY <1>3 DEF InitItem, Return, End, making, apprec
<1>4. CASE InitFile
  BY <1>4 DEF InitFile, Return, End, making, apprec
<1>5. CASE DupStr
  BY <1>5 DEF DupStr, ctl, making, apprec
<1>6. CASE ParseBlock
  BY <1>6 DEF ParseBlock, ctl, caller, making, apprec
<1>7. CASE Deliver \/ Abort
  BY <1>7 DEF Deliver, Handed, Abort, exclist_release, Return, End, making, apprec
<1>8. CASE AppFound \/ AppNotFound \/ AppDone
  BY <1>8 DEF AppFound, AppNotFound, AppDone, AppFail, ctl, caller, parser, making, apprec
<1>9. CASE NewAppItem
  BY <1>9, PickFresh DEF NewAppItem, AppFail, ctl, caller, apprec, making
<1>10. CASE SetBase \/ SetAnalyse \/ SetStack
  BY <1>10 DEF SetBase, SetAnalyse, SetStack, AppFail, ctl, caller, apprec, making
<1>11. CASE GetDasm \/ SetADasm
  BY <1>11 DEF GetDasm, SetADasm, AppFail, ctl, caller, apprec, making
<1>12. CASE PushApp \/ PushOther
  <2>1. PICK F : exclist_push_item(F)
    BY <1>12 DEF PushApp, PushOther
  <2>2. item' = NULL /\ fp_sum' = fp_sum
    BY <2>1 DEF exclist_push_item, NextIndex
  <2>3. list' # NULL
    <3>1. list' = list \/ \E a \in Pick(live) : PushGrows(a)
      BY <2>1, Zenon DEF exclist_push_item, NextIndex, PushRefused, PushFits
    <3>2. QED
      BY <1>12, <3>1, PickFresh DEF PushGrows, Grown, PushApp, PushOther
  <2>4. QED
    BY <1>12, <2>2, <2>3 DEF PushApp, PushOther, caller, parser, apprec
<1>13. CASE OtherBrief \/ OtherLong
  BY <1>13 DEF OtherBrief, OtherLong, ctl, caller, parser, apprec, making
<1>14. CASE UNCHANGED vars
  BY <1>14 DEF vars, ctl, caller, parser, apprec, making
<1>15. QED
  BY <1>1, <1>2, <1>3, <1>4, <1>5, <1>6, <1>7, <1>8, <1>9, <1>10, <1>11, <1>12,
     <1>13, <1>14 DEF Next, Step

(* exclist_push, called with an array in use: how it leaves the array. *)
LEMMA PushArray ==
    ASSUME CallTypeOK, HeapTypeOK, SlotsInv, list # NULL, pc # "idle", item # NULL,
           PushRefused \/ PushFits \/ \E a \in Pick(live) : PushGrows(a)
    PROVE  /\ list' # NULL
           /\ DOMAIN slots' = 0..list_num'-1 /\ list_num' > 0 /\ list_index' <= list_num'
           /\ \A i \in DOMAIN slots' : slots'[i] = NULL <=> i >= list_index'
           /\ \A i \in 0..list_index-1 : slots'[i] = slots[i]
           /\ list_index' \in {list_index, list_index + 1}
<1> USE ListAssumption
<1>0. /\ DOMAIN slots = 0..list_num-1 /\ list_num > 0 /\ list_index <= list_num
      /\ \A i \in DOMAIN slots : slots[i] = NULL <=> i >= list_index
      /\ list_num \in Nat /\ list_index \in Nat
  BY DEF SlotsInv, Used, CallTypeOK
<1>1. CASE PushRefused
  BY <1>0, <1>1 DEF PushRefused
<1>2. CASE PushFits
  BY <1>0, <1>2 DEF PushFits, HeapTypeOK
<1>3. CASE \E a \in Pick(live) : PushGrows(a)
  BY <1>0, <1>3, PickFresh DEF PushGrows, Grown
<1>4. QED
  BY <1>1, <1>2, <1>3

(* The array is full up to list_index and empty beyond. *)
LEMMA SlotsStep ==
    CallTypeOK /\ HeapTypeOK /\ ItemsTypeOK /\ ControlInv /\ SlotsInv /\ [Next]_vars => SlotsInv'
<1> SUFFICES ASSUME CallTypeOK, HeapTypeOK, ItemsTypeOK, ControlInv, SlotsInv, [Next]_vars
             PROVE  SlotsInv'
  OBVIOUS
<1> USE ListAssumption
<1>1. CASE Load \/ LoadReject \/ Release
  BY <1>1 DEF SlotsInv, Used, Load, LoadReject, Release, ctl, NoSlots, ControlInv, HasList, Parsing, Building
<1>2. CASE InitList
  <2>1. exlist' = exlist /\ exlist = NULL
    BY <1>2 DEF InitList, ControlInv
  <2>2. CASE \E a \in Pick(live) :
               /\ list' = a /\ list_num' = ListInit
               /\ slots' = [i \in 0..ListInit-1 |-> NULL]
               /\ pc' = "inititem" /\ UNCHANGED list_index
    <3>1. list_index = 0
      BY <1>2 DEF InitList, SlotsInv, ControlInv, HasList, Parsing, Building
    <3>2. list' # NULL /\ pc' = "inititem" /\ list_index' = 0
      BY <2>2, <3>1, PickFresh
    <3>3. DOMAIN slots' = 0..list_num'-1 /\ list_num' \in Nat \ {0}
          /\ \A i \in DOMAIN slots' : slots'[i] = NULL /\ i >= 0
      BY <2>2
    <3>4. QED
      BY <2>1, <3>2, <3>3 DEF SlotsInv, Used
  <2>3. CASE Return(E_EXC_NOMEM) /\ UNCHANGED slots
    BY <1>2, <2>1, <2>3 DEF Return, End, SlotsInv, Used, InitList, ControlInv, HasList, Parsing, Building, NoSlots
  <2>4. QED
    BY <1>2, <2>2, <2>3 DEF InitList
<1>3. CASE InitItem
  <2>1. exlist' = exlist /\ exlist = NULL /\ list # NULL
    BY <1>3 DEF InitItem, ControlInv, HasList
  <2>2. CASE \E a \in Pick(live) :
               /\ slots' = [slots EXCEPT ![0] = a]
               /\ list_index' = 1
               /\ info' = [info EXCEPT ![a] = [j \in {0} |-> exclist_fmt_path("info", 0)]]
               /\ pc' = "initfile" /\ UNCHANGED <<list, list_num>>
    <3>1. PICK a \in Pick(live) :
               /\ slots' = [slots EXCEPT ![0] = a]
               /\ list_index' = 1
               /\ info' = [info EXCEPT ![a] = [j \in {0} |-> exclist_fmt_path("info", 0)]]
               /\ pc' = "initfile" /\ UNCHANGED <<list, list_num>>
      BY <2>2
    <3>2. a \in Addr /\ a # NULL
      BY PickFresh
    <3>3. list_index = 0 /\ DOMAIN slots = 0..list_num-1 /\ list_num > 0 /\ list_num \in Nat
      BY <1>3, <2>1 DEF InitItem, SlotsInv, CallTypeOK
    <3>4. exclist_fmt_path("info", 0) \in Path
      BY FmtPath DEF Kind
    <3>5. info'[slots'[0]][0] \in Path
      BY <3>1, <3>2, <3>3, <3>4 DEF ItemsTypeOK
    <3>6. \A i \in DOMAIN slots' : slots'[i] = NULL <=> i >= 1
      BY <1>3, <3>1, <3>2, <3>3 DEF SlotsInv, Used, InitItem
    <3>7. QED
      BY <2>1, <3>1, <3>3, <3>5, <3>6 DEF SlotsInv, Used
  <2>3. CASE Return(E_EXC_NOMEM) /\ slots' = NoSlots
    BY <2>1, <2>3 DEF Return, End, SlotsInv, Used, NoSlots
  <2>4. QED
    BY <1>3, <2>2, <2>3 DEF InitItem
<1>4. CASE InitFile
  BY <1>4 DEF InitFile, Return, End, SlotsInv, Used, NoSlots, ControlInv
<1>5. CASE DupStr \/ ParseBlock \/ AppFound \/ AppDone \/ AppNotFound \/ OtherBrief \/ OtherLong
  BY <1>5 DEF DupStr, ParseBlock, AppFound, AppDone, AppNotFound, AppFail, OtherBrief, OtherLong,
              ctl, caller, SlotsInv, Used
<1>6. CASE NewAppItem \/ SetBase \/ SetAnalyse \/ SetStack \/ GetDasm \/ SetADasm
  BY <1>6 DEF NewAppItem, SetBase, SetAnalyse, SetStack, GetDasm, SetADasm, AppFail,
              ctl, caller, SlotsInv, Used
<1>7. CASE Deliver
  BY <1>7 DEF Deliver, Handed, Return, End, SlotsInv, Used, ControlInv, HasList, Parsing, CallTypeOK
<1>8. CASE Abort
  BY <1>8 DEF Abort, exclist_release, Return, End, SlotsInv, Used, NoSlots, ControlInv
<1>9. CASE PushApp \/ PushOther
  <2>1. PICK F : exclist_push_item(F)
    BY <1>9 DEF PushApp, PushOther
  <2>2. list # NULL /\ exlist = NULL /\ exlist' = exlist /\ pc # "idle" /\ pc' \in {"app", "parse"}
    BY <1>9 DEF PushApp, PushOther, caller, ControlInv, HasList, Parsing, Building
  <2>3. CASE UNCHANGED <<list, list_num, list_index, slots>>
    BY <2>2, <2>3 DEF SlotsInv, Used
  <2>4. CASE item # NULL /\ (PushRefused \/ PushFits \/ \E a \in Pick(live) : PushGrows(a))
    BY <2>2, <2>4, PushArray DEF SlotsInv, Used
  <2>5. QED
    BY <2>1, <2>3, <2>4, Zenon DEF exclist_push_item, NextIndex
<1>10. CASE UNCHANGED vars
  BY <1>10 DEF vars, ctl, caller, items, SlotsInv, Used
<1>11. QED
  BY <1>1, <1>2, <1>3, <1>4, <1>5, <1>6, <1>7, <1>8, <1>9, <1>10 DEF Next, Step

-----------------------------------------------------------------------------
(* The items of an array. *)
Unique(s) == \A i, j \in DOMAIN s : s[i] = s[j] /\ i # j => s[i] = NULL

LEMMA PutEntry ==
    ASSUME NEW s, NEW t, NEW n \in DOMAIN t, NEW a, a # NULL,
           Unique(s), a \notin Entries(s), t[n] = a,
           \A i \in DOMAIN t : i # n => t[i] = NULL \/ (i \in DOMAIN s /\ t[i] = s[i]),
           \A i \in DOMAIN s : s[i] # NULL => i # n /\ i \in DOMAIN t /\ t[i] = s[i]
    PROVE  Unique(t) /\ Entries(t) = Entries(s) \cup {a}
<1>1. ASSUME NEW i \in DOMAIN t, t[i] = a PROVE i = n
  BY <1>1 DEF Entries
<1>2. Unique(t)
  BY <1>1 DEF Unique
<1>3. Entries(t) \subseteq Entries(s) \cup {a}
  BY DEF Entries
<1>4. Entries(s) \subseteq Entries(t) /\ a \in Entries(t)
  BY DEF Entries
<1>5. QED
  BY <1>2, <1>3, <1>4

LEMMA NoEntries == Unique(NoSlots) /\ Entries(NoSlots) = {}
BY DEF Unique, Entries, NoSlots

(* exclist_push adds the item to the array and moves nothing. *)
LEMMA PushEntry ==
    ASSUME CallTypeOK, HeapTypeOK, SlotsInv, list # NULL, pc # "idle", item # NULL,
           Unique(slots), item \notin Listed,
           PushFits \/ \E a \in Pick(live) : PushGrows(a)
    PROVE  Unique(slots') /\ Listed' = Listed \cup {item}
<1> USE ListAssumption
<1>0. /\ DOMAIN slots = 0..list_num-1 /\ list_index <= list_num
      /\ \A i \in DOMAIN slots : slots[i] = NULL <=> i >= list_index
      /\ list_num \in Nat /\ list_index \in Nat
  BY DEF SlotsInv, Used, CallTypeOK
<1>1. /\ list_index \in DOMAIN slots' /\ slots'[list_index] = item
      /\ \A i \in DOMAIN slots' : i # list_index =>
            slots'[i] = NULL \/ (i \in DOMAIN slots /\ slots'[i] = slots[i])
      /\ \A i \in DOMAIN slots : slots[i] # NULL =>
            i # list_index /\ i \in DOMAIN slots' /\ slots'[i] = slots[i]
  <2>1. CASE PushFits
    BY <1>0, <2>1 DEF PushFits
  <2>2. CASE \E a \in Pick(live) : PushGrows(a)
    BY <1>0, <2>2 DEF PushGrows, Grown
  <2>3. QED
    BY <2>1, <2>2
<1>2. QED
  BY <1>1, PutEntry DEF Listed

(* Every block in use keeps exactly one owner. *)
LEMMA OwnerStep ==
    CallTypeOK /\ HeapTypeOK /\ ControlInv /\ SlotsInv /\ OneOwner /\ [Next]_vars => OneOwner'
<1> SUFFICES ASSUME CallTypeOK, HeapTypeOK, ControlInv, SlotsInv, OneOwner, [Next]_vars
             PROVE  OneOwner'
  OBVIOUS
<1>0. Unique(slots) /\ NULL \notin live
  BY HeapAssumption DEF OneOwner, Unique, HeapTypeOK
<1> USE DEF OneOwner, Pointers
<1>1. CASE Load \/ LoadReject
  BY <1>1 DEF Load, LoadReject, ctl, parser, making, apprec, Listed, Entries
<1>2. CASE Release
  <2>1. Listed' = {} /\ Unique(slots')
    BY <1>2, NoEntries DEF Release, Listed
  <2>2. {slots[i] : i \in 0..count-1} = Listed
    BY <1>2 DEF Release, SlotsInv, Used, ControlInv, HasList, Parsing, Building, Listed, Entries, CallTypeOK, HeapTypeOK
  <2>3. live' = live \ ({exlist} \cup Listed)
    BY <1>2, <2>2 DEF Release
  <2>4. QED
    BY <1>2, <2>1, <2>3 DEF Release, parser, making, apprec, ControlInv, Unique
<1>3. CASE InitList
  <2>1. /\ list = NULL /\ exlist = NULL /\ str = NULL /\ item = NULL /\ dasminfo = NULL /\ rec = {}
        /\ Listed = {}
    BY <1>3, NoEntries DEF InitList, ControlInv, SlotsInv, HasList, Parsing, Building, Listed
  <2>2. UNCHANGED <<exlist, item, dasminfo, rec, lost>>
    BY <1>3 DEF InitList, making, apprec
  <2>3. CASE \E a \in Pick(live) : /\ live' = live \cup {a} /\ list' = a
                                  /\ slots' = [i \in 0..ListInit-1 |-> NULL]
                                  /\ pc' = "inititem" /\ UNCHANGED str
    <3>1. Listed' = {} /\ Unique(slots')
      BY <2>3 DEF Listed, Entries, Unique
    <3>2. PICK a \in Pick(live) : live' = live \cup {a} /\ list' = a
      BY <2>3
    <3>3. a \notin live /\ a # NULL
      BY PickFresh
    <3>4. Pointers = {} /\ Pointers' = {a}
      BY <2>1, <2>2, <2>3, <3>2, <3>3
    <3>5. live = lost /\ live' = {a} \cup lost'
      BY <2>1, <2>2, <3>2, <3>4
    <3>6. QED
      BY <2>1, <2>2, <2>3, <3>1, <3>2, <3>3, <3>4, <3>5 DEF Unique
  <2>4. CASE Return(E_EXC_NOMEM) /\ UNCHANGED <<live, slots>>
    BY <2>1, <2>2, <2>4 DEF Return, End, Listed
  <2>5. QED
    BY <1>3, <2>3, <2>4 DEF InitList
<1>4. CASE InitItem
  <2>0. exlist = NULL /\ str = NULL /\ item = NULL /\ dasminfo = NULL /\ rec = {} /\ str' = NULL
    BY <1>4 DEF InitItem, Return, End, ControlInv, Parsing, Building
  <2>1. CASE \E a \in Pick(live) : live' = live \cup {a} /\ slots' = [slots EXCEPT ![0] = a]
                                  /\ UNCHANGED list /\ pc' = "initfile"
    <3>1. PICK a \in Pick(live) : live' = live \cup {a} /\ slots' = [slots EXCEPT ![0] = a]
      BY <2>1
    <3>2. a \notin live /\ a # NULL
      BY PickFresh
    <3>3. Unique(slots') /\ Listed' = Listed \cup {a}
      <4>1. 0 \in DOMAIN slots /\ slots[0] = NULL
        BY <1>4 DEF InitItem, SlotsInv, Used, ControlInv, HasList, CallTypeOK
      <4>2. /\ 0 \in DOMAIN slots' /\ slots'[0] = a
            /\ \A i \in DOMAIN slots' : i # 0 => i \in DOMAIN slots /\ slots'[i] = slots[i]
            /\ \A i \in DOMAIN slots : slots[i] # NULL => i # 0 /\ i \in DOMAIN slots' /\ slots'[i] = slots[i]
        BY <3>1, <4>1
      <4>3. QED
        BY <1>0, <3>2, <4>2, PutEntry DEF Listed
    <3>4. UNCHANGED <<list, exlist, str, item, dasminfo, rec, lost>>
      BY <1>4, <2>1, <2>0 DEF InitItem, making, apprec
    <3>5. QED
      BY <2>0, <2>1, <3>1, <3>2, <3>3, <3>4 DEF Unique
  <2>2. CASE Return(E_EXC_NOMEM) /\ live' = live \ {list} /\ slots' = NoSlots
    <3>1. Listed = {}
      BY <1>4 DEF InitItem, SlotsInv, Used, Listed, Entries, CallTypeOK, HeapTypeOK
    <3>2. Listed' = {} /\ Unique(slots')
      BY <2>2, NoEntries DEF Listed
    <3>3. /\ list' = NULL /\ fp_sum' = "closed" /\ pc' = "idle"
          /\ UNCHANGED <<exlist, str, item, dasminfo, rec, lost>>
      BY <1>4, <2>0, <2>2 DEF InitItem, Return, End, making, apprec
    <3>4. Pointers = {list} \ {NULL} /\ Pointers' = {}
      BY <2>0, <3>3
    <3>5. live' = lost'
      BY <1>0, <2>0, <2>2, <3>1, <3>3, <3>4
    <3>6. QED
      BY <2>0, <3>2, <3>3, <3>4, <3>5 DEF Unique
  <2>3. QED
    BY <1>4, <2>1, <2>2 DEF InitItem
<1>5. CASE InitFile
  <2>0. exlist = NULL /\ str = NULL /\ item = NULL /\ dasminfo = NULL /\ rec = {}
    BY <1>5 DEF InitFile, ControlInv, Parsing, Building
  <2>1. CASE pc' = "strdup" /\ UNCHANGED <<list, slots, str, live>>
    BY <1>5, <2>1 DEF InitFile, making, apprec, Listed
  <2>2. CASE Return(E_EXC_FOPEN) /\ live' = live \ {list, slots[0]} /\ slots' = NoSlots
    <3>1. Listed = {slots[0]}
      BY <1>5 DEF InitFile, SlotsInv, Used, ControlInv, HasList, Listed, Entries, CallTypeOK, HeapTypeOK
    <3>2. Listed' = {} /\ Unique(slots')
      BY <2>2, NoEntries DEF Listed
    <3>3. /\ list' = NULL /\ str' = NULL /\ fp_sum' = "closed" /\ pc' = "idle"
          /\ UNCHANGED <<exlist, item, dasminfo, rec, lost>>
      BY <1>5, <2>0, <2>2 DEF InitFile, Return, End, making, apprec
    <3>4. Pointers = {list} \ {NULL} /\ Pointers' = {}
      BY <2>0, <3>3
    <3>5. live' = lost'
      BY <1>0, <2>0, <2>2, <3>1, <3>3, <3>4
    <3>6. QED
      BY <2>0, <3>2, <3>3, <3>4, <3>5 DEF Unique
  <2>3. QED
    BY <1>5, <2>1, <2>2 DEF InitFile
<1>6. CASE DupStr
  BY <1>6, PickFresh DEF DupStr, ctl, making, apprec, Listed, ControlInv, Parsing, Building
<1>7. CASE ParseBlock \/ AppDone \/ OtherBrief
  BY <1>7 DEF ParseBlock, AppDone, OtherBrief, ctl, caller, parser, making, apprec, Listed
<1>8. CASE Deliver
  <2>1. exlist = NULL /\ item = NULL /\ dasminfo = NULL /\ rec = {} /\ list # NULL
    BY <1>8 DEF Deliver, Handed, ControlInv, HasList, Parsing, Building
  <2>2. /\ exlist' = list /\ list' = NULL /\ str' = NULL /\ live' = live \ {str} /\ Listed' = Listed
        /\ fp_sum' = "closed" /\ UNCHANGED <<item, dasminfo, rec, lost, slots>>
    BY <1>8 DEF Deliver, Handed, Return, End, making, apprec, Listed
  <2>3. Pointers = {list, str} \ {NULL} /\ Pointers' = {list}
    BY <2>1, <2>2
  <2>4. str # NULL => str \in live /\ str \notin {list} \cup Listed \cup rec \cup lost
    BY <2>3
  <2>5. live' = Pointers' \cup Listed' \cup rec' \cup lost'
    BY <1>0, <2>1, <2>2, <2>3, <2>4
  <2>6. QED
    BY <2>1, <2>2, <2>3, <2>5
<1>9. CASE Abort
  <2>1. Listed' = {} /\ Unique(slots')
    BY <1>9, NoEntries DEF Abort, exclist_release, Listed
  <2>2. QED
    <3>1. exlist = NULL /\ item = NULL /\ dasminfo = NULL /\ rec = {}
      BY <1>9 DEF Abort, exclist_release, ControlInv, Parsing, Building
    <3>2. /\ list' = NULL /\ str' = NULL /\ live' = live \ ({str, list} \cup Listed)
          /\ fp_sum' = "closed" /\ UNCHANGED <<exlist, item, dasminfo, rec, lost>>
      BY <1>9 DEF Abort, exclist_release, Return, End, making, apprec
    <3>3. Pointers = {list, str} \ {NULL} /\ Pointers' = {}
      BY <3>1, <3>2
    <3>4. live' = lost'
      BY <1>0, <3>1, <3>2, <3>3
    <3>5. QED
      BY <2>1, <3>1, <3>2, <3>3, <3>4 DEF Unique
<1>10. CASE AppFound
  <2>1. rec = {} /\ pc' = "item" /\ UNCHANGED <<list, exlist, str, item, dasminfo, slots, Listed>>
    BY <1>10 DEF AppFound, ctl, caller, making, Listed, ControlInv, Building
  <2>2. PICK R \in SUBSET Pick(live) : \E O \in SUBSET R :
           rec' = R \ O /\ lost' = lost \cup O /\ live' = live \cup R
    BY <1>10 DEF AppFound
  <2>3. R \cap live = {} /\ NULL \notin R
    BY PickFresh
  <2>4. QED
    BY <2>1, <2>2, <2>3
<1>11. CASE AppNotFound
  BY <1>11 DEF AppNotFound, AppFail, ctl, caller, Listed, ControlInv, Parsing, Building
<1>12. CASE NewAppItem
  BY <1>12, PickFresh DEF NewAppItem, AppFail, ctl, caller, apprec, making, Listed, ControlInv, Parsing, Building
<1>13. CASE SetBase
  BY <1>13 DEF SetBase, AppFail, ctl, caller, apprec, making, Listed, ControlInv, Parsing, Building
<1>14. CASE SetAnalyse
  BY <1>14 DEF SetAnalyse, AppFail, ctl, caller, apprec, making, Listed, ControlInv, Parsing, Building
<1>15. CASE SetStack
  BY <1>15 DEF SetStack, AppFail, ctl, caller, apprec, making, Listed, ControlInv, Parsing, Building
<1>16. CASE GetDasm
  <2>1. CASE \E a \in Pick(live) : live' = live \cup {a} /\ dasminfo' = a /\ UNCHANGED <<apprec, item>>
    <3>1. dasminfo = NULL /\ UNCHANGED <<list, exlist, str, item, slots, rec, lost, Listed>> /\ pc' # "idle"
      BY <1>16, <2>1 DEF GetDasm, AppFail, ctl, caller, apprec, Listed, ControlInv
    <3>2. QED
      BY <2>1, <3>1, PickFresh
  <2>2. CASE UNCHANGED <<apprec, item, dasminfo, live>> /\ pc' = "dasm"
    BY <1>16, <2>2 DEF GetDasm, ctl, caller, apprec, Listed
  <2>3. CASE AppFail({item})
    BY <1>16, <2>3 DEF GetDasm, AppFail, ctl, caller, apprec, Listed, ControlInv, Parsing, Building
  <2>4. QED
    BY <1>16, <2>1, <2>2, <2>3 DEF GetDasm
<1>17. CASE SetADasm
  <2>1. CASE AppFail({item} \cup ({dasminfo} \ {NULL}))
    BY <1>17, <2>1 DEF SetADasm, AppFail, ctl, caller, Listed, ControlInv, Parsing, Building
  <2>2. CASE UNCHANGED <<pc, dasminfo, live, apprec, item>>
    BY <1>17, <2>2 DEF SetADasm, ctl, caller, apprec, Listed
  <2>3. CASE /\ pc' = "pushapp" /\ dasminfo' = NULL /\ live' = live \ {dasminfo}
             /\ UNCHANGED <<apprec, item>>
    BY <1>0, <1>17, <2>3 DEF SetADasm, ctl, caller, apprec, Listed
  <2>4. QED
    BY <1>17, <2>1, <2>2, <2>3 DEF SetADasm
<1>18. CASE OtherLong
  BY <1>18, PickFresh DEF OtherLong, ctl, caller, parser, apprec, making, Listed, ControlInv, Parsing, Building
<1>19. CASE PushApp \/ PushOther
  <2>1. PICK F : exclist_push_item(F) /\ F = rec
    <3>1. CASE PushApp
      BY <3>1 DEF PushApp
    <3>2. CASE PushOther
      BY <3>2 DEF PushOther, ControlInv, Building
    <3>3. QED
      BY <1>19, <3>1, <3>2
  <2>2. /\ rec' = {} /\ item' = NULL /\ UNCHANGED <<exlist, str, dasminfo>>
        /\ exlist = NULL /\ dasminfo = NULL /\ list # NULL /\ pc # "idle" /\ pc' # "idle"
    BY <1>19, <2>1 DEF PushApp, PushOther, caller, parser, apprec, ControlInv, HasList, Parsing,
                       Building, exclist_push_item, NextIndex
  <2>3. CASE item = NULL /\ live' = live \ rec /\ UNCHANGED <<list, slots, lost>>
    BY <2>2, <2>3 DEF Listed
  <2>4. CASE item # NULL /\ PushRefused /\ live' = live \ rec
    BY <2>2, <2>4 DEF PushRefused, Listed
  <2>5. CASE item # NULL /\ PushFits /\ live' = live \ rec
    <3>1. Unique(slots') /\ Listed' = Listed \cup {item}
      BY <1>0, <2>2, <2>5, PushEntry
    <3>2. QED
      BY <2>2, <2>5, <3>1 DEF PushFits, Unique
  <2>6. CASE item # NULL /\ \E a \in Pick(live) : PushGrows(a) /\ live' = ((live \cup {a}) \ {list}) \ rec
    <3>1. Unique(slots') /\ Listed' = Listed \cup {item}
      BY <1>0, <2>2, <2>6, PushEntry
    <3>2. PICK a \in Pick(live) : PushGrows(a) /\ live' = ((live \cup {a}) \ {list}) \ rec
      BY <2>6
    <3>3. a \notin live /\ a # NULL
      BY PickFresh
    <3>4. QED
      BY <2>2, <2>6, <3>1, <3>2, <3>3 DEF PushGrows, Grown, Unique
  <2>7. QED
    BY <2>1, <2>3, <2>4, <2>5, <2>6, Zenon DEF exclist_push_item, NextIndex
<1>20. CASE UNCHANGED vars
  BY <1>20 DEF vars, ctl, caller, parser, making, apprec, Listed
<1>21. QED
  BY <1>1, <1>2, <1>3, <1>4, <1>5, <1>6, <1>7, <1>8, <1>9, <1>10, <1>11, <1>12, <1>13,
     <1>14, <1>15, <1>16, <1>17, <1>18, <1>19, <1>20 DEF Next, Step

-----------------------------------------------------------------------------
LEMMA InitInv == Init => IInv
<1> SUFFICES ASSUME Init PROVE IInv
  OBVIOUS
<1>1. CallTypeOK
  BY DEF Init, CallTypeOK
<1>2. HeapTypeOK
  BY DEF Init, HeapTypeOK, NoSlots
<1>3. ItemsTypeOK
  BY DEF Init, ItemsTypeOK, NoSlots
<1>4. Listed = {} /\ Unique(slots)
  BY NoEntries DEF Init, Listed
<1>5. OneOwner
  BY <1>4 DEF Init, OneOwner, Pointers, Unique
<1>6. ControlInv /\ SlotsInv
  BY DEF Init, ControlInv, SlotsInv, HasList, Parsing, Building, NoSlots
<1>7. QED
  BY <1>1, <1>2, <1>3, <1>5, <1>6 DEF IInv, TypeOK

LEMMA IInvStep == IInv /\ [Next]_vars => IInv'
BY CallTypeStep, HeapTypeStep, ItemsTypeStep, ControlStep, SlotsStep, OwnerStep DEF IInv, TypeOK

LEMMA IInvAlways == Spec => []IInv
BY InitInv, IInvStep, PTL DEF Spec

(* Every variable of a load, of the heap and of the files keeps its type,   *)
(* whatever allocation or file fails (Exc_Load and Exc_Release).            *)
THEOREM TypeCorrect == Spec => []TypeOK
<1>1. IInv => TypeOK
  BY DEF IInv
<1>2. QED
  BY <1>1, IInvAlways, PTL

(* No block of the guarded heap is freed twice, used by two owners or lost, *)
(* except the items exclist_push refuses and the first buffers of repeated  *)
(* sections, on any path of Exc_Load and Exc_Release and for any allocator, *)
(* array size and number of records.                                        *)
THEOREM Ownership == Spec => []OneOwner
<1>1. IInv => OneOwner
  BY DEF IInv
<1>2. QED
  BY <1>1, IInvAlways, PTL

(* exclist_push never moves or overwrites an item already in the list, not  *)
(* even when it replaces the array by a larger one.                         *)
THEOREM PushAppends == Spec => AppendOnly
<1> DEFINE Appends == list # NULL /\ list' # NULL =>
                        /\ list_index' \in {list_index, list_index + 1}
                        /\ \A i \in 0..list_index-1 : slots'[i] = slots[i]
<1>1. ASSUME IInv, [Next]_vars PROVE [Appends]_vars
  <2> SUFFICES ASSUME list # NULL, list' # NULL, Next
               PROVE  /\ list_index' \in {list_index, list_index + 1}
                      /\ \A i \in 0..list_index-1 : slots'[i] = slots[i]
    BY <1>1
  <2> USE DEF IInv, TypeOK
  <2>1. pc \in HasList /\ pc # "idle"
    BY <1>1 DEF ControlInv, HasList, Parsing, Building
  <2>2. CASE InitItem
    BY <1>1, <2>1, <2>2 DEF InitItem, Return, End, SlotsInv
  <2>3. CASE InitFile
    BY <2>3 DEF InitFile, Return, End
  <2>4. CASE PushApp \/ PushOther
    <3>1. PICK F : exclist_push_item(F)
      BY <2>4 DEF PushApp, PushOther
    <3>2. \/ UNCHANGED <<list_index, slots>>
          \/ item # NULL /\ (PushRefused \/ PushFits \/ \E a \in Pick(live) : PushGrows(a))
      BY <3>1, Zenon DEF exclist_push_item, NextIndex
    <3>3. QED
      BY <1>1, <2>1, <3>2, PushArray
  <2>5. CASE DupStr \/ ParseBlock \/ AppFound \/ AppDone \/ AppNotFound \/ OtherBrief \/ OtherLong
    BY <2>5 DEF DupStr, ParseBlock, AppFound, AppDone, AppNotFound, OtherBrief, OtherLong, ctl
  <2>6. CASE NewAppItem \/ SetBase \/ SetAnalyse \/ SetStack \/ GetDasm \/ SetADasm
    BY <2>6 DEF NewAppItem, SetBase, SetAnalyse, SetStack, GetDasm, SetADasm, ctl
  <2>7. CASE InitList \/ Deliver \/ Abort \/ Load \/ LoadReject \/ Release
    BY <2>1, <2>7 DEF InitList, Deliver, Handed, Abort, exclist_release, Return, End, Load, LoadReject, Release, HasList, Parsing, Building
  <2>8. QED
    BY <2>2, <2>3, <2>4, <2>5, <2>6, <2>7 DEF Next, Step
<1>2. QED
  BY <1>1, IInvAlways, PTL DEF Spec, AppendOnly

-----------------------------------------------------------------------------
(* The documents a load hands to its caller: their numbers, their files     *)
(* and, with these, that ExcList implements ExcApi.                         *)

(* The summary file is open: records have numbers. *)
Numbered == Parsing \cup {"strdup", "abort"}

(* The next number is the summary's next line; the list has the summary's   *)
(* item from initfile on; only an error leads to abort.                     *)
SummaryInv ==
    /\ sum_index = IF pc \in Numbered THEN Len(summary) + 1 ELSE 0
    /\ pc \in {"initlist", "inititem", "initfile"} => summary = <<>>
    /\ \A i \in 1..Len(summary) : summary[i].index = i
    /\ IF exlist = NULL THEN count = 0 ELSE count > 0
    /\ pc \in Numbered \cup {"initfile"} => list_index > 0
    /\ pc = "abort" => ret \in Errors

(* The first item is the summary's, with number 0; the others have numbers  *)
(* of records in increasing order, and their files have the same.           *)
NumberInv ==
    /\ \A a \in Addr : desc[a] # 0 => a \in Listed \cup lost
    /\ Used > 0 => /\ desc[slots[0]] = 0
                   /\ info[slots[0]] = [j \in {0} |-> <<0, "info", 0>>]
    /\ \A i \in 1..Used-1 :
          /\ \A h \in 0..i-1 : desc[slots[h]] < desc[slots[i]]
          /\ desc[slots[i]] \in 1..Len(summary)
          /\ summary[desc[slots[i]]].detail = "item"
          /\ DOMAIN info[slots[i]] # {}
          /\ \A j \in DOMAIN info[slots[i]] : info[slots[i]][j][1] = desc[slots[i]]

(* The entries of the item in hand, and those already filled. *)
AllEntries == IF pc \in Building THEN 0..frames+3 ELSE {0}
Filled ==
    IF pc = "analyse" THEN 0..0
    ELSE IF pc = "stack" THEN 0..1
    ELSE IF pc = "getdasm" THEN 0..2
    ELSE IF pc = "dasm" THEN 0..k+2
    ELSE IF pc \in {"pushapp", "pushother"} THEN AllEntries
    ELSE {}
EntryPath(j) ==
    IF pc = "pushother" THEN <<sum_index, "info", 0>>
    ELSE IF j = 0 THEN <<sum_index, "base", 0>>
    ELSE IF j = 1 THEN <<sum_index, "parse", 0>>
    ELSE IF j = 2 THEN <<sum_index, "stack", 0>>
    ELSE IF j = 3 THEN <<sum_index, "PC", 0>>
    ELSE <<sum_index, "bt", j - 4>>

File(p, a) == [path |-> p, writer |-> a]

HandInv ==
    /\ pc = "dasm" => k <= frames
    /\ item # NULL =>
        /\ DOMAIN info[item] = AllEntries
        /\ \A j \in Filled : info[item][j] = EntryPath(j) /\ File(EntryPath(j), item) \in files

DocsInv == SummaryInv /\ NumberInv /\ HandInv /\ FilesOfItems

-----------------------------------------------------------------------------
(* The lines of the summary and the numbers of the next record. *)
LEMMA SummaryStep ==
    CallTypeOK /\ ControlInv /\ SlotsInv /\ SummaryInv /\ [Next]_vars => SummaryInv'
<1> SUFFICES ASSUME CallTypeOK, ControlInv, SlotsInv, SummaryInv, [Next]_vars PROVE SummaryInv'
  OBVIOUS
<1> USE DEF SummaryInv, Numbered, Parsing, Building
<1>1. CASE Load \/ LoadReject \/ Release
  BY <1>1 DEF Load, LoadReject, Release, ctl, parser, disk
<1>2. CASE InitList
  BY <1>2 DEF InitList, Return, End, disk
<1>3. CASE InitItem
  BY <1>3 DEF InitItem, Return, End, disk
<1>4. CASE InitFile
  BY <1>4 DEF InitFile, Return, End, Errors
<1>5. CASE DupStr
  BY <1>5 DEF DupStr, ctl, disk, Errors
<1>6. CASE ParseBlock
  BY <1>6 DEF ParseBlock, ctl, caller, disk
<1>7. CASE Deliver
  BY <1>7 DEF Deliver, Handed, Return, End, disk, ControlInv, HasList
<1>8. CASE Abort
  BY <1>8 DEF Abort, exclist_release, Return, End, ControlInv
<1>9. CASE AppFound \/ AppNotFound \/ AppDone
  BY <1>9 DEF AppFound, AppNotFound, AppDone, AppFail, ctl, caller, disk
<1>10. CASE NewAppItem \/ SetBase \/ SetAnalyse \/ SetStack
  BY <1>10 DEF NewAppItem, SetBase, SetAnalyse, SetStack, AppFail, ctl, caller
<1>11. CASE GetDasm \/ SetADasm
  BY <1>11 DEF GetDasm, SetADasm, AppFail, ctl, caller
<1>12. CASE OtherBrief \/ OtherLong
  BY <1>12 DEF OtherBrief, OtherLong, ctl, caller, disk, Errors
<1>13. CASE PushApp \/ PushOther
  <2>1. PICK F : exclist_push_item(F)
    BY <1>13 DEF PushApp, PushOther
  <2>2. \/ UNCHANGED <<list_num, list_index>>
        \/ PushRefused \/ PushFits \/ \E a \in Pick(live) : PushGrows(a)
    BY <2>1, Zenon DEF exclist_push_item
  <2>3. list_index' \in {list_index, list_index + 1}
    BY <2>2 DEF PushRefused, PushFits, PushGrows
  <2>4. PICK d \in {"none", "item"} :
           summary' = Append(summary, [index |-> sum_index, detail |-> d])
    BY <2>1 DEF exclist_push_item
  <2>5. sum_index = Len(summary) + 1 /\ sum_index' = sum_index + 1
    BY <1>13, <2>1 DEF PushApp, PushOther, exclist_push_item, NextIndex
  <2>6. /\ Len(summary') = Len(summary) + 1
        /\ \A i \in 1..Len(summary) : summary'[i] = summary[i]
        /\ summary'[Len(summary) + 1].index = sum_index
    BY <2>4 DEF CallTypeOK
  <2>7. \A i \in 1..Len(summary') : summary'[i].index = i
    BY <2>5, <2>6 DEF CallTypeOK
  <2>8. QED
    BY <1>13, <2>3, <2>5, <2>6, <2>7 DEF PushApp, PushOther, caller, CallTypeOK
<1>14. CASE UNCHANGED vars
  BY <1>14 DEF vars, ctl, caller, disk
<1>15. QED
  BY <1>1, <1>2, <1>3, <1>4, <1>5, <1>6, <1>7, <1>8, <1>9, <1>10, <1>11, <1>12,
     <1>13, <1>14 DEF Next, Step

-----------------------------------------------------------------------------
(* A step that leaves the list, the summary and every file of another       *)
(* number alone. *)
Apart ==
    /\ UNCHANGED <<slots, Used, summary>>
    /\ lost \subseteq lost'
    /\ \A a \in Listed : info'[a] = info[a] /\ desc'[a] = desc[a]
    /\ \A a \in Addr : desc'[a] \in {0, desc[a]}
    /\ \A a \in Listed : \A p :
          p[1] # sum_index /\ File(p, a) \in files => File(p, a) \in files'

LEMMA OrphanKeeps ==
    ASSUME NEW F, NEW A, NEW a, a \notin A, NEW p, File(p, a) \in F
    PROVE  File(p, a) \in Orphan(F, A)
<1> DEFINE f == File(p, a)
<1>1. f.path = p /\ f.writer = a
  BY DEF File
<1>2. f = [path |-> f.path, writer |-> IF f.writer \in A THEN NULL ELSE f.writer]
  BY <1>1 DEF File
<1>3. QED
  BY <1>2 DEF Orphan

LEMMA WriteKeeps ==
    ASSUME NEW p, NEW q, p # q, NEW a, NEW b, File(p, a) \in files
    PROVE  File(p, a) \in Write(q, b)
BY DEF Write, File

LEMMA WriteWrites ==
    ASSUME NEW q, NEW b
    PROVE  File(q, b) \in Write(q, b)
BY DEF Write, File

LEMMA ForgetKeeps ==
    ASSUME ItemsTypeOK, NEW A, Forget(A)
    PROVE  /\ \A a \in Addr \ A : info'[a] = info[a] /\ desc'[a] = desc[a]
           /\ \A a \in Addr : desc'[a] \in {0, desc[a]}
BY DEF Forget, ItemsTypeOK

LEMMA ListedAddr == HeapTypeOK => Listed \subseteq Addr
BY DEF HeapTypeOK, Listed, Entries

(* What a failure of apprec_push2list frees and forgets is not listed. *)
LEMMA AppFailApart ==
    ASSUME HeapTypeOK, ItemsTypeOK, OneOwner, NEW A, A \subseteq Pointers, AppFail(A),
           UNCHANGED <<slots, Used, summary, lost>>
    PROVE  Apart
<1>1. A \cap Listed = {} /\ Forget(A) /\ files' = Orphan(files, A)
  BY DEF OneOwner, AppFail
<1>2. \A a \in Listed : \A p : File(p, a) \in files => File(p, a) \in files'
  BY <1>1, OrphanKeeps
<1>3. /\ \A a \in Listed : info'[a] = info[a] /\ desc'[a] = desc[a]
      /\ \A a \in Addr : desc'[a] \in {0, desc[a]}
  BY <1>1, ForgetKeeps, ListedAddr
<1>4. QED
  BY <1>2, <1>3 DEF Apart

(* Neither is the item an entry of which is set. *)
LEMMA SetInfoApart ==
    ASSUME HeapTypeOK, ItemsTypeOK, OneOwner, item # NULL,
           NEW j, NEW p, p[1] = sum_index, SetInfo(j, p),
           UNCHANGED <<slots, Used, summary, lost>>
    PROVE  Apart
<1>1. item \notin Listed
  BY DEF OneOwner, Pointers
<1>2. \A a \in Listed : info'[a] = info[a]
  BY <1>1, ListedAddr DEF SetInfo, ItemsTypeOK
<1>3. \A a \in Listed : \A q : q[1] # sum_index /\ File(q, a) \in files => File(q, a) \in files'
  BY WriteKeeps DEF SetInfo
<1>4. QED
  BY <1>2, <1>3 DEF Apart, SetInfo

(* Neither is a new item. *)
LEMMA NewItemApart ==
    ASSUME HeapTypeOK, ItemsTypeOK, OneOwner, NEW a \in Pick(live), NEW E,
           info' = [info EXCEPT ![a] = E],
           files' = files \/ \E p : p[1] = sum_index /\ files' = Write(p, a),
           UNCHANGED <<slots, Used, summary, lost, desc>>
    PROVE  Apart
<1>1. a \notin Listed
  BY PickFresh DEF OneOwner
<1>2. \A b \in Listed : info'[b] = info[b]
  BY <1>1, ListedAddr DEF ItemsTypeOK
<1>3. \A b \in Listed : \A q : q[1] # sum_index /\ File(q, b) \in files => File(q, b) \in files'
  BY WriteKeeps
<1>4. QED
  BY <1>2, <1>3 DEF Apart

LEMMA FmtNumber == \A n, j : exclist_fmt_path(n, j)[1] = sum_index
BY DEF exclist_fmt_path

(* The steps between two pushes. *)
LEMMA MakingApart ==
    ASSUME IInv,
           DupStr \/ ParseBlock \/ AppFound \/ AppDone \/ AppNotFound
           \/ NewAppItem \/ SetBase \/ SetAnalyse \/ SetStack \/ GetDasm \/ SetADasm
           \/ OtherBrief \/ OtherLong
    PROVE  Apart
<1> USE DEF IInv, TypeOK
<1>0. pc # "idle" /\ (pc' # "idle" => Used = list_index /\ Used' = list_index')
  BY DEF Used, DupStr, ParseBlock, AppFound, AppDone, AppNotFound, NewAppItem, SetBase,
         SetAnalyse, SetStack, GetDasm, SetADasm, OtherBrief, OtherLong
<1>1. CASE DupStr \/ ParseBlock \/ AppFound \/ AppDone \/ OtherBrief
  BY <1>0, <1>1 DEF DupStr, ParseBlock, AppFound, AppDone, OtherBrief, ctl, items, disk, Apart, ItemsTypeOK
<1>2. CASE AppNotFound
  <2>1. AppFail({}) /\ UNCHANGED <<slots, Used, summary, lost>>
    BY <1>0, <1>2 DEF AppNotFound, AppFail, ctl
  <2>2. QED
    BY <2>1, AppFailApart
<1>3. CASE NewAppItem
  <2>1. UNCHANGED <<slots, Used, summary, lost>>
    BY <1>0, <1>3 DEF NewAppItem, AppFail, ctl
  <2>2. CASE AppFail({})
    BY <2>1, <2>2, AppFailApart
  <2>3. CASE \E a \in Pick(live) : info' = [info EXCEPT ![a] = NewInfo(4 + frames)] /\ UNCHANGED <<desc, files>>
    BY <2>1, <2>3, NewItemApart
  <2>4. QED
    BY <1>3, <2>2, <2>3 DEF NewAppItem
<1>4. ASSUME SetBase \/ SetAnalyse \/ SetStack \/ GetDasm \/ SetADasm
      PROVE  /\ item # NULL /\ {item} \subseteq Pointers /\ {item} \cup ({dasminfo} \ {NULL}) \subseteq Pointers
             /\ UNCHANGED <<slots, Used, summary, lost>>
  <2>1. pc \in Building
    BY <1>4 DEF SetBase, SetAnalyse, SetStack, GetDasm, SetADasm, Building
  <2>2. UNCHANGED <<slots, list_index, summary, lost>> /\ pc' # "idle"
    BY <1>4 DEF SetBase, SetAnalyse, SetStack, GetDasm, SetADasm, ctl, AppFail
  <2>3. QED
    BY <1>0, <2>1, <2>2 DEF ControlInv, Pointers
<1>5. CASE SetBase
  BY <1>4, <1>5, AppFailApart, SetInfoApart, FmtNumber DEF SetBase
<1>6. CASE SetAnalyse
  <2>1. CASE /\ files' = Orphan(Write(exclist_fmt_path("parse", 0), item), {item})
             /\ Forget({item})
    <3>1. item \notin Listed
      BY <1>4, <1>6 DEF OneOwner
    <3>2. \A a \in Listed : \A p : p[1] # sum_index /\ File(p, a) \in files => File(p, a) \in files'
      BY <2>1, <3>1, WriteKeeps, OrphanKeeps, FmtNumber
    <3>3. /\ \A a \in Listed : info'[a] = info[a] /\ desc'[a] = desc[a]
          /\ \A a \in Addr : desc'[a] \in {0, desc[a]}
      BY <2>1, <3>1, ForgetKeeps, ListedAddr
    <3>4. QED
      BY <1>4, <1>6, <3>2, <3>3 DEF Apart
  <2>2. QED
    BY <1>4, <1>6, <2>1, AppFailApart, SetInfoApart, FmtNumber DEF SetAnalyse
<1>7. CASE SetStack
  BY <1>4, <1>7, AppFailApart, SetInfoApart, FmtNumber DEF SetStack
<1>8. CASE GetDasm
  <2>1. CASE UNCHANGED <<items, files>>
    BY <1>4, <1>8, <2>1 DEF items, Apart, ItemsTypeOK
  <2>2. QED
    BY <1>4, <1>8, <2>1, AppFailApart DEF GetDasm
<1>9. CASE SetADasm
  <2>1. DasmPath[1] = sum_index
    BY FmtNumber DEF DasmPath
  <2>2. QED
    BY <1>4, <1>9, <2>1, AppFailApart, SetInfoApart DEF SetADasm
<1>10. CASE OtherLong
  <2>1. UNCHANGED <<slots, Used, summary, lost, desc>>
    BY <1>0, <1>10 DEF OtherLong, ctl, items
  <2>2. CASE \E a \in Pick(live) :
               /\ info' = [info EXCEPT ![a] = [j \in {0} |-> exclist_fmt_path("info", 0)]]
               /\ files' = Write(exclist_fmt_path("info", 0), a)
    BY <2>1, <2>2, NewItemApart, FmtNumber
  <2>3. CASE UNCHANGED <<items, files>>
    BY <2>1, <2>3 DEF items, Apart, ItemsTypeOK
  <2>4. QED
    BY <1>10, <2>2, <2>3 DEF OtherLong
<1>11. QED
  BY <1>1, <1>2, <1>3, <1>5, <1>6, <1>7, <1>8, <1>9, <1>10

-----------------------------------------------------------------------------
(* The used slots and the items in them. *)
LEMMA UsedSlots ==
    ASSUME CallTypeOK, HeapTypeOK, ControlInv, SlotsInv
    PROVE  /\ Used \in Nat
           /\ list # NULL \/ exlist # NULL => 0..Used-1 \subseteq DOMAIN slots
           /\ list = NULL /\ exlist = NULL => Listed = {}
           /\ \A i \in 0..Used-1 : i \in DOMAIN slots => slots[i] \in Listed
           /\ \A a \in Listed : \E i \in 0..Used-1 : i \in DOMAIN slots /\ slots[i] = a
<1>1. Used \in Nat
  BY DEF Used, CallTypeOK
<1>2. list # NULL \/ exlist # NULL => 0..Used-1 \subseteq DOMAIN slots
  BY <1>1 DEF SlotsInv, Used, CallTypeOK, ControlInv, HasList, Parsing, Building
<1>3. list = NULL /\ exlist = NULL => Listed = {}
  BY NoEntries DEF SlotsInv, Listed
<1>4. \A i \in 0..Used-1 : i \in DOMAIN slots => slots[i] \in Listed
  BY <1>1 DEF SlotsInv, Listed, Entries
<1>5. ASSUME NEW a \in Listed PROVE \E i \in 0..Used-1 : i \in DOMAIN slots /\ slots[i] = a
  <2>1. PICK i \in DOMAIN slots : slots[i] = a /\ a # NULL
    BY DEF Listed, Entries
  <2>2. i \in Nat /\ i < Used
    BY <1>1, <2>1 DEF SlotsInv, HeapTypeOK
  <2>3. QED
    BY <1>1, <2>1, <2>2
<1>6. QED
  BY <1>1, <1>2, <1>3, <1>4, <1>5

(* The slots are in use while there are items. *)
LEMMA HasSlots ==
    ASSUME IInv, SummaryInv, Used > 0
    PROVE  list # NULL \/ exlist # NULL
<1> SUFFICES ASSUME list = NULL, exlist = NULL PROVE FALSE
  OBVIOUS
<1>1. count = 0 /\ list_index = 0
  BY DEF IInv, SlotsInv, SummaryInv
<1>2. QED
  BY <1>1 DEF Used

LEMMA ListedNumbers ==
    ASSUME IInv, SummaryInv, NumberInv, NEW a \in Listed, NEW j \in DOMAIN info[a]
    PROVE  /\ info[a][j][1] = desc[a] /\ desc[a] \in 0..Len(summary)
           /\ DOMAIN info[a] # {}
<1> USE DEF IInv, TypeOK
<1>1. PICK i \in 0..Used-1 : slots[i] = a
  BY UsedSlots
<1>2. Used \in Nat /\ Used > 0 /\ Len(summary) \in Nat
  BY <1>1, UsedSlots DEF CallTypeOK
<1>3. CASE i = 0
  BY <1>1, <1>2, <1>3 DEF NumberInv
<1>4. CASE i # 0
  <2>1. i \in 1..Used-1
    BY <1>2, <1>4
  <2>2. /\ desc[a] \in 1..Len(summary) /\ DOMAIN info[a] # {}
        /\ \A l \in DOMAIN info[a] : info[a][l][1] = desc[a]
    BY <1>1, <2>1 DEF NumberInv
  <2>3. QED
    BY <1>2, <2>2
<1>5. QED
  BY <1>3, <1>4

LEMMA ApartKeeps ==
    ASSUME IInv, SummaryInv, NumberInv, Apart, pc \in Numbered
    PROVE  /\ NumberInv'
           /\ FilesOfItems /\ pc # "abort" => FilesOfItems'
<1> USE DEF IInv, TypeOK
<1>1. Listed' = Listed
  BY DEF Apart, Listed
<1>2. \A i \in 0..Used-1 : slots[i] \in Listed
  <2>1. Used \in Nat
    BY UsedSlots
  <2>2. Used > 0 => 0..Used-1 \subseteq DOMAIN slots
    BY UsedSlots, HasSlots
  <2>3. QED
    BY <2>1, <2>2, UsedSlots
<1>3. Used \in Nat /\ Len(summary) \in Nat
  BY UsedSlots DEF CallTypeOK
<1>4. NumberInv'
  <2>1. \A a \in Addr : desc'[a] # 0 => a \in Listed' \cup lost'
    BY <1>1 DEF Apart, NumberInv
  <2>2. Used' > 0 => desc'[slots'[0]] = 0 /\ info'[slots'[0]] = [j \in {0} |-> <<0, "info", 0>>]
    BY <1>2, <1>3 DEF Apart, NumberInv
  <2>3. ASSUME NEW i \in 1..Used'-1
        PROVE  /\ i \in 1..Used-1 /\ slots'[i] = slots[i]
               /\ desc'[slots[i]] = desc[slots[i]] /\ info'[slots[i]] = info[slots[i]]
               /\ \A h \in 0..i-1 : slots'[h] = slots[h] /\ desc'[slots[h]] = desc[slots[h]]
    BY <1>2, <1>3 DEF Apart
  <2>4. ASSUME NEW i \in 1..Used'-1
        PROVE  /\ \A h \in 0..i-1 : desc'[slots'[h]] < desc'[slots'[i]]
               /\ desc'[slots'[i]] \in 1..Len(summary')
               /\ summary'[desc'[slots'[i]]].detail = "item"
               /\ DOMAIN info'[slots'[i]] # {}
               /\ \A j \in DOMAIN info'[slots'[i]] : info'[slots'[i]][j][1] = desc'[slots'[i]]
    <3>1. /\ \A h \in 0..i-1 : desc[slots[h]] < desc[slots[i]]
          /\ desc[slots[i]] \in 1..Len(summary)
          /\ summary[desc[slots[i]]].detail = "item"
          /\ DOMAIN info[slots[i]] # {}
          /\ \A j \in DOMAIN info[slots[i]] : info[slots[i]][j][1] = desc[slots[i]]
      BY <2>3 DEF NumberInv
    <3>2. summary' = summary
      BY DEF Apart
    <3>3. QED
      BY <2>3, <3>1, <3>2
  <2>5. QED
    BY <2>1, <2>2, <2>4, Zenon DEF NumberInv
<1>5. ASSUME FilesOfItems, pc # "abort" PROVE FilesOfItems'
  <2>1. ASSUME NEW a \in Listed, NEW j \in DOMAIN info[a]
        PROVE  File(info[a][j], a) \in files'
    <3>1. File(info[a][j], a) \in files
      BY <1>5 DEF FilesOfItems, File, Numbered, Parsing, Building
    <3>2. info[a][j][1] # sum_index
      <4>1. info[a][j][1] \in 0..Len(summary)
        BY ListedNumbers
      <4>2. QED
        BY <1>3, <4>1 DEF SummaryInv
    <3>3. QED
      BY <3>1, <3>2 DEF Apart
  <2>2. \A a \in Listed' : \A j \in DOMAIN info'[a] : File(info'[a][j], a) \in files'
    BY <1>1, <2>1 DEF Apart
  <2>3. QED
    BY <2>2 DEF FilesOfItems, File
<1>6. QED
  BY <1>4, <1>5

-----------------------------------------------------------------------------
(* One more entry of the item in hand is filled. *)
LEMMA FillEntry ==
    ASSUME ItemsTypeOK, HandInv, item \in Addr, item # NULL,
           pc \in Building, pc' \in Building, UNCHANGED <<item, frames, sum_index>>,
           NEW j \in AllEntries, \A i \in Filled : EntryPath(i) # EntryPath(j),
           SetInfo(j, EntryPath(j)), Filled' = Filled \cup {j}, pc' = "dasm" => k' <= frames
    PROVE  HandInv'
<1>1. item' # NULL /\ AllEntries' = AllEntries /\ \A i : EntryPath(i)' = EntryPath(i)
  BY DEF AllEntries, EntryPath, Building
<1>2. DOMAIN info'[item] = AllEntries /\ info'[item][j] = EntryPath(j)
      /\ \A i \in AllEntries : i # j => info'[item][i] = info[item][i]
  BY DEF SetInfo, HandInv, ItemsTypeOK
<1>3. File(EntryPath(j), item) \in files'
  BY WriteWrites DEF SetInfo
<1>4. ASSUME NEW i \in Filled, i # j
      PROVE  info'[item][i] = EntryPath(i) /\ File(EntryPath(i), item) \in files'
  <2>1. info[item][i] = EntryPath(i) /\ File(EntryPath(i), item) \in files
    BY <1>4 DEF HandInv
  <2>2. info'[item][i] = info[item][i]
    BY <1>4 DEF SetInfo, HandInv, ItemsTypeOK
  <2>3. QED
    BY <2>1, <2>2, WriteKeeps DEF SetInfo
<1>5. \A i \in Filled' : info'[item][i] = EntryPath(i) /\ File(EntryPath(i), item) \in files'
  BY <1>2, <1>3, <1>4
<1>6. \A i \in Filled' : info'[item'][i] = EntryPath(i)' /\ File(EntryPath(i)', item') \in files'
  BY <1>1, <1>5
<1>7. QED
  BY <1>1, <1>2, <1>6 DEF HandInv, File

(* The item in hand has the entries it should have. *)
LEMMA HandStep ==
    IInv /\ HandInv /\ [Next]_vars => HandInv'
<1> SUFFICES ASSUME IInv, HandInv, [Next]_vars PROVE HandInv'
  OBVIOUS
<1> USE DEF IInv, TypeOK
<1>0. item # NULL => item \in Addr
  BY DEF HeapTypeOK
<1>1. ASSUME item' = NULL, pc' # "dasm" PROVE HandInv'
  BY <1>1 DEF HandInv
<1>2. CASE Load \/ LoadReject \/ Release \/ InitList \/ InitItem \/ InitFile \/ DupStr \/ ParseBlock
           \/ Deliver \/ Abort \/ AppFound \/ AppDone \/ OtherBrief
  <2>1. item = NULL /\ item' = NULL
    BY <1>2 DEF Load, LoadReject, Release, InitList, InitItem, InitFile, DupStr, ParseBlock,
                Deliver, Abort, AppFound, AppDone, OtherBrief, ControlInv, Building, making
  <2>2. pc' # "dasm"
    BY <1>2 DEF Load, LoadReject, Release, InitList, InitItem, InitFile, DupStr, ParseBlock,
                Deliver, Abort, AppFound, AppDone, OtherBrief, Return, End
  <2>3. QED
    BY <1>1, <2>1, <2>2
<1>3. CASE PushApp \/ PushOther
  BY <1>1, <1>3 DEF PushApp, PushOther, exclist_push_item
<1>4. ASSUME NEW A, AppFail(A) PROVE HandInv'
  BY <1>1, <1>4 DEF AppFail
<1>5. CASE AppNotFound
  BY <1>4, <1>5 DEF AppNotFound
<1>6. CASE NewAppItem
  <2>1. CASE \E a \in Pick(live) :
               /\ item' = a
               /\ info' = [info EXCEPT ![a] = NewInfo(4 + frames)]
               /\ pc' = "base" /\ frames' = frames
    <3>1. PICK a \in Pick(live) : item' = a /\ info' = [info EXCEPT ![a] = NewInfo(4 + frames)]
      BY <2>1
    <3>2. info'[a] = NewInfo(4 + frames)
      BY <3>1, PickFresh DEF ItemsTypeOK
    <3>3. DOMAIN info'[item'] = 0..frames'+3
      BY <2>1, <3>1, <3>2 DEF NewInfo, CallTypeOK
    <3>4. QED
      BY <2>1, <3>3 DEF HandInv, AllEntries, Building, Filled
  <2>2. QED
    BY <1>4, <1>6, <2>1 DEF NewAppItem, apprec
<1>7. CASE SetBase
  <2>1. CASE SetInfo(0, exclist_fmt_path("base", 0)) /\ pc' = "analyse" /\ UNCHANGED <<apprec, making>>
    <3>1. /\ Filled = {} /\ Filled' = {0} /\ 0 \in AllEntries /\ pc \in Building /\ pc' \in Building
          /\ EntryPath(0) = exclist_fmt_path("base", 0)
      BY <1>7, <2>1 DEF SetBase, Filled, AllEntries, Building, EntryPath, exclist_fmt_path, CallTypeOK
    <3>2. item # NULL /\ UNCHANGED <<item, frames, sum_index>>
      BY <1>7, <2>1, <3>1 DEF SetBase, ControlInv, making, apprec, ctl
    <3>3. QED
      BY <1>0, <2>1, <3>1, <3>2, FillEntry
  <2>2. QED
    BY <1>4, <1>7, <2>1 DEF SetBase
<1>8. CASE SetAnalyse
  <2>1. CASE SetInfo(1, exclist_fmt_path("parse", 0)) /\ pc' = "stack" /\ UNCHANGED <<apprec, making>>
    <3>1. /\ Filled = {0} /\ Filled' = {0, 1} /\ 1 \in AllEntries /\ pc \in Building /\ pc' \in Building
          /\ EntryPath(1) = exclist_fmt_path("parse", 0) /\ EntryPath(0) # EntryPath(1)
      BY <1>8, <2>1 DEF SetAnalyse, Filled, AllEntries, Building, EntryPath, exclist_fmt_path, CallTypeOK
    <3>2. item # NULL /\ UNCHANGED <<item, frames, sum_index>>
      BY <1>8, <2>1, <3>1 DEF SetAnalyse, ControlInv, making, apprec, ctl
    <3>3. QED
      BY <1>0, <2>1, <3>1, <3>2, FillEntry
  <2>2. CASE item' = NULL /\ pc' = "other"
    BY <1>1, <2>2
  <2>3. QED
    BY <1>4, <1>8, <2>1, <2>2 DEF SetAnalyse
<1>9. CASE SetStack
  <2>1. CASE SetInfo(2, exclist_fmt_path("stack", 0)) /\ pc' = "getdasm" /\ UNCHANGED <<apprec, making>>
    <3>1. /\ Filled = {0, 1} /\ Filled' = {0, 1, 2} /\ 2 \in AllEntries /\ pc \in Building /\ pc' \in Building
          /\ EntryPath(2) = exclist_fmt_path("stack", 0)
          /\ EntryPath(0) # EntryPath(2) /\ EntryPath(1) # EntryPath(2)
      BY <1>9, <2>1 DEF SetStack, Filled, AllEntries, Building, EntryPath, exclist_fmt_path, CallTypeOK
    <3>2. item # NULL /\ UNCHANGED <<item, frames, sum_index>>
      BY <1>9, <2>1, <3>1 DEF SetStack, ControlInv, making, apprec, ctl
    <3>3. QED
      BY <1>0, <2>1, <3>1, <3>2, FillEntry
  <2>2. QED
    BY <1>4, <1>9, <2>1 DEF SetStack
<1>10. CASE GetDasm
  <2>1. CASE pc' = "dasm" /\ k' = 0 /\ UNCHANGED <<apprec, item, items, files>>
    <3>1. /\ Filled' = Filled /\ AllEntries' = AllEntries /\ \A j : EntryPath(j)' = EntryPath(j)
          /\ k' <= frames'
      BY <1>10, <2>1 DEF GetDasm, Filled, AllEntries, Building, EntryPath, apprec, ctl, CallTypeOK
    <3>2. QED
      BY <2>1, <3>1 DEF HandInv, File, items
  <2>2. QED
    BY <1>4, <1>10, <2>1 DEF GetDasm
<1>11. CASE SetADasm
  <2>1. CASE /\ SetInfo(3 + k, DasmPath)
             /\ \/ k < frames /\ k' = k + 1 /\ UNCHANGED pc
                \/ k = frames /\ pc' = "pushapp"
             /\ UNCHANGED <<apprec, item>>
    <3>1. k \in Nat /\ frames \in Nat /\ k <= frames /\ frames' = frames /\ pc = "dasm" /\ sum_index' = sum_index
      BY <1>11, <2>1 DEF SetADasm, HandInv, CallTypeOK, apprec, ctl
    <3>2. /\ Filled = 0..k+2 /\ Filled' = Filled \cup {3 + k} /\ 3 + k \in AllEntries
          /\ pc \in Building /\ pc' \in Building
      BY <2>1, <3>1 DEF Filled, AllEntries, Building
    <3>3. EntryPath(3 + k) = DasmPath
      BY <3>1 DEF EntryPath, DasmPath, exclist_fmt_path
    <3>4. \A i \in 0..k+2 : EntryPath(i) # EntryPath(3 + k)
      BY <3>1 DEF EntryPath
    <3>5. item # NULL
      BY <3>2 DEF ControlInv
    <3>6. pc' = "dasm" => k' <= frames
      BY <2>1, <3>1
    <3>7. QED
      BY <1>0, <2>1, <3>1, <3>2, <3>3, <3>4, <3>5, <3>6, FillEntry
  <2>2. QED
    BY <1>4, <1>11, <2>1 DEF SetADasm
<1>12. CASE OtherLong
  <2>1. CASE \E a \in Pick(live) :
               /\ item' = a
               /\ info' = [info EXCEPT ![a] = [j \in {0} |-> exclist_fmt_path("info", 0)]]
               /\ files' = Write(exclist_fmt_path("info", 0), a)
               /\ pc' = "pushother"
    <3>1. PICK a \in Pick(live) :
               /\ item' = a
               /\ info' = [info EXCEPT ![a] = [j \in {0} |-> exclist_fmt_path("info", 0)]]
               /\ files' = Write(exclist_fmt_path("info", 0), a)
      BY <2>1
    <3>2. info'[a] = [j \in {0} |-> exclist_fmt_path("info", 0)]
      BY <3>1, PickFresh DEF ItemsTypeOK
    <3>3. sum_index' = sum_index /\ Filled' = {0} /\ AllEntries' = {0}
      BY <1>12, <2>1 DEF OtherLong, Filled, AllEntries, Building, ctl
    <3>4. \A j : EntryPath(j)' = exclist_fmt_path("info", 0)
      BY <2>1, <3>3 DEF EntryPath, exclist_fmt_path
    <3>5. File(exclist_fmt_path("info", 0), a) \in files'
      BY <3>1, WriteWrites
    <3>6. QED
      BY <2>1, <3>1, <3>2, <3>3, <3>4, <3>5 DEF HandInv, File
  <2>2. CASE pc' = "abort" /\ UNCHANGED item
    BY <1>1, <1>12, <2>2 DEF OtherLong, ControlInv, Building
  <2>3. QED
    BY <1>12, <2>1, <2>2 DEF OtherLong
<1>13. CASE UNCHANGED vars
  BY <1>13 DEF vars, HandInv, AllEntries, Filled, EntryPath, File, making, apprec, ctl, items, disk, Building
<1>14. QED
  BY <1>2, <1>3, <1>5, <1>6, <1>7, <1>8, <1>9, <1>10, <1>11, <1>12, <1>13 DEF Next, Step

-----------------------------------------------------------------------------
(* The item in hand, complete, follows the listed items: what holds of      *)
(* these holds of it with the next number. *)
LEMMA PushNumbers ==
    ASSUME IInv, DocsInv, PushApp \/ PushOther
    PROVE  NumberInv' /\ FilesOfItems'
<1> USE DEF IInv, TypeOK, DocsInv
<1>1. PICK F : exclist_push_item(F)
  BY DEF PushApp, PushOther
<1>2. /\ pc \in {"pushapp", "pushother"} /\ pc' \in {"app", "parse"}
      /\ list # NULL /\ Used = list_index /\ Used' = list_index'
      /\ info' = info /\ files' = files /\ list_index > 0
  BY <1>1 DEF PushApp, PushOther, exclist_push_item, ControlInv, HasList, Parsing, Building, Used,
              SummaryInv, Numbered
<1>3. /\ list_index \in Nat /\ Len(summary) \in Nat /\ sum_index = Len(summary) + 1
      /\ 0..list_index-1 \subseteq DOMAIN slots
  BY <1>2, UsedSlots DEF CallTypeOK, SummaryInv, Numbered, Parsing, Building
<1>4. PICK d \in {"none", "item"} :
         /\ summary' = Append(summary, [index |-> sum_index, detail |-> d])
         /\ d = IF item = NULL THEN "none" ELSE "item"
  BY <1>1 DEF exclist_push_item
<1>5. /\ Len(summary') = Len(summary) + 1
      /\ \A i \in 1..Len(summary) : summary'[i] = summary[i]
      /\ summary'[sum_index].detail = d
  BY <1>3, <1>4 DEF CallTypeOK
<1>6. \A i \in 0..list_index-1 : slots[i] \in Listed
  BY <1>2, <1>3, UsedSlots
<1>7. \A i \in 1..list_index-1 :
         /\ \A h \in 0..i-1 : desc[slots[h]] < desc[slots[i]]
         /\ desc[slots[i]] \in 1..Len(summary) /\ summary[desc[slots[i]]].detail = "item"
         /\ DOMAIN info[slots[i]] # {}
         /\ \A j \in DOMAIN info[slots[i]] : info[slots[i]][j][1] = desc[slots[i]]
  BY <1>2 DEF NumberInv
<1>8. desc[slots[0]] = 0 /\ info[slots[0]] = [j \in {0} |-> <<0, "info", 0>>]
  BY <1>2 DEF NumberInv
<1>9. \A a \in Listed : \A j \in DOMAIN info[a] : File(info[a][j], a) \in files
  BY <1>2 DEF FilesOfItems, File
<1>10. CASE item = NULL
  <2>1. UNCHANGED <<desc, slots, list_index, lost>> /\ Listed' = Listed
    BY <1>1, <1>10, Zenon DEF exclist_push_item, Listed
  <2>2. \A i \in 1..Len(summary) : i \in 1..Len(summary')
    BY <1>3, <1>5
  <2>3. \A i \in 1..Used'-1 :
          /\ \A h \in 0..i-1 : desc[slots[h]] < desc[slots[i]]
          /\ desc[slots[i]] \in 1..Len(summary') /\ summary'[desc[slots[i]]].detail = "item"
          /\ DOMAIN info[slots[i]] # {}
          /\ \A j \in DOMAIN info[slots[i]] : info[slots[i]][j][1] = desc[slots[i]]
    BY <1>2, <1>5, <1>7, <2>1, <2>2
  <2>4. \A a \in Addr : desc[a] # 0 => a \in Listed \cup lost
    BY DEF NumberInv
  <2>5. NumberInv'
    BY <1>2, <1>8, <2>1, <2>3, <2>4, Zenon DEF NumberInv
  <2>6. FilesOfItems'
    BY <1>2, <1>9, <2>1 DEF FilesOfItems, File
  <2>7. QED
    BY <2>5, <2>6
<1>11. CASE item # NULL
  <2>1. /\ desc' = [desc EXCEPT ![item] = sum_index]
        /\ PushRefused \/ PushFits \/ \E a \in Pick(live) : PushGrows(a)
    BY <1>1, <1>11, Zenon DEF exclist_push_item
  <2>2. item \in Addr /\ item \notin Listed /\ Unique(slots)
    BY <1>11 DEF HeapTypeOK, OneOwner, Pointers, Unique
  <2>3. desc'[item] = sum_index /\ \A a \in Addr \ {item} : desc'[a] = desc[a]
    BY <2>1, <2>2 DEF ItemsTypeOK
  <2>4. \A a \in Listed : desc'[a] = desc[a]
    BY <2>2, <2>3, ListedAddr
  <2>5. /\ DOMAIN info[item] # {}
        /\ \A j \in DOMAIN info[item] : info[item][j][1] = sum_index /\ File(info[item][j], item) \in files
    <3>1. Filled = AllEntries /\ 0 \in AllEntries
      BY <1>2 DEF Filled, AllEntries, CallTypeOK
    <3>2. \A j : EntryPath(j)[1] = sum_index
      BY DEF EntryPath
    <3>3. QED
      BY <1>11, <3>1, <3>2 DEF HandInv
  <2>6. \A i \in 1..list_index-1 :
           /\ \A h \in 0..i-1 : desc'[slots[h]] < desc'[slots[i]]
           /\ desc'[slots[i]] \in 1..Len(summary') /\ summary'[desc'[slots[i]]].detail = "item"
           /\ DOMAIN info[slots[i]] # {}
           /\ \A j \in DOMAIN info[slots[i]] : info[slots[i]][j][1] = desc'[slots[i]]
    <3>1. ASSUME NEW i \in 1..list_index-1
          PROVE  slots[i] \in Listed /\ \A h \in 0..i-1 : slots[h] \in Listed
      BY <1>3, <1>6
    <3>2. \A m \in 1..Len(summary) : m \in 1..Len(summary')
      BY <1>3, <1>5
    <3>3. ASSUME NEW i \in 1..list_index-1
          PROVE  /\ \A h \in 0..i-1 : desc'[slots[h]] < desc'[slots[i]]
                 /\ desc'[slots[i]] \in 1..Len(summary') /\ summary'[desc'[slots[i]]].detail = "item"
                 /\ DOMAIN info[slots[i]] # {}
                 /\ \A j \in DOMAIN info[slots[i]] : info[slots[i]][j][1] = desc'[slots[i]]
      <4>1. desc'[slots[i]] = desc[slots[i]] /\ \A h \in 0..i-1 : desc'[slots[h]] = desc[slots[h]]
        BY <2>4, <3>1
      <4>2. desc[slots[i]] \in 1..Len(summary) /\ summary[desc[slots[i]]].detail = "item"
        BY <1>7
      <4>3. summary'[desc[slots[i]]].detail = "item"
        BY <1>5, <4>2
      <4>4. QED
        BY <1>7, <3>2, <4>1, <4>2, <4>3
    <3>4. QED
      BY <3>3
  <2>7. desc'[slots[0]] = 0
    BY <1>2, <1>3, <1>6, <1>8, <2>4
  <2>8. CASE PushRefused
    <3>1. UNCHANGED <<slots, list_index>> /\ lost' = lost \cup {item} /\ Listed' = Listed
      BY <2>8 DEF PushRefused, Listed
    <3>2. \A a \in Addr : desc'[a] # 0 => a \in Listed' \cup lost'
      BY <2>3, <3>1 DEF NumberInv
    <3>3. QED
      BY <1>2, <1>8, <1>9, <2>6, <2>7, <3>1, <3>2 DEF NumberInv, FilesOfItems, File
  <2>9. CASE PushFits \/ \E a \in Pick(live) : PushGrows(a)
    <3>1. Listed' = Listed \cup {item} /\ lost' = lost
      BY <1>2, <1>11, <2>2, <2>9, PushEntry DEF PushFits, PushGrows
    <3>2. /\ list_index' = list_index + 1 /\ slots'[list_index] = item
          /\ \A i \in 0..list_index-1 : slots'[i] = slots[i]
      <4>1. \A i \in 0..list_index-1 : slots'[i] = slots[i]
        BY <1>2, <1>11, <2>9, PushArray
      <4>2. CASE PushFits
        BY <4>1, <4>2, <1>2, <1>3 DEF PushFits, SlotsInv, CallTypeOK
      <4>3. CASE \E a \in Pick(live) : PushGrows(a)
        <5>1. PICK a \in Pick(live) : PushGrows(a)
          BY <4>3
        <5>2. list_index' = list_index + 1 /\ slots' = Grown /\ list_index = list_num
          BY <5>1, <1>2, <1>3 DEF PushGrows, SlotsInv, CallTypeOK
        <5>3. list_index \in 0..(list_num + ListGrow - 1)
          BY <5>2, <1>2, <1>3, ListAssumption DEF CallTypeOK
        <5>4. slots'[list_index] = item
          BY <5>2, <5>3 DEF Grown
        <5>5. QED
          BY <4>1, <5>2, <5>4
      <4>4. QED
        BY <2>9, <4>2, <4>3
    <3>3. \A a \in Addr : desc'[a] # 0 => a \in Listed' \cup lost'
      BY <2>3, <3>1 DEF NumberInv
    <3>4. desc'[slots'[0]] = 0 /\ info[slots'[0]] = [j \in {0} |-> <<0, "info", 0>>]
      BY <1>2, <1>3, <1>8, <2>7, <3>2
    <3>5. \A h \in 0..list_index-1 : slots[h] \in Listed /\ desc[slots[h]] < sum_index
      <4>1. \A h \in 0..list_index-1 : h = 0 \/ h \in 1..list_index-1
        BY <1>3
      <4>2. \A h \in 1..list_index-1 : desc[slots[h]] < sum_index
        BY <1>3, <1>7
      <4>3. QED
        BY <1>3, <1>6, <1>8, <4>1, <4>2
    <3>6. ASSUME NEW i \in 1..list_index'-1
          PROVE  /\ \A h \in 0..i-1 : desc'[slots'[h]] < desc'[slots'[i]]
                 /\ desc'[slots'[i]] \in 1..Len(summary') /\ summary'[desc'[slots'[i]]].detail = "item"
                 /\ DOMAIN info[slots'[i]] # {}
                 /\ \A j \in DOMAIN info[slots'[i]] : info[slots'[i]][j][1] = desc'[slots'[i]]
      <4>1. CASE i = list_index
        <5>1. slots'[i] = item /\ \A h \in 0..i-1 : slots'[h] = slots[h] /\ desc'[slots[h]] = desc[slots[h]]
          BY <1>2, <1>3, <2>4, <3>2, <3>5, <4>1
        <5>2. d = "item" /\ sum_index \in 1..Len(summary')
          BY <1>3, <1>4, <1>5, <1>11
        <5>3. QED
          BY <1>5, <2>3, <2>5, <3>5, <4>1, <5>1, <5>2
      <4>2. CASE i # list_index
        <5>1. i \in 1..list_index-1 /\ slots'[i] = slots[i] /\ \A h \in 0..i-1 : slots'[h] = slots[h]
          BY <1>3, <3>2, <4>2
        <5>2. QED
          BY <2>6, <5>1
      <4>3. QED
        BY <4>1, <4>2
    <3>7. NumberInv'
      BY <1>2, <3>3, <3>4, <3>6 DEF NumberInv
    <3>8. FilesOfItems'
      BY <1>2, <1>9, <2>5, <3>1 DEF FilesOfItems, File
    <3>9. QED
      BY <3>7, <3>8
  <2>10. QED
    BY <2>1, <2>8, <2>9
<1>12. QED
  BY <1>10, <1>11

(* The numbers of the listed items, at every step. *)
LEMMA NumberStep ==
    IInv /\ DocsInv /\ [Next]_vars => NumberInv'
<1> SUFFICES ASSUME IInv, DocsInv, [Next]_vars PROVE NumberInv'
  OBVIOUS
<1> USE DEF IInv, TypeOK, DocsInv
(* No item is left. *)
<1>1. ASSUME Used' = 0, \A a \in Addr : desc'[a] # 0 => a \in lost' PROVE NumberInv'
  BY <1>1 DEF NumberInv
<1>2. CASE Load
  <2>1. Used' = 0 /\ Listed = {}
    BY <1>2, UsedSlots DEF Load, Used, SlotsInv, ControlInv, HasList, Parsing, Building, ctl
  <2>2. QED
    BY <1>1, <1>2, <2>1 DEF Load, NumberInv, items
<1>3. CASE LoadReject \/ UNCHANGED vars
  <2>1. UNCHANGED <<Used, Listed, slots, desc, info, summary, lost>>
    BY <1>3 DEF LoadReject, vars, ctl, caller, items, disk, Used, Listed
  <2>2. QED
    BY <2>1 DEF NumberInv
<1>4. CASE Release
  <2>1. {slots[i] : i \in 0..count-1} = Listed
    <3>1. pc = "idle" /\ Used = count /\ exlist # NULL
      BY <1>4 DEF Release, Used
    <3>2. 0..count-1 \subseteq DOMAIN slots /\ (\A i \in 0..count-1 : slots[i] \in Listed)
          /\ \A a \in Listed : \E i \in 0..count-1 : slots[i] = a
      BY <3>1, UsedSlots
    <3>3. QED
      BY <3>2
  <2>2. Forget(Listed) /\ Used' = 0 /\ lost' = lost
    BY <1>4, <2>1 DEF Release, Used
  <2>3. \A a \in Addr : desc'[a] # 0 => a \in lost'
    BY <2>2 DEF Forget, NumberInv
  <2>4. QED
    BY <1>1, <2>2, <2>3
<1>5. CASE InitList
  <2>1. Listed = {} /\ list_index = 0 /\ count = 0
    BY <1>5, UsedSlots DEF InitList, ControlInv, HasList, Parsing, Building, SlotsInv, SummaryInv
  <2>2. Used' = 0
    BY <1>5, <2>1 DEF InitList, Return, End, Used
  <2>3. \A a \in Addr : desc'[a] # 0 => a \in lost'
    BY <1>5, <2>1 DEF InitList, items, NumberInv
  <2>4. QED
    BY <1>1, <2>2, <2>3
<1>6. CASE InitItem
  <2>1. Used = 0 /\ Listed = {} /\ count = 0
    BY <1>6, UsedSlots DEF InitItem, Used, SlotsInv, SummaryInv, ControlInv
  <2>2. CASE \E a \in Pick(live) :
               /\ slots' = [slots EXCEPT ![0] = a]
               /\ list_index' = 1 /\ pc' = "initfile"
               /\ info' = [info EXCEPT ![a] = [j \in {0} |-> exclist_fmt_path("info", 0)]]
               /\ UNCHANGED desc
    <3>1. PICK a \in Pick(live) :
               /\ slots' = [slots EXCEPT ![0] = a]
               /\ info' = [info EXCEPT ![a] = [j \in {0} |-> exclist_fmt_path("info", 0)]]
      BY <2>2
    <3>2. a \in Addr /\ a \notin live
      BY PickFresh
    <3>3. slots'[0] = a
      BY <1>6, <3>1 DEF InitItem, SlotsInv, ControlInv, HasList, CallTypeOK
    <3>4. desc[a] = 0 /\ \A b \in Addr : desc[b] # 0 => b \in lost
      BY <2>1, <3>2 DEF NumberInv, OneOwner
    <3>5. info'[a] = [j \in {0} |-> <<0, "info", 0>>]
      BY <1>6, <3>1, <3>2 DEF ItemsTypeOK, exclist_fmt_path, SummaryInv, InitItem, Numbered, Parsing, Building
    <3>6. Used' = 1 /\ desc' = desc /\ lost' = lost
      BY <1>6, <2>2 DEF InitItem, Used
    <3>7. QED
      BY <3>3, <3>4, <3>5, <3>6 DEF NumberInv
  <2>3. CASE Return(E_EXC_NOMEM) /\ UNCHANGED items
    <3>1. Used' = 0 /\ lost' = lost /\ desc' = desc
      BY <1>6, <2>1, <2>3 DEF InitItem, Return, End, Used, items
    <3>2. QED
      BY <1>1, <2>1, <3>1 DEF NumberInv
  <2>4. QED
    BY <1>6, <2>2, <2>3 DEF InitItem
<1>7. CASE InitFile
  <2>1. Used = 1 /\ Listed = {slots[0]} /\ count = 0
    BY <1>7 DEF InitFile, Used, SlotsInv, SummaryInv, ControlInv, HasList, Listed, Entries, CallTypeOK, HeapTypeOK
  <2>2. CASE pc' = "strdup" /\ UNCHANGED <<slots, items, list_index>>
    BY <1>7, <2>1, <2>2 DEF InitFile, NumberInv, Used, Listed, items
  <2>3. CASE Return(E_EXC_FOPEN) /\ Forget({slots[0]})
    <3>1. Used' = 0 /\ lost' = lost
      BY <1>7, <2>1, <2>3 DEF InitFile, Return, End, Used
    <3>2. \A a \in Addr : desc'[a] # 0 => a \in lost'
      BY <2>1, <2>3, <3>1 DEF Forget, NumberInv
    <3>3. QED
      BY <1>1, <3>1, <3>2
  <2>4. QED
    BY <1>7, <2>2, <2>3 DEF InitFile
<1>8. CASE Deliver
  <2>1. Used = list_index /\ Used' = list_index /\ UNCHANGED <<slots, items, lost, summary>>
    BY <1>8 DEF Deliver, Handed, Return, End, Used, disk
  <2>2. QED
    BY <2>1 DEF NumberInv, Listed, items
<1>9. CASE Abort
  <2>1. Used' = 0 /\ Forget(Listed) /\ lost' = lost
    BY <1>9 DEF Abort, Return, End, Used, SummaryInv, ControlInv
  <2>2. \A a \in Addr : desc'[a] # 0 => a \in lost'
    BY <2>1 DEF Forget, NumberInv
  <2>3. QED
    BY <1>1, <2>1, <2>2
<1>10. CASE DupStr \/ ParseBlock \/ AppFound \/ AppDone \/ AppNotFound
           \/ NewAppItem \/ SetBase \/ SetAnalyse \/ SetStack \/ GetDasm \/ SetADasm
           \/ OtherBrief \/ OtherLong
  <2>1. pc \in Numbered
    BY <1>10 DEF DupStr, ParseBlock, AppFound, AppDone, AppNotFound, NewAppItem, SetBase, SetAnalyse,
         SetStack, GetDasm, SetADasm, OtherBrief, OtherLong, Numbered, Parsing, Building
  <2>2. QED
    BY <1>10, <2>1, MakingApart, ApartKeeps
<1>11. CASE PushApp \/ PushOther
  BY <1>11, PushNumbers
<1>12. QED
  BY <1>2, <1>3, <1>4, <1>5, <1>6, <1>7, <1>8, <1>9, <1>10, <1>11 DEF Next, Step

(* The files of the listed items, at every step. *)
LEMMA FilesStep ==
    IInv /\ DocsInv /\ [Next]_vars => FilesOfItems'
<1> SUFFICES ASSUME IInv, DocsInv, [Next]_vars, pc' \notin {"initlist", "inititem", "initfile", "abort"}
             PROVE  \A a \in Listed' : \A j \in DOMAIN info'[a] : File(info'[a][j], a) \in files'
  BY Zenon DEF FilesOfItems, File
<1> USE DEF IInv, TypeOK, DocsInv
<1>1. ASSUME slots' = NoSlots PROVE Listed' = {}
  BY <1>1, NoEntries DEF Listed
<1>2. CASE InitFile /\ pc' = "strdup"
  <2>1. Listed = {slots[0]} /\ Listed' = Listed /\ info' = info
    <3>1. pc = "initfile" /\ list # NULL /\ list_index = 1
      BY <1>2 DEF InitFile, SlotsInv, ControlInv, HasList, Used
    <3>2. UNCHANGED <<slots, items>>
      BY <1>2 DEF InitFile, Return, End, items
    <3>3. \A i \in DOMAIN slots : slots[i] # NULL <=> i = 0
      BY <3>1 DEF SlotsInv, Used, CallTypeOK
    <3>4. Listed = {slots[0]}
      BY <3>1, <3>3 DEF Listed, Entries, SlotsInv, CallTypeOK
    <3>5. QED
      BY <3>2, <3>4 DEF Listed, items
  <2>2. info[slots[0]] = [j \in {0} |-> <<0, "info", 0>>]
    BY <1>2 DEF InitFile, NumberInv, Used, SlotsInv
  <2>3. files' = Write(info[slots[0]][0], slots[0])
    BY <1>2 DEF InitFile, Return, End
  <2>4. QED
    BY <2>1, <2>2, <2>3, WriteWrites
<1>3. CASE (InitItem \/ InitFile \/ Abort \/ Release) /\ pc' # "strdup"
  <2>1. slots' = NoSlots
    BY <1>3 DEF InitItem, InitFile, Abort, Release, Return, End
  <2>2. QED
    BY <1>1, <2>1
<1>4. CASE InitList
  <2>1. Listed = {} /\ Listed' = Listed
    BY <1>4, UsedSlots DEF InitList, Return, End, ControlInv, HasList, Parsing, Building, Listed
  <2>2. QED
    BY <2>1
<1>5. CASE LoadReject \/ Deliver \/ UNCHANGED vars
  <2>1. UNCHANGED <<slots, items, files, Listed>> /\ pc \notin {"initlist", "inititem", "initfile", "abort"}
    BY <1>5 DEF LoadReject, Deliver, vars, ctl, items, disk, Listed
  <2>2. QED
    BY <2>1 DEF FilesOfItems, File, items
<1>6. CASE DupStr \/ ParseBlock \/ AppFound \/ AppDone \/ AppNotFound
           \/ NewAppItem \/ SetBase \/ SetAnalyse \/ SetStack \/ GetDasm \/ SetADasm
           \/ OtherBrief \/ OtherLong
  <2>1. pc \in Numbered /\ pc # "abort"
    BY <1>6 DEF DupStr, ParseBlock, AppFound, AppDone, AppNotFound, NewAppItem, SetBase, SetAnalyse,
         SetStack, GetDasm, SetADasm, OtherBrief, OtherLong, Numbered, Parsing, Building
  <2>2. FilesOfItems'
    BY <1>6, <2>1, MakingApart, ApartKeeps
  <2>3. QED
    BY <2>2 DEF FilesOfItems, File
<1>7. CASE PushApp \/ PushOther
  BY <1>7, PushNumbers DEF FilesOfItems, File
<1>8. CASE Load
  BY <1>8 DEF Load
<1>9. pc' # "strdup" \/ InitFile \/ UNCHANGED vars \/ LoadReject
  BY DEF Next, Step, Load, Release, InitList, InitItem, DupStr, ParseBlock, Deliver, Abort, AppFound,
         AppNotFound, AppDone, AppFail, NewAppItem, SetBase, SetAnalyse, SetStack, GetDasm, SetADasm,
         PushApp, OtherBrief, OtherLong, PushOther, Return, End
<1>10. QED
  BY <1>2, <1>3, <1>4, <1>5, <1>6, <1>7, <1>8, <1>9 DEF Next, Step

LEMMA DocsInit == Init => DocsInv
<1> SUFFICES ASSUME Init PROVE DocsInv
  OBVIOUS
<1>1. SummaryInv /\ NumberInv
  BY DEF Init, SummaryInv, NumberInv, Numbered, Parsing, Building, Used
<1>2. HandInv
  BY DEF Init, HandInv
<1>3. FilesOfItems
  BY NoEntries DEF Init, FilesOfItems, Listed
<1>4. QED
  BY <1>1, <1>2, <1>3 DEF DocsInv

LEMMA DocsStep == IInv /\ DocsInv /\ [Next]_vars => DocsInv'
BY SummaryStep, HandStep, NumberStep, FilesStep DEF DocsInv, IInv, TypeOK

LEMMA DocsAlways == Spec => [](IInv /\ DocsInv)
BY InitInv, IInvStep, DocsInit, DocsStep, PTL DEF Spec

(* Records are numbered without gap or repetition; the items of the list    *)
(* follow the summary with increasing numbers, each announced by a line of  *)
(* the summary and with files of its own number, whatever failures and      *)
(* growth of the array come between (exclist_push_item, exclist_fmt_path).  *)
THEOREM NumbersOfItems == Spec => []Numbering
<1>1. IInv /\ DocsInv => Numbering
  <2> SUFFICES ASSUME IInv, DocsInv PROVE Numbering
    OBVIOUS
  <2>1. Used = IF pc = "idle" THEN count ELSE list_index
    BY DEF Used
  <2>2. pc \notin {"idle", "initlist", "inititem", "initfile"} => sum_index = Len(summary) + 1
    BY DEF IInv, TypeOK, CallTypeOK, DocsInv, SummaryInv, Numbered, Parsing, Building
  <2>3. Used \in Nat
    BY UsedSlots DEF IInv, TypeOK
  <2>4. \A i \in 1..Used-1 : i - 1 \in 0..i-1
    BY <2>3
  <2>5. QED
    BY <2>1, <2>2, <2>4 DEF Numbering, DocsInv, SummaryInv, NumberInv
<1>2. QED
  BY <1>1, DocsAlways, PTL

(* Every file of every item in the list is on disk with what was written    *)
(* for this item: no record, retry or clean-up overwrote or removed it.     *)
THEOREM FilesAreTheItems == Spec => []FilesOfItems
<1>1. DocsInv => FilesOfItems
  BY DEF DocsInv
<1>2. QED
  BY <1>1, DocsAlways, PTL

-----------------------------------------------------------------------------
(* The documents of the list, once the text is parsed. *)
LEMMA ListedDocs ==
    ASSUME IInv, DocsInv, pc \in {"parse", "idle"}, list # NULL \/ exlist # NULL
    PROVE  /\ Listed # {}
           /\ \A a \in Listed : ItemPaths(a) # {} /\ ItemPaths(a) \subseteq Path
           /\ \A a, b \in Listed : ItemPaths(a) # ItemPaths(b) => ItemPaths(a) \cap ItemPaths(b) = {}
           /\ {f.path : f \in {g \in files : g.writer \in Listed /\ g.path \in ItemPaths(g.writer)}}
                 = UNION {ItemPaths(a) : a \in Listed}
           /\ {slots[i] : i \in 0..Used-1} = Listed
<1> USE DEF IInv, TypeOK, DocsInv
<1>1. Used \in Nat /\ Used > 0 /\ 0..Used-1 \subseteq DOMAIN slots
  <2>1. Used > 0
    BY DEF Used, SummaryInv, ControlInv, HasList, Parsing, Building, Numbered
  <2>2. QED
    BY <2>1, UsedSlots
<1>2. /\ \A i \in 0..Used-1 : slots[i] \in Listed
      /\ \A a \in Listed : \E i \in 0..Used-1 : slots[i] = a
  BY <1>1, UsedSlots
<1>3. {slots[i] : i \in 0..Used-1} = Listed /\ Listed # {}
  BY <1>1, <1>2
<1>4. ASSUME NEW a \in Listed, NEW j \in DOMAIN info[a]
      PROVE  File(info[a][j], a) \in files /\ info[a][j] \in Path
  <2>1. File(info[a][j], a) \in files
    BY <1>4 DEF FilesOfItems, File
  <2>2. QED
    BY <2>1 DEF ItemsTypeOK, File
<1>5. ASSUME NEW a \in Listed PROVE ItemPaths(a) # {} /\ ItemPaths(a) \subseteq Path
  <2>1. DOMAIN info[a] # {}
    <3>1. PICK i \in 0..Used-1 : slots[i] = a
      BY <1>2
    <3>2. i = 0 \/ i \in 1..Used-1
      BY <1>1
    <3>3. QED
      BY <1>1, <3>1, <3>2 DEF NumberInv
  <2>2. QED
    BY <1>4, <2>1 DEF ItemPaths
<1>6. \A a, b \in Listed : desc[a] = desc[b] => a = b
  <2>1. ASSUME NEW i \in 0..Used-1, NEW h \in 0..Used-1, desc[slots[i]] = desc[slots[h]]
        PROVE  slots[i] = slots[h]
    <3>1. ASSUME NEW x \in 0..Used-1, NEW y \in 0..Used-1, x < y
          PROVE  desc[slots[x]] < desc[slots[y]]
      BY <1>1, <3>1 DEF NumberInv
    <3>2. desc[slots[i]] \in Nat
      BY <1>2, ListedAddr DEF ItemsTypeOK
    <3>3. ~(i < h) /\ ~(h < i)
      BY <2>1, <3>1, <3>2
    <3>4. QED
      BY <1>1, <3>3
  <2>2. QED
    BY <1>2, <2>1
<1>7. ASSUME NEW a \in Listed, NEW b \in Listed, NEW p \in ItemPaths(a), p \in ItemPaths(b)
      PROVE  a = b
  <2>1. p[1] = desc[a] /\ p[1] = desc[b]
    BY <1>7, ListedNumbers DEF ItemPaths
  <2>2. QED
    BY <1>6, <2>1
<1>8. {f.path : f \in {g \in files : g.writer \in Listed /\ g.path \in ItemPaths(g.writer)}}
         = UNION {ItemPaths(a) : a \in Listed}
  <2>1. ASSUME NEW a \in Listed, NEW p \in ItemPaths(a)
        PROVE  \E f \in files : f.writer = a /\ f.path = p
    BY <1>4 DEF ItemPaths, File
  <2>2. QED
    BY <2>1
<1>9. QED
  BY <1>3, <1>5, <1>7, <1>8

(* A call ends with an error. *)
LEMMA FailIsLoadFail ==
    ASSUME IInv, NEW c \in Errors, Return(c), pc # "idle", exlist' = exlist
    PROVE  Api!LoadFail
<1>1. exlist = NULL
  BY DEF IInv, ControlInv
<1>2. Shown = {} /\ Readable = {} /\ Shown' = {} /\ Readable' = {}
  BY <1>1 DEF Shown, Readable
<1>3. QED
  BY <1>2 DEF Return, End, Api!LoadFail, Errors

LEMMA ApiStep == IInv /\ DocsInv /\ [Next]_vars => [Api!Next]_(Api!apiVars)
<1> SUFFICES ASSUME IInv, DocsInv, [Next]_vars PROVE Api!Next \/ UNCHANGED Api!apiVars
  OBVIOUS
<1>0. pc # "idle" => exlist = NULL
  BY DEF IInv, ControlInv
<1>1. CASE Load
  <2>1. Shown = {} /\ Readable = {} /\ Shown' = {} /\ Readable' = {} /\ pc = "idle" /\ pc' # "idle"
    BY <1>1 DEF Load, Shown, Readable
  <2>2. Api!Load
    BY <2>1 DEF Api!Load
  <2>3. QED
    BY <2>2 DEF Api!Next
<1>2. CASE LoadReject
  <2>1. /\ Shown = {} /\ Readable = {} /\ Shown' = {} /\ Readable' = {}
        /\ pc = "idle" /\ pc' = "idle" /\ ret' \in Errors
    BY <1>2 DEF LoadReject, Shown, Readable, Errors
  <2>2. Api!LoadReject
    BY <2>1 DEF Api!LoadReject
  <2>3. QED
    BY <2>2 DEF Api!Next
<1>3. CASE Release
  <2>1. pc = "idle" /\ exlist # NULL /\ Shown' = {} /\ Readable' = {} /\ pc' = "idle" /\ ret' = ret
    BY <1>3 DEF Release, Shown, Readable
  <2>2. count > 0 /\ count \in Nat
    BY <2>1 DEF DocsInv, SummaryInv, IInv, TypeOK, CallTypeOK
  <2>3. ItemPaths(slots[0]) \in Shown
    BY <2>1, <2>2 DEF Shown
  <2>4. Api!Release
    BY <2>1, <2>3 DEF Api!Release
  <2>5. QED
    BY <2>4 DEF Api!Next
<1>4. CASE Deliver
  <2>1. /\ pc = "parse" /\ pc' = "idle" /\ ret' = 0 /\ exlist' = list /\ count' = Used
        /\ list # NULL /\ UNCHANGED <<slots, info, files>>
    BY <1>4 DEF Deliver, Handed, Return, End, IInv, ControlInv, HasList, Parsing, Used, items, disk
  <2>2. Shown' = {ItemPaths(a) : a \in Listed}
    <3>1. \A a : ItemPaths(a)' = ItemPaths(a)
      BY <2>1 DEF ItemPaths
    <3>2. Shown' = {ItemPaths(slots[i]) : i \in 0..Used-1}
      BY <2>1, <3>1 DEF Shown
    <3>3. {slots[i] : i \in 0..Used-1} = Listed
      BY <2>1, ListedDocs
    <3>4. QED
      BY <3>2, <3>3
  <2>3. Readable' = {f.path : f \in {g \in files : g.writer \in Listed /\ g.path \in ItemPaths(g.writer)}}
    BY <2>1 DEF Readable, ItemPaths, Listed
  <2>4. Readable' = UNION Shown'
    BY <2>1, <2>2, <2>3, ListedDocs
  <2>5. Shown' # {} /\ (\A d \in Shown' : d # {} /\ d \subseteq Path)
        /\ (\A d, e \in Shown' : d # e => d \cap e = {})
    BY <2>1, <2>2, ListedDocs
  <2>6. Api!LoadOk
    BY <2>1, <2>4, <2>5 DEF Api!LoadOk
  <2>7. QED
    BY <2>6 DEF Api!Next
<1>5. CASE (InitList \/ InitItem \/ InitFile \/ Abort) /\ pc' = "idle"
  <2>1. pc # "idle" /\ exlist' = exlist
    BY <1>5 DEF InitList, InitItem, InitFile, Abort
  <2>2. \E c \in Errors : Return(c)
    <3>1. CASE Abort
      <4>1. ret \in Errors /\ Return(ret)
        BY <3>1 DEF Abort, DocsInv, SummaryInv
      <4>2. QED
        BY <4>1
    <3>2. CASE InitList \/ InitItem \/ InitFile
      <4>1. Return(E_EXC_NOMEM) \/ Return(E_EXC_FOPEN)
        BY <1>5, <3>2 DEF InitList, InitItem, InitFile
      <4>2. QED
        BY <4>1 DEF Errors
    <3>3. QED
      BY <1>5, <3>1, <3>2
  <2>3. Api!LoadFail
    BY <2>1, <2>2, FailIsLoadFail
  <2>4. QED
    BY <2>3 DEF Api!Next
<1>6. CASE pc # "idle" /\ pc' # "idle" /\ exlist' = exlist
  <2>1. Shown = {} /\ Readable = {} /\ Shown' = {} /\ Readable' = {}
    BY <1>0, <1>6 DEF Shown, Readable
  <2>2. QED
    BY <1>6, <2>1 DEF Api!apiVars
<1>7. CASE UNCHANGED vars
  <2>1. UNCHANGED <<pc, ret, exlist, count, slots, info, files>>
    BY <1>7 DEF vars, ctl, caller, items, disk
  <2>2. UNCHANGED <<Shown, Readable>>
    BY <2>1 DEF Shown, Readable, ItemPaths, Listed
  <2>3. QED
    BY <2>1, <2>2 DEF Api!apiVars
<1>8. ASSUME Step, ~Deliver
      PROVE  pc # "idle" /\ exlist' = exlist
             /\ (pc' = "idle" => InitList \/ InitItem \/ InitFile \/ Abort)
  <2>1. CASE InitList \/ InitItem \/ InitFile \/ DupStr \/ ParseBlock \/ Abort \/ AppFound \/ AppNotFound \/ AppDone
    BY <2>1 DEF InitList, InitItem, InitFile, DupStr, ParseBlock, Abort, AppFound, AppNotFound,
                AppFail, AppDone, caller
  <2>2. CASE NewAppItem \/ SetBase \/ SetAnalyse \/ SetStack \/ GetDasm \/ SetADasm
             \/ PushApp \/ OtherBrief \/ OtherLong \/ PushOther
    BY <2>2 DEF NewAppItem, SetBase, SetAnalyse, SetStack, GetDasm, SetADasm, AppFail,
                PushApp, OtherBrief, OtherLong, PushOther, caller
  <2>3. QED
    BY <1>8, <2>1, <2>2 DEF Step
<1>9. QED
  BY <1>1, <1>2, <1>3, <1>4, <1>5, <1>6, <1>7, <1>8 DEF Next

LEMMA ApiInit == Init => Api!Init
BY DEF Init, Api!Init, Shown, Readable

(* Exc_Load and Exc_Release keep the promise of exc_parse.h for every heap  *)
(* and every failure: a successful load shows at least the summary, each    *)
(* document with files of its own that can all be read; a failed one shows  *)
(* nothing; between calls nothing changes, and a release withdraws all.     *)
THEOREM LoadKeepsThePromise == Spec => ImplementsApi
BY ApiInit, ApiStep, DocsAlways, PTL DEF Spec, ImplementsApi, Api!Spec
=============================================================================
