------------------------------ MODULE ExcUiProofs -----------------------------
(***************************************************************************)
(* Theorems about ExcUi, for every set of addresses and files, every       *)
(* allocator and every list the library may return.                        *)
(***************************************************************************)
EXTENDS ExcUi, TLAPS

Below == DOMAIN items \ {rootItem}

(* Every item in use hangs below the root, directly or below a record, and  *)
(* shows a file of the list or the text of the user.                        *)
StructureInv ==
    /\ rootItem \in DOMAIN items /\ DOMAIN items \subseteq Addr
    /\ \A t \in DOMAIN items : items[t].childItems \in Seq(Below)
    /\ \A t \in DOMAIN items : items[t].parentItem \in Addr \cup {NULL}
    /\ items[rootItem].file = NULL
    /\ \A t \in Below : items[t].file \in Listed \cup {exc_orig}
    /\ \A t \in Below :
          \/ t \in Range(items[rootItem].childItems)
          \/ \E b \in Range(items[rootItem].childItems) : t \in Range(items[b].childItems)

(* What SetList has at each of its places. *)
ControlInv ==
    /\ pc \in {"idle", "reset", "load", "message", "orig", "items", "gone"}
    /\ ret \in Errors \cup {0} /\ texts \in Version
    /\ list = <<>> \/ list \in Lists
    /\ added \in 0..Len(list)
    /\ pc \in {"reset", "load", "message", "gone"} => list = <<>>
    /\ pc \in {"reset", "load", "message", "gone", "orig"} => Below = {}

(* What the files and the editors show, and where the view is. *)
ShownInv ==
    /\ disk \in [File -> Version] /\ editors \in [File -> Version]
    /\ \A p \in Listed : p \in Path /\ disk[p] = texts
    /\ \A p \in File : editors[p] # 0 =>
          /\ pc = "idle" /\ editors[p] = disk[p]
          /\ \E t \in Below : items[t].file = p
    /\ current \in Addr \cup {NULL}
    /\ EventLoop => current \in Below \cup {NULL}

IInv == StructureInv /\ ControlInv /\ ShownInv

-----------------------------------------------------------------------------
(* The files of a list of Exc_Load are files of the library. *)
LEMMA ListFiles ==
    ASSUME NEW l \in Lists, NEW i \in DOMAIN l
    PROVE  /\ l[i] \in Seq(Path) /\ Len(l[i]) \in 1..MaxItem
           /\ Range(l[i]) \subseteq Path
<1>1. l \in Seq(Seq(Path)) /\ Len(l[i]) \in 1..MaxItem
  BY ListsAssumption
<1>2. l[i] \in Seq(Path)
  BY <1>1
<1>3. QED
  BY <1>1, <1>2 DEF Range

(* The addresses new returns are free, and apart. *)
LEMMA PickFresh ==
    ASSUME NEW used, used \subseteq Addr, NEW n \in 1..MaxItem, NEW new \in Pick(used, n)
    PROVE  /\ new \in [1..n -> Addr \ used]
           /\ \A i, j \in 1..n : new[i] = new[j] => i = j
<1>1. used \in SUBSET Addr
  OBVIOUS
<1>2. QED
  BY <1>1, UiAssumption

(* Deleting the root deletes every item. *)
LEMMA DeletedAll == StructureInv => Deleted(rootItem) = DOMAIN items
<1> SUFFICES ASSUME StructureInv PROVE Deleted(rootItem) = DOMAIN items
  OBVIOUS
<1>1. \A t \in DOMAIN items : Range(items[t].childItems) \subseteq DOMAIN items
  <2> SUFFICES ASSUME NEW t \in DOMAIN items, NEW n \in DOMAIN items[t].childItems
               PROVE  items[t].childItems[n] \in DOMAIN items
    BY DEF Range
  <2>1. items[t].childItems \in Seq(Below)
    BY DEF StructureInv
  <2>2. QED
    BY <2>1 DEF Below
<1>2. rootItem \in DOMAIN items
  BY DEF StructureInv
<1>3. Deleted(rootItem) \subseteq DOMAIN items
  BY <1>1, <1>2 DEF Deleted
<1>4. DOMAIN items \subseteq Deleted(rootItem)
  BY Zenon DEF StructureInv, Below, Deleted
<1>5. QED
  BY <1>3, <1>4

(* A new root for an empty tree. *)
LEMMA NewRootEmpty ==
    ASSUME StructureInv, NEW new \in Pick(DOMAIN items \ Deleted(rootItem), 1), NewRoot(new[1])
    PROVE  StructureInv' /\ Below' = {} /\ added' = 0
<1>1. DOMAIN items \ Deleted(rootItem) = {}
  BY DeletedAll
<1>2. new[1] \in Addr
  <2>1. 1 \in 1..MaxItem
    BY UiAssumption
  <2>2. new \in [1..1 -> Addr \ (DOMAIN items \ Deleted(rootItem))]
    BY <1>1, <2>1, PickFresh
  <2>3. QED
    BY <2>2
<1>3. items' = [t \in {new[1]} |-> Root] /\ rootItem' = new[1] /\ added' = 0
  <2>1. (DOMAIN items \ Deleted(rootItem)) \cup {new[1]} = {new[1]}
    BY <1>1
  <2>2. QED
    BY <2>1 DEF NewRoot
<1>4. Below' = {}
  BY <1>3 DEF Below
<1>5. <<>> \in Seq(Below')
  OBVIOUS
<1>6. QED
  BY <1>2, <1>3, <1>4, <1>5 DEF StructureInv, Root

(* ResetList leaves an empty list, an empty tree and no editor. *)
LEMMA ResetListEmpties ==
    ASSUME IInv, ResetList
    PROVE  /\ StructureInv' /\ Below' = {} /\ added' = 0 /\ list' = <<>>
           /\ disk' \in [File -> Version] /\ editors' = [p \in File |-> 0]
<1>1. StructureInv' /\ Below' = {} /\ added' = 0
  <2>1. PICK new \in Pick(DOMAIN items \ Deleted(rootItem), 1) : NewRoot(new[1])
    BY DEF ResetList
  <2>2. QED
    BY <2>1, NewRootEmpty DEF IInv
<1>2. list' = <<>> /\ disk' \in [File -> Version]
  <2>1. 0 \in Version
    BY UiAssumption DEF Version
  <2>2. QED
    BY <2>1 DEF ResetList, Exc_Release, IInv, ShownInv
<1>3. editors' = [p \in File |-> 0]
  <2>1. editors' = Closed(DOMAIN items)
    BY DeletedAll DEF ResetList, IInv
  <2>2. \A p \in File : editors[p] # 0 => p \in {items[t].file : t \in DOMAIN items}
    BY DEF IInv, ShownInv, Below
  <2>3. QED
    BY <2>1, <2>2 DEF Closed
<1>4. QED
  BY <1>1, <1>2, <1>3

(* The fields of a new item. *)
LEMMA ChildFields ==
    ASSUME NEW f, NEW a, NEW b
    PROVE  Child(f, a, b).file = f /\ Child(f, a, b).parentItem = a /\ Child(f, a, b).childItems = b
BY DEF Child

(* The rows below an item are its children. *)
LEMMA RowsAreChildren ==
    ASSUME NEW above, NEW S, items[Item(above)].childItems \in Seq(S)
    PROVE  Rows(above) = Range(items[Item(above)].childItems)
<1> DEFINE s == items[Item(above)].childItems
<1>1. Rows(above) = {s[r + 1] : r \in 0..Len(s)-1}
  BY DEF Rows, index, rowCount, child, childCount
<1>2. s \in Seq(S) /\ Len(s) \in Nat /\ DOMAIN s = 1..Len(s)
  OBVIOUS
<1>3. \A n \in DOMAIN s : n - 1 \in 0..Len(s)-1 /\ s[(n - 1) + 1] = s[n]
  BY <1>2
<1>4. \A r \in 0..Len(s)-1 : r + 1 \in DOMAIN s
  BY <1>2
<1>5. Range(s) \subseteq Rows(above)
  BY <1>1, <1>3, Zenon DEF Range
<1>6. Rows(above) \subseteq Range(s)
  BY <1>1, <1>4, Zenon DEF Range
<1>7. QED
  BY <1>5, <1>6

(* The view gets to every item below the root, and to no other. *)
LEMMA IndexesBelow == StructureInv => Indexes = Below
<1> SUFFICES ASSUME StructureInv PROVE Indexes = Below
  OBVIOUS
<1>1. \A t \in DOMAIN items : /\ items[t].childItems \in Seq(Below)
                              /\ Range(items[t].childItems) \subseteq Below
  BY DEF StructureInv, Range
<1>2. rootItem \in DOMAIN items /\ Item(NULL) = rootItem
  BY DEF StructureInv, Item
<1>3. Rows(NULL) = Range(items[rootItem].childItems) /\ Rows(NULL) \subseteq Below
  BY <1>1, <1>2, RowsAreChildren
<1>4. \A t \in Below : Rows(t) = Range(items[t].childItems)
  <2> SUFFICES ASSUME NEW t \in Below PROVE Rows(t) = Range(items[t].childItems)
    OBVIOUS
  <2>1. t \in DOMAIN items /\ t # NULL
    BY UiAssumption DEF StructureInv, Below
  <2>2. Item(t) = t
    BY <2>1 DEF Item
  <2>3. items[Item(t)].childItems \in Seq(Below)
    BY <1>1, <2>1, <2>2
  <2>4. QED
    BY <2>2, <2>3, RowsAreChildren
<1>5. Indexes \subseteq Below
  BY <1>1, <1>3, <1>4 DEF Indexes, Below
<1>6. Below \subseteq Indexes
  <2> SUFFICES ASSUME NEW t \in Below PROVE t \in Indexes
    OBVIOUS
  <2>1. \/ t \in Range(items[rootItem].childItems)
        \/ \E b \in Range(items[rootItem].childItems) : t \in Range(items[b].childItems)
    BY DEF StructureInv
  <2>2. QED
    BY <1>3, <1>4, <2>1 DEF Indexes
<1>7. QED
  BY <1>5, <1>6

(* What a sequence contains once e is appended. *)
LEMMA AppendRange ==
    ASSUME NEW S, NEW s \in Seq(S), NEW e
    PROVE  Range(Append(s, e)) = Range(s) \cup {e}
<1> DEFINE r == Append(s, e)
<1>1. Len(s) \in Nat /\ DOMAIN s = 1..Len(s) /\ DOMAIN r = 1..Len(s)+1
  OBVIOUS
<1>2. r[Len(s)+1] = e /\ \A n \in DOMAIN s : r[n] = s[n]
  OBVIOUS
<1>3. \A n \in DOMAIN r : n \in DOMAIN s \/ n = Len(s)+1
  BY <1>1
<1>4. DOMAIN s \subseteq DOMAIN r /\ Len(s)+1 \in DOMAIN r
  BY <1>1
<1>5. \A x : x \in Range(r) <=> x \in Range(s) \/ x = e
  BY <1>2, <1>3, <1>4, Zenon DEF Range
<1>6. QED
  BY <1>5

(* Adding an item: the root has one more child, it and the items below it   *)
(* are new, each has its file, and everything else stays as it was.         *)
Added(files, new) ==
    /\ new \in [1..Len(files) -> Addr \ DOMAIN items]
    /\ DOMAIN items' = DOMAIN items \cup Range(new)
    /\ \A t \in Below : items'[t] = items[t]
    /\ items'[rootItem].childItems = Append(items[rootItem].childItems, new[1])
    /\ items'[rootItem].file = NULL
    /\ items'[rootItem].parentItem = items[rootItem].parentItem
    /\ \A n \in 1..Len(files) :
          /\ items'[new[n]].file = files[n]
          /\ items'[new[n]].parentItem = Above(new, n)
          /\ items'[new[n]].childItems = IF n = 1 THEN Tail(new) ELSE <<>>

LEMMA AddItemAdds ==
    ASSUME StructureInv, NEW files, files \in Seq(File), Len(files) \in 1..MaxItem,
           AddItem(files)
    PROVE  \E new : Added(files, new)
<1>1. PICK new \in Pick(DOMAIN items, Len(files)) :
        items' = [t \in DOMAIN items \cup Range(new) |->
                    IF t = rootItem
                    THEN Child(items[t].file, items[t].parentItem, Append(items[t].childItems, new[1]))
                    ELSE IF t \in DOMAIN items THEN items[t]
                    ELSE LET j == CHOOSE n \in DOMAIN new : new[n] = t
                         IN  Child(files[j], Above(new, j), IF j = 1 THEN Tail(new) ELSE <<>>)]
  BY DEF AddItem
<1>2. /\ new \in [1..Len(files) -> Addr \ DOMAIN items]
      /\ \A i, j \in 1..Len(files) : new[i] = new[j] => i = j
  <2>1. DOMAIN items \subseteq Addr
    BY DEF StructureInv
  <2>2. QED
    BY <2>1, PickFresh
<1>3. rootItem \in DOMAIN items
  BY DEF StructureInv
<1>4. DOMAIN items' = DOMAIN items \cup Range(new)
  BY <1>1
<1>5. \A t \in Below : items'[t] = items[t]
  BY <1>1 DEF Below
<1>6. /\ items'[rootItem].childItems = Append(items[rootItem].childItems, new[1])
      /\ items'[rootItem].file = NULL
      /\ items'[rootItem].parentItem = items[rootItem].parentItem
  <2>1. items[rootItem].childItems \in Seq(Below) /\ items[rootItem].file = NULL
    BY <1>3 DEF StructureInv
  <2>2. items'[rootItem] = Child(items[rootItem].file, items[rootItem].parentItem,
                                 Append(items[rootItem].childItems, new[1]))
    BY <1>1, <1>3
  <2>3. QED
    BY <2>1, <2>2 DEF Child
<1>7. \A n \in 1..Len(files) :
        items'[new[n]] = Child(files[n], Above(new, n), IF n = 1 THEN Tail(new) ELSE <<>>)
  <2> SUFFICES ASSUME NEW n \in 1..Len(files)
               PROVE  items'[new[n]] = Child(files[n], Above(new, n), IF n = 1 THEN Tail(new) ELSE <<>>)
    OBVIOUS
  <2>1. new[n] \in Range(new) /\ new[n] \notin DOMAIN items /\ new[n] # rootItem
        /\ DOMAIN new = 1..Len(files)
    BY <1>2, <1>3 DEF Range
  <2>2. (CHOOSE m \in DOMAIN new : new[m] = new[n]) = n
    BY <1>2, <2>1
  <2>3. QED
    BY <1>1, <2>1, <2>2
<1>8. \A n \in 1..Len(files) :
        /\ items'[new[n]].file = files[n]
        /\ items'[new[n]].parentItem = Above(new, n)
        /\ items'[new[n]].childItems = IF n = 1 THEN Tail(new) ELSE <<>>
  BY <1>7, ChildFields
<1>9. QED
  BY <1>2, <1>4, <1>5, <1>6, <1>8 DEF Added

(* Adding an item with files of the list, or the text, keeps the tree. *)
LEMMA AddItemKeeps ==
    ASSUME StructureInv, NEW files, files \in Seq(File), Len(files) \in 1..MaxItem,
           Range(files) \subseteq Listed \cup {exc_orig},
           AddItem(files), UNCHANGED <<rootItem, list>>
    PROVE  StructureInv'
<1>1. PICK new : Added(files, new)
  BY AddItemAdds
<1>2. new \in [1..Len(files) -> Addr \ DOMAIN items]
  BY <1>1 DEF Added
<1> DEFINE D == DOMAIN items
           N == Range(new)
<1>3. /\ rootItem \in D /\ D \subseteq Addr /\ N \subseteq Addr /\ N \cap D = {}
      /\ new \in Seq(N) /\ Len(new) = Len(files) /\ new[1] \in N
  BY <1>2 DEF StructureInv, Range
<1>4. DOMAIN items' = D \cup N /\ rootItem' = rootItem /\ Below' = Below \cup N
  BY <1>1, <1>3 DEF Below, Added
<1>5. \A t \in Below : items'[t] = items[t]
  BY <1>1 DEF Added
<1>6. /\ items'[rootItem].childItems = Append(items[rootItem].childItems, new[1])
      /\ items'[rootItem].file = NULL
      /\ items'[rootItem].parentItem = items[rootItem].parentItem
  BY <1>1 DEF Added
<1>8. \A n \in 1..Len(files) :
        /\ items'[new[n]].file = files[n]
        /\ items'[new[n]].parentItem = Above(new, n)
        /\ items'[new[n]].childItems = IF n = 1 THEN Tail(new) ELSE <<>>
  BY <1>1 DEF Added
<1>9. \A t \in DOMAIN items' : \/ t = rootItem \/ t \in Below
                              \/ \E n \in 1..Len(files) : t = new[n]
  BY <1>2, <1>4 DEF Below, Range
<1>10. ASSUME NEW t \in DOMAIN items'
      PROVE  items'[t].childItems \in Seq(Below') /\ items'[t].parentItem \in Addr \cup {NULL}
  <2>1. Seq(Below) \subseteq Seq(Below') /\ Seq(N) \subseteq Seq(Below')
    BY <1>4
  <2>2. CASE t = rootItem
    <3>1. items[rootItem].childItems \in Seq(Below) /\ new[1] \in Below'
      BY <1>3, <1>4 DEF StructureInv
    <3>2. Append(items[rootItem].childItems, new[1]) \in Seq(Below')
      BY <2>1, <3>1
    <3>3. items[rootItem].parentItem \in Addr \cup {NULL}
      BY <1>3 DEF StructureInv
    <3>4. QED
      BY <1>6, <2>2, <3>2, <3>3
  <2>3. CASE t \in Below
    BY <1>5, <2>1, <2>3 DEF StructureInv, Below
  <2>4. CASE \E n \in 1..Len(files) : t = new[n]
    <3>1. PICK n \in 1..Len(files) : t = new[n]
      BY <2>4
    <3>2. Tail(new) \in Seq(N) /\ <<>> \in Seq(N)
      BY <1>3
    <3>3. Above(new, n) \in Addr
      BY <1>2, <1>3, <3>1 DEF Above
    <3>4. items'[t].childItems \in Seq(N)
      BY <1>8, <3>1, <3>2
    <3>5. QED
      BY <1>8, <2>1, <3>1, <3>3, <3>4
  <2>5. QED
    BY <1>9, <2>2, <2>3, <2>4
<1>11. ASSUME NEW t \in Below'
       PROVE  /\ items'[t].file \in Listed \cup {exc_orig}
              /\ \/ t \in Range(items'[rootItem].childItems)
                 \/ \E b \in Range(items'[rootItem].childItems) : t \in Range(items'[b].childItems)
  <2>1. Range(items'[rootItem].childItems) = Range(items[rootItem].childItems) \cup {new[1]}
    <3>1. items[rootItem].childItems \in Seq(Below)
      BY <1>3 DEF StructureInv
    <3>2. QED
      BY <1>6, <3>1, AppendRange
  <2>2. CASE t \in Below
    <3>1. /\ items[t].file \in Listed \cup {exc_orig}
          /\ \/ t \in Range(items[rootItem].childItems)
             \/ \E b \in Range(items[rootItem].childItems) : t \in Range(items[b].childItems)
      BY <2>2 DEF StructureInv
    <3>2. Range(items[rootItem].childItems) \subseteq Below
      BY <1>3 DEF StructureInv, Range
    <3>3. \A b \in Range(items[rootItem].childItems) : items'[b] = items[b]
      BY <1>5, <3>2
    <3>4. QED
      BY <1>5, <2>1, <2>2, <3>1, <3>3
  <2>3. CASE \E n \in 1..Len(files) : t = new[n]
    <3>1. PICK n \in 1..Len(files) : t = new[n]
      BY <2>3
    <3>2. items'[t].file = files[n]
      BY <1>8, <3>1
    <3>3. files[n] \in Listed \cup {exc_orig}
      BY <3>1 DEF Range
    <3>4. CASE n = 1
      BY <2>1, <3>1, <3>2, <3>3, <3>4
    <3>5. CASE n # 1
      <4>1. items'[new[1]].childItems = Tail(new)
        <5>1. 1 \in 1..Len(files)
          BY <3>1
        <5>2. QED
          BY <1>8, <5>1, Zenon
      <4>2. n - 1 \in DOMAIN Tail(new) /\ Tail(new)[n - 1] = new[n]
        BY <1>3, <3>1, <3>5
      <4>3. t \in Range(items'[new[1]].childItems)
        BY <3>1, <4>1, <4>2 DEF Range
      <4>4. QED
        BY <2>1, <3>2, <3>3, <4>3
    <3>6. QED
      BY <3>4, <3>5
  <2>4. t \in DOMAIN items' /\ t # rootItem
    BY <1>4 DEF Below
  <2>5. QED
    BY <1>9, <2>2, <2>3, <2>4
<1>12. Listed' = Listed
  BY DEF Listed
<1>13. QED
  BY <1>3, <1>4, <1>6, <1>10, <1>11, <1>12 DEF StructureInv

-----------------------------------------------------------------------------
LEMMA InitInv == Init => IInv
<1> SUFFICES ASSUME Init PROVE IInv
  OBVIOUS
<1>1. rootItem \in Addr
  <2>1. PICK new \in Pick({}, 1) : rootItem = new[1]
    BY DEF Init
  <2>2. 1 \in 1..MaxItem
    BY UiAssumption
  <2>3. new \in [1..1 -> Addr \ {}]
    BY <2>2, PickFresh
  <2>4. QED
    BY <2>1, <2>3
<1>2. items = [t \in {rootItem} |-> Root] /\ Below = {}
  BY DEF Init, Below
<1>3. StructureInv
  <2>1. <<>> \in Seq(Below)
    OBVIOUS
  <2>2. QED
    BY <1>1, <1>2, <2>1 DEF StructureInv, Root
<1>4. ControlInv
  BY UiAssumption DEF Init, ControlInv, Version
<1>5. ShownInv
  BY UiAssumption DEF Init, ShownInv, Version, Listed, EventLoop
<1>6. QED
  BY <1>3, <1>4, <1>5 DEF IInv

(* What the tree and the list are made of is all StructureInv speaks of. *)
LEMMA StructureSame ==
    ASSUME StructureInv, UNCHANGED <<rootItem, items, list>>
    PROVE  StructureInv' /\ Below' = Below /\ Listed' = Listed
BY DEF StructureInv, Below, Listed

(* SetList and the destructor empty everything that is shown. *)
LEMMA EmptyStep ==
    ASSUME IInv, ResetList, texts' \in Version, UNCHANGED ret, pc' \in {"reset", "gone"},
           current' \in Addr \cup {NULL}
    PROVE  IInv'
<1>1. /\ StructureInv' /\ Below' = {} /\ added' = 0 /\ list' = <<>>
      /\ disk' \in [File -> Version] /\ editors' = [p \in File |-> 0]
  BY ResetListEmpties
<1>2. ControlInv'
  BY <1>1 DEF IInv, ControlInv
<1>3. ShownInv'
  <2>1. Listed' = {}
    BY <1>1 DEF Listed
  <2>2. 0 \in Version
    BY UiAssumption DEF Version
  <2>3. QED
    BY <1>1, <2>1, <2>2 DEF ShownInv, EventLoop
<1>4. QED
  BY <1>1, <1>2, <1>3 DEF IInv

LEMMA InvStep == IInv /\ [Next]_vars => IInv'
<1> SUFFICES ASSUME IInv, [Next]_vars PROVE IInv'
  OBVIOUS
<1>0. StructureInv /\ ControlInv /\ ShownInv
  BY DEF IInv
<1>1. CASE SetList
  <2>1. texts' \in Version
    BY <1>0, <1>1, UiAssumption DEF SetList, ControlInv, Version
  <2>2. QED
    BY <1>0, <1>1, <2>1, EmptyStep DEF SetList, ShownInv
<1>2. CASE Destroy
  BY <1>0, <1>2, EmptyStep DEF Destroy, ControlInv
<1>3. CASE LoadReject
  <2>1. StructureInv' /\ Below' = Below /\ Listed' = Listed
    BY <1>0, <1>3, StructureSame DEF LoadReject, tree
  <2>2. ControlInv'
    BY <1>0, <1>3, <2>1 DEF LoadReject, tree, ControlInv, Errors
  <2>3. ShownInv'
    BY <1>0, <1>3, <2>1 DEF LoadReject, tree, endResetModel, ShownInv
  <2>4. QED
    BY <2>1, <2>2, <2>3 DEF IInv
<1>4. CASE Load
  <2>1. StructureInv' /\ Below' = Below /\ Listed' = Listed
    BY <1>0, <1>4, StructureSame DEF Load, tree
  <2>2. ControlInv'
    BY <1>0, <1>4, <2>1 DEF Load, tree, ControlInv
  <2>3. Listed = {}
    BY <1>0, <1>4 DEF Load, ControlInv, Listed
  <2>4. disk' \in [File -> Version]
    BY <1>0, <1>4, UiAssumption DEF Load, ShownInv, Version
  <2>5. ShownInv'
    BY <1>0, <1>4, <2>1, <2>3, <2>4 DEF Load, tree, ShownInv, EventLoop
  <2>6. QED
    BY <2>1, <2>2, <2>5 DEF IInv
<1>5. CASE LoadOk
  <2>1. Below' = Below /\ Below = {}
    BY <1>0, <1>5 DEF LoadOk, tree, Below, ControlInv
  <2>2. StructureInv'
    BY <1>0, <1>5, <2>1 DEF LoadOk, tree, StructureInv
  <2>3. ControlInv'
    <3>1. added' \in 0..Len(list')
      <4>1. added = 0
        BY <1>0, <1>5 DEF LoadOk, ControlInv
      <4>2. Len(list') \in Nat
        BY <1>5, ListsAssumption DEF LoadOk
      <4>3. QED
        BY <1>5, <4>1, <4>2 DEF LoadOk, tree
    <3>2. QED
      BY <1>0, <1>5, <2>1, <3>1 DEF LoadOk, tree, ControlInv
  <2>4. \A p \in Listed' : p \in Path /\ disk'[p] = texts'
    <3> SUFFICES ASSUME NEW p \in Listed' PROVE p \in Path /\ disk'[p] = texts'
      OBVIOUS
    <3>1. PICK i \in DOMAIN list' : p \in Range(list'[i])
      BY DEF Listed
    <3>2. p \in Path
      BY <1>5, <3>1, ListFiles DEF LoadOk
    <3>3. QED
      BY <1>5, <3>1, <3>2 DEF LoadOk, File
  <2>5. disk' \in [File -> Version]
    BY <1>0, <1>5 DEF LoadOk, ShownInv, ControlInv
  <2>6. ShownInv'
    BY <1>0, <1>5, <2>1, <2>4, <2>5 DEF LoadOk, tree, ShownInv, EventLoop
  <2>7. QED
    BY <2>2, <2>3, <2>6 DEF IInv
<1>6. CASE LoadFail
  <2>1. StructureInv' /\ Below' = Below /\ Listed' = Listed
    BY <1>0, <1>6, StructureSame DEF LoadFail, tree
  <2>2. Listed = {} /\ list = <<>>
    <3>1. list = <<>>
      BY <1>0, <1>6 DEF LoadFail, ControlInv
    <3>2. QED
      BY <3>1 DEF Listed
  <2>3. ControlInv'
    BY <1>0, <1>6, <2>1, <2>2 DEF LoadFail, tree, ControlInv
  <2>4. disk' \in [File -> Version]
    BY <1>0, <1>6 DEF LoadFail, ShownInv, ControlInv
  <2>5. ShownInv'
    BY <1>0, <1>6, <2>1, <2>2, <2>4 DEF LoadFail, tree, endResetModel, ShownInv, EventLoop
  <2>6. QED
    BY <2>1, <2>3, <2>5 DEF IInv
<1>7. CASE WriteOrig
  <2>1. <<exc_orig>> \in Seq(File) /\ Len(<<exc_orig>>) \in 1..MaxItem
    BY UiAssumption DEF File
  <2>2. Range(<<exc_orig>>) \subseteq Listed \cup {exc_orig}
    BY DEF Range
  <2>3. AddItem(<<exc_orig>>) /\ UNCHANGED <<rootItem, list>>
    BY <1>7 DEF WriteOrig
  <2>4. StructureInv'
    BY <1>0, <2>1, <2>2, <2>3, AddItemKeeps
  <2>5. ControlInv'
    BY <1>0, <1>7 DEF WriteOrig, ControlInv
  <2>6. ShownInv'
    <3>1. Listed' = Listed
      BY <2>3 DEF Listed
    <3>2. disk' \in [File -> Version] /\ \A p \in Path : disk'[p] = disk[p]
      BY <1>0, <1>7, UiAssumption DEF WriteOrig, ShownInv, ControlInv, File
    <3>3. QED
      BY <1>0, <1>7, <3>1, <3>2 DEF WriteOrig, ShownInv, EventLoop
  <2>7. QED
    BY <2>4, <2>5, <2>6 DEF IInv
<1>8. CASE AddRecord
  <2>1. list \in Lists /\ added + 1 \in DOMAIN list
    <3>1. list # <<>> /\ added \in Nat
      BY <1>0, <1>8 DEF AddRecord, ControlInv
    <3>2. list \in Lists /\ list \in Seq(Seq(Path))
      BY <1>0, <3>1, ListsAssumption DEF ControlInv
    <3>3. QED
      BY <1>8, <3>1, <3>2 DEF AddRecord
  <2>2. /\ list[added + 1] \in Seq(Path) /\ Len(list[added + 1]) \in 1..MaxItem
    BY <2>1, ListFiles
  <2>3. list[added + 1] \in Seq(File)
    BY <2>2 DEF File
  <2>4. Range(list[added + 1]) \subseteq Listed \cup {exc_orig}
    BY <2>1 DEF Listed
  <2>5. AddItem(list[added + 1]) /\ UNCHANGED <<rootItem, list>>
    BY <1>8 DEF AddRecord, Documents
  <2>6. StructureInv'
    BY <1>0, <2>2, <2>3, <2>4, <2>5, AddItemKeeps
  <2>7. ControlInv'
    <3>1. added' \in 0..Len(list')
      BY <1>0, <1>8 DEF AddRecord, ControlInv
    <3>2. QED
      BY <1>0, <1>8, <3>1 DEF AddRecord, ControlInv
  <2>8. ShownInv'
    <3>1. Listed' = Listed
      BY <2>5 DEF Listed
    <3>2. QED
      BY <1>0, <1>8, <3>1 DEF AddRecord, ShownInv, EventLoop
  <2>9. QED
    BY <2>6, <2>7, <2>8 DEF IInv
<1>9. CASE SetListEnd
  <2>1. StructureInv' /\ Below' = Below /\ Listed' = Listed
    BY <1>0, <1>9, StructureSame DEF SetListEnd, tree
  <2>2. ControlInv'
    BY <1>0, <1>9, <2>1 DEF SetListEnd, tree, ControlInv
  <2>3. ShownInv'
    BY <1>0, <1>9, <2>1 DEF SetListEnd, tree, endResetModel, ShownInv
  <2>4. QED
    BY <2>1, <2>2, <2>3 DEF IInv
<1>10. CASE MessageRead
  <2>1. StructureInv' /\ Below' = Below /\ Listed' = Listed
    BY <1>0, <1>10, StructureSame DEF MessageRead, tree
  <2>2. ControlInv'
    BY <1>0, <1>10, <2>1 DEF MessageRead, tree, ControlInv
  <2>3. ShownInv'
    BY <1>0, <1>10, <2>1 DEF MessageRead, tree, ShownInv, EventLoop
  <2>4. QED
    BY <2>1, <2>2, <2>3 DEF IInv
<1>11. CASE ShowItem
  <2>1. StructureInv' /\ Below' = Below /\ Listed' = Listed
    BY <1>0, <1>11, StructureSame DEF ShowItem, tree
  <2>2. ControlInv'
    BY <1>0, <1>11, <2>1 DEF ShowItem, tree, ControlInv
  <2>3. PICK t \in Indexes : /\ current' = t
                             /\ editors' = IF editors[items[t].file] = 0
                                  THEN [editors EXCEPT ![items[t].file] = disk[items[t].file]]
                                  ELSE editors
    BY <1>11 DEF ShowItem
  <2>4. t \in Below /\ t \in Addr
    BY <1>0, <2>3, IndexesBelow DEF StructureInv, Below
  <2>5. items[t].file \in File
    BY <1>0, <2>4 DEF StructureInv, ShownInv, File
  <2>6. editors' \in [File -> Version]
    BY <1>0, <2>3, <2>5 DEF ShownInv
  <2>7. \A p \in File : editors'[p] # 0 =>
            editors'[p] = disk[p] /\ \E u \in Below : items[u].file = p
    BY <1>0, <2>3, <2>4, <2>5 DEF ShownInv
  <2>8. ShownInv'
    BY <1>0, <1>11, <2>1, <2>3, <2>4, <2>6, <2>7 DEF ShowItem, tree, ShownInv, EventLoop
  <2>9. QED
    BY <2>1, <2>2, <2>8 DEF IInv
<1>12. CASE CloseEditor
  <2>1. StructureInv' /\ Below' = Below /\ Listed' = Listed
    BY <1>0, <1>12, StructureSame DEF CloseEditor, tree
  <2>2. ControlInv'
    BY <1>0, <1>12, <2>1 DEF CloseEditor, tree, ControlInv
  <2>3. PICK q \in File : editors' = [editors EXCEPT ![q] = 0]
    BY <1>12 DEF CloseEditor
  <2>4. ShownInv'
    BY <1>0, <1>12, <2>1, <2>3, UiAssumption DEF CloseEditor, tree, ShownInv, EventLoop, Version
  <2>5. QED
    BY <2>1, <2>2, <2>4 DEF IInv
<1>13. CASE UNCHANGED vars
  <2>1. StructureInv' /\ Below' = Below /\ Listed' = Listed
    BY <1>0, <1>13, StructureSame DEF vars, tree
  <2>2. QED
    BY <1>0, <1>13, <2>1 DEF vars, tree, IInv, ControlInv, ShownInv, EventLoop
<1>14. QED
  BY <1>1, <1>2, <1>3, <1>4, <1>5, <1>6, <1>7, <1>8, <1>9, <1>10, <1>11, <1>12, <1>13 DEF Next

-----------------------------------------------------------------------------
LEMMA Invariance == Spec => []IInv
BY InitInv, InvStep, PTL DEF Spec

(* The values of the variables, in every state the plugin can reach: also   *)
(* with a tree that is deleted and built anew there is always one root.     *)
THEOREM TypeCorrect == Spec => []TypeOK
<1>1. IInv => TypeOK
  <2> SUFFICES ASSUME IInv PROVE TypeOK
    OBVIOUS
  <2>1. \A t \in DOMAIN items : items[t].file \in File \cup {NULL}
    <3>1. Listed \subseteq Path
      BY DEF IInv, ShownInv
    <3>2. QED
      BY <3>1 DEF IInv, StructureInv, Below, File
  <2>2. \A t \in DOMAIN items : items[t].childItems \in Seq(Addr)
    <3>1. Below \subseteq Addr
      BY DEF IInv, StructureInv, Below
    <3>2. QED
      BY <3>1 DEF IInv, StructureInv
  <2>3. QED
    BY <2>1, <2>2 DEF TypeOK, IInv, StructureInv, ControlInv, ShownInv
<1>2. QED
  BY <1>1, Invariance, PTL

(* Whenever the view draws, its current index points to an item in use:     *)
(* endResetModel comes before the message and before SetList returns.       *)
THEOREM ViewAlwaysValid == Spec => []ViewValid
<1>1. IInv => ViewValid
  BY DEF IInv, ShownInv, ViewValid, Below
<1>2. QED
  BY <1>1, Invariance, PTL

(* No editor outlives the text it was opened for: the destructors of the    *)
(* items close all of them before the files are removed and written again.  *)
THEOREM EditorsAlwaysCurrent == Spec => []EditorsCurrent
<1>1. IInv => EditorsCurrent
  <2> SUFFICES ASSUME IInv, NEW p \in File, editors[p] # 0
               PROVE  /\ EventLoop
                      /\ \E t \in Indexes : FileOf(t) = p
                      /\ editors[p] = disk[p]
                      /\ p # exc_orig => editors[p] = texts
    BY DEF EditorsCurrent
  <2>1. PICK t \in Below : items[t].file = p
    BY DEF IInv, ShownInv
  <2>2. pc = "idle" /\ editors[p] = disk[p]
    BY DEF IInv, ShownInv
  <2>3. p \in Listed \cup {exc_orig}
    BY <2>1 DEF IInv, StructureInv
  <2>4. t \in Indexes
    BY <2>1, IndexesBelow DEF IInv
  <2>5. QED
    BY <2>1, <2>2, <2>3, <2>4 DEF IInv, ShownInv, EventLoop, FileOf
<1>2. QED
  BY <1>1, Invariance, PTL

-----------------------------------------------------------------------------
(* What the library's interface sees of the plugin. *)
shown    == {Range(list[i]) : i \in DOMAIN list}
readable == {p \in Listed : disk[p] = texts}

LEMMA EmptyList ==
    ASSUME list = <<>>
    PROVE  shown = {} /\ Listed = {} /\ readable = {}
BY DEF shown, Listed, readable

(* SetList and the destructor release the list, if there is one. *)
LEMMA ResetIsRelease ==
    ASSUME IInv, ResetList, pc = "idle", pc' # "load", UNCHANGED ret
    PROVE  Api!Release \/ UNCHANGED Api!apiVars
<1>1. list' = <<>>
  BY ResetListEmpties
<1>2. shown' = {} /\ readable' = {}
  BY <1>1 DEF shown, Listed, readable
<1>3. CASE list = <<>>
  <2>1. shown = {} /\ readable = {}
    BY <1>3, EmptyList
  <2>2. UNCHANGED Api!apiVars
    BY <1>2, <2>1 DEF Api!apiVars, shown, readable
  <2>3. QED
    BY <2>2
<1>4. CASE list # <<>>
  <2>1. 1 \in DOMAIN list
    <3>1. list \in Seq(Seq(Path)) /\ list # <<>>
      BY <1>4, ListsAssumption DEF IInv, ControlInv
    <3>2. QED
      BY <3>1
  <2>2. shown # {}
    BY <2>1 DEF shown
  <2>3. Api!Release
    BY <1>2, <2>2 DEF Api!Release, shown, readable
  <2>4. QED
    BY <2>3
<1>5. QED
  BY <1>3, <1>4

(* The files of a list are what its items share out among them. *)
LEMMA ListIsApart ==
    ASSUME NEW l \in Lists
    PROVE  /\ {Range(l[i]) : i \in DOMAIN l} # {}
           /\ \A i \in DOMAIN l : Range(l[i]) # {} /\ Range(l[i]) \subseteq Path
           /\ \A i, j \in DOMAIN l : i # j => Range(l[i]) \cap Range(l[j]) = {}
<1>1. l \in Seq(Seq(Path)) /\ l # <<>>
  BY ListsAssumption
<1>2. 1 \in DOMAIN l
  BY <1>1
<1>3. \A i \in DOMAIN l : Range(l[i]) # {} /\ Range(l[i]) \subseteq Path
  <2> SUFFICES ASSUME NEW i \in DOMAIN l
               PROVE  Range(l[i]) # {} /\ Range(l[i]) \subseteq Path
    OBVIOUS
  <2>1. l[i] \in Seq(Path) /\ Len(l[i]) \in 1..MaxItem /\ Range(l[i]) \subseteq Path
    BY ListFiles
  <2>2. 1 \in DOMAIN l[i]
    BY <2>1
  <2>3. QED
    BY <2>1, <2>2 DEF Range
<1>4. \A i, j \in DOMAIN l : i # j => Range(l[i]) \cap Range(l[j]) = {}
  BY ListsAssumption DEF Range
<1>5. QED
  BY <1>2, <1>3, <1>4

LEMMA ApiStep == IInv /\ [Next]_vars => [Api!Next]_(Api!apiVars)
<1> SUFFICES ASSUME IInv, [Next]_vars PROVE Api!Next \/ UNCHANGED Api!apiVars
  OBVIOUS
<1>0. StructureInv /\ ControlInv /\ ShownInv
  BY DEF IInv
<1>1. CASE SetList
  <2>1. ResetList /\ pc = "idle" /\ pc' # "load" /\ UNCHANGED ret
    BY <1>1 DEF SetList
  <2>2. QED
    BY <2>1, ResetIsRelease DEF Api!Next
<1>2. CASE Destroy
  <2>1. ResetList /\ pc = "idle" /\ pc' # "load" /\ UNCHANGED ret
    BY <1>2 DEF Destroy
  <2>2. QED
    BY <2>1, ResetIsRelease DEF Api!Next
<1>3. CASE LoadReject
  <2>1. list = <<>> /\ UNCHANGED <<list, disk, texts>>
    BY <1>0, <1>3 DEF LoadReject, ControlInv
  <2>2. Api!LoadReject
    BY <1>3, <2>1 DEF LoadReject, Api!LoadReject, Errors, Listed
  <2>3. QED
    BY <2>2 DEF Api!Next
<1>4. CASE Load
  <2>1. list = <<>> /\ list' = <<>>
    BY <1>0, <1>4 DEF Load, ControlInv
  <2>2. shown = {} /\ shown' = {} /\ readable = {} /\ readable' = {}
    BY <2>1 DEF shown, Listed, readable
  <2>3. Api!Load
    BY <1>4, <2>2 DEF Load, Api!Load, shown, readable
  <2>4. QED
    BY <2>3 DEF Api!Next
<1>5. CASE LoadOk
  <2>1. list' \in Lists
    BY <1>5 DEF LoadOk
  <2>2. /\ shown' # {}
        /\ \A d \in shown' : d # {} /\ d \subseteq Path
        /\ \A d, e \in shown' : d # e => d \cap e = {}
    BY <2>1, ListIsApart DEF shown
  <2>3. readable' = UNION shown'
    <3>1. \A p \in Listed' : p \in Path /\ disk'[p] = texts'
      BY InvStep DEF IInv, ShownInv
    <3>2. QED
      BY <3>1 DEF readable, shown, Listed
  <2>4. Api!LoadOk
    BY <1>5, <2>2, <2>3 DEF LoadOk, Api!LoadOk, shown, readable
  <2>5. QED
    BY <2>4 DEF Api!Next
<1>6. CASE LoadFail
  <2>1. list = <<>> /\ list' = <<>>
    BY <1>0, <1>6 DEF LoadFail, ControlInv
  <2>2. shown = {} /\ shown' = {} /\ readable = {} /\ readable' = {}
    BY <2>1 DEF shown, Listed, readable
  <2>3. Api!LoadFail
    BY <1>6, <2>2 DEF LoadFail, Api!LoadFail, shown, readable
  <2>4. QED
    BY <2>3 DEF Api!Next
<1>7. CASE WriteOrig
  <2>1. UNCHANGED <<list, texts, ret>> /\ pc # "load" /\ pc' # "load"
    BY <1>7 DEF WriteOrig
  <2>2. \A p \in Listed : disk'[p] = disk[p]
    BY <1>0, <1>7, UiAssumption DEF WriteOrig, ShownInv, File
  <2>3. readable' = readable /\ shown' = shown
    BY <2>1, <2>2 DEF readable, shown, Listed
  <2>4. UNCHANGED Api!apiVars
    BY <2>1, <2>3 DEF Api!apiVars, shown, readable
  <2>5. QED
    BY <2>4
<1>8. CASE AddRecord \/ SetListEnd \/ MessageRead \/ ShowItem \/ CloseEditor \/ UNCHANGED vars
  <2>1. UNCHANGED <<list, texts, ret, disk>> /\ (pc' = "load" <=> pc = "load")
    BY <1>8 DEF AddRecord, SetListEnd, MessageRead, ShowItem, CloseEditor, vars
  <2>2. UNCHANGED Api!apiVars
    BY <2>1 DEF Api!apiVars, Listed
  <2>3. QED
    BY <2>2
<1>9. QED
  BY <1>1, <1>2, <1>3, <1>4, <1>5, <1>6, <1>7, <1>8 DEF Next

LEMMA ApiInit == Init => Api!Init
<1> SUFFICES ASSUME Init PROVE Api!Init
  OBVIOUS
<1>1. list = <<>> /\ ret = 0 /\ pc # "load"
  BY DEF Init
<1>2. shown = {} /\ readable = {}
  BY <1>1, EmptyList
<1>3. QED
  BY <1>1, <1>2 DEF Api!Init, shown, readable

(* The plugin is a caller as the interface of the library wants it, and     *)
(* sees what it promises: the calls of SetList and of the destructor are    *)
(* steps of ExcApi, all else leaves the list and its files alone.           *)
THEOREM PluginCallsAsPromised == Spec => CallsAsPromised
<1>1. Spec => []IInv
  BY Invariance
<1>2. QED
  BY <1>1, ApiInit, ApiStep, PTL DEF Spec, CallsAsPromised, Api!Spec

-----------------------------------------------------------------------------
(* The rows of the tree.  The first below the root is the text of the user, *)
(* the others are the items of the list placed so far, in their order; a    *)
(* row has the first document of its item and the others below it.          *)
Records == items[rootItem].childItems
Doc(k)  == IF k = 1 THEN <<exc_orig>> ELSE list[k - 1]
Placed  == IF pc = "items" \/ (pc = "idle" /\ list # <<>>) THEN added + 1 ELSE 0

RowShown(c, file, above) ==
    items[c].file = file /\ items[c].parentItem = above /\ items[c].childItems = <<>>
RecordShown(k) ==
    /\ items[Records[k]].file = Doc(k)[1]
    /\ items[Records[k]].parentItem = rootItem
    /\ Len(items[Records[k]].childItems) = Len(Doc(k)) - 1
    /\ \A m \in 1..Len(Doc(k))-1 :
          RowShown(items[Records[k]].childItems[m], Doc(k)[m + 1], Records[k])

TreeInv ==
    /\ Len(Records) = Placed
    /\ \A k \in 1..Placed : RecordShown(k)
    /\ pc = "idle" => added = Len(list)
    /\ pc \in {"orig", "items"} => list \in Lists
    /\ pc = "orig" => added = 0
    /\ pc \in {"load", "orig", "items"} \/ list # <<>> => ret = 0

(* The documents of the rows: the files of a list and the text. *)
LEMMA Documented ==
    ASSUME ControlInv, TreeInv
    PROVE  /\ Placed \in Nat
           /\ \A k \in 1..Placed : Doc(k) \in Seq(File) /\ Len(Doc(k)) \in 1..MaxItem
           /\ \A k, h \in 1..Placed : \A m \in 1..Len(Doc(k)), n \in 1..Len(Doc(h)) :
                 Doc(k)[m] = Doc(h)[n] => k = h /\ m = n
<1>1. CASE Placed = 0
  <2>1. Placed \in Nat /\ 1..Placed = {}
    BY <1>1
  <2>2. QED
    BY <2>1
<1>2. CASE Placed # 0
  <2>1. list \in Lists /\ Placed = added + 1 /\ added \in 0..Len(list)
    BY <1>2 DEF Placed, TreeInv, ControlInv
  <2>2. list \in Seq(Seq(Path)) /\ Len(list) \in Nat /\ DOMAIN list = 1..Len(list)
    BY <2>1, ListsAssumption
  <2>3. Placed \in Nat /\ \A k \in 1..Placed : k = 1 \/ k - 1 \in DOMAIN list
    BY <2>1, <2>2
  <2>4. ASSUME NEW k \in 1..Placed
        PROVE  Doc(k) \in Seq(File) /\ Len(Doc(k)) \in 1..MaxItem
    <3>1. CASE k = 1
      <4>1. Doc(k) = <<exc_orig>>
        BY <3>1 DEF Doc
      <4>2. exc_orig \in File /\ 1 \in 1..MaxItem
        BY UiAssumption DEF File
      <4>3. QED
        BY <4>1, <4>2
    <3>2. CASE k # 1
      <4>1. k - 1 \in DOMAIN list /\ Doc(k) = list[k - 1]
        BY <2>3, <3>2 DEF Doc
      <4>2. list[k - 1] \in Seq(Path) /\ Len(list[k - 1]) \in 1..MaxItem
        BY <2>1, <4>1, ListFiles
      <4>3. Seq(Path) \subseteq Seq(File)
        BY DEF File
      <4>4. QED
        BY <4>1, <4>2, <4>3
    <3>3. QED
      BY <3>1, <3>2
  <2>5. ASSUME NEW k \in 1..Placed, k # 1, NEW m \in 1..Len(Doc(k))
        PROVE  /\ k - 1 \in DOMAIN list /\ Doc(k) = list[k - 1] /\ m \in DOMAIN list[k - 1]
               /\ Doc(k)[m] \in Path /\ Doc(k)[m] # exc_orig
    <3>1. k - 1 \in DOMAIN list /\ Doc(k) = list[k - 1]
      BY <2>3, <2>5 DEF Doc
    <3>2. list[k - 1] \in Seq(Path)
      BY <2>1, <3>1, ListFiles
    <3>3. m \in DOMAIN list[k - 1] /\ list[k - 1][m] \in Path
      BY <2>5, <3>1, <3>2
    <3>4. QED
      BY <3>1, <3>3, UiAssumption
  <2>6. ASSUME NEW k \in 1..Placed, k = 1, NEW m \in 1..Len(Doc(k))
        PROVE  m = 1 /\ Doc(k)[m] = exc_orig
    BY <2>6 DEF Doc
  <2>7. ASSUME NEW k \in 1..Placed, NEW h \in 1..Placed,
               NEW m \in 1..Len(Doc(k)), NEW n \in 1..Len(Doc(h)), Doc(k)[m] = Doc(h)[n]
        PROVE  k = h /\ m = n
    <3>1. CASE k = 1 /\ h = 1
      BY <2>6, <3>1
    <3>2. CASE k # 1 /\ h # 1
      <4>1. \A i, j \in DOMAIN list : \A a \in DOMAIN list[i], b \in DOMAIN list[j] :
              list[i][a] = list[j][b] => i = j /\ a = b
        BY <2>1, ListsAssumption
      <4>2. k - 1 = h - 1 /\ m = n
        BY <2>5, <2>7, <3>2, <4>1
      <4>3. QED
        BY <4>2
    <3>3. CASE (k = 1 /\ h # 1) \/ (k # 1 /\ h = 1)
      BY <2>5, <2>6, <2>7, <3>3
    <3>4. QED
      BY <3>1, <3>2, <3>3
  <2>8. QED
    BY <2>3, <2>4, <2>7
<1>3. QED
  BY <1>1, <1>2

(* The items below the root are the rows of the tree. *)
LEMMA Positions ==
    ASSUME StructureInv, ControlInv, TreeInv, NEW t \in Below
    PROVE  \/ \E k \in 1..Placed :
                 t = Records[k] /\ items[t].file = Doc(k)[1] /\ items[t].parentItem = rootItem
           \/ \E k \in 1..Placed : \E m \in 1..Len(items[Records[k]].childItems) :
                 /\ t = items[Records[k]].childItems[m] /\ m + 1 \in 1..Len(Doc(k))
                 /\ items[t].file = Doc(k)[m + 1] /\ items[t].parentItem = Records[k]
<1>1. /\ Records \in Seq(Below) /\ Range(Records) \subseteq Below
      /\ Len(Records) = Placed /\ DOMAIN Records = 1..Placed
  BY DEF StructureInv, Records, TreeInv, Range
<1>2. CASE t \in Range(Records)
  <2>1. PICK k \in 1..Placed : t = Records[k]
    BY <1>1, <1>2 DEF Range
  <2>2. QED
    BY <2>1 DEF TreeInv, RecordShown
<1>3. CASE t \notin Range(Records)
  <2>0. PICK b \in Range(Records) : t \in Range(items[b].childItems)
    BY <1>3 DEF StructureInv, Records
  <2>1. PICK k \in 1..Placed : t \in Range(items[Records[k]].childItems)
    BY <1>1, <2>0 DEF Range
  <2>2. items[Records[k]].childItems \in Seq(Below)
    BY <1>1, <2>1 DEF StructureInv, Below
  <2>3. PICK m \in 1..Len(items[Records[k]].childItems) : t = items[Records[k]].childItems[m]
    BY <2>1, <2>2 DEF Range
  <2>4. RecordShown(k) /\ Len(Doc(k)) \in Nat
    BY Documented DEF TreeInv
  <2>5. m \in 1..Len(Doc(k))-1 /\ m + 1 \in 1..Len(Doc(k))
    BY <2>3, <2>4 DEF RecordShown
  <2>6. QED
    BY <2>3, <2>4, <2>5 DEF RecordShown, RowShown
<1>4. QED
  BY <1>2, <1>3

(* Every index leads back to itself: an item is among the children of its   *)
(* parent, and row finds it there. *)
LEMMA RowFindsItem ==
    ASSUME NEW t, NEW u, items[t].parentItem = u, u # NULL,
           NEW S, items[u].childItems \in Seq(S),
           NEW n \in 1..Len(items[u].childItems), t = items[u].childItems[n]
    PROVE  row(t) \in 0..childCount(u)-1 /\ child(u, row(t)) = t
<1>1. Len(items[u].childItems) \in Nat
  OBVIOUS
<1>2. n - 1 \in 0..childCount(u)-1 /\ (n - 1) + 1 = n
  BY <1>1 DEF childCount
<1>3. child(u, n - 1) = t
  BY <1>2 DEF child
<1>4. row(t) = CHOOSE r \in 0..childCount(u)-1 : child(u, r) = t
  BY DEF row
<1>5. QED
  BY <1>2, <1>3, <1>4

LEMMA IndexesAreRows ==
    ASSUME StructureInv, ControlInv, TreeInv PROVE IndexesLeadBack
<1>1. Indexes = Below
  BY IndexesBelow
<1>2. DOMAIN items = Indexes \cup {rootItem} /\ rootItem \notin Indexes
  BY <1>1 DEF Below, StructureInv
<1>3. /\ Records \in Seq(Below) /\ Range(Records) \subseteq Below
      /\ Len(Records) = Placed /\ DOMAIN Records = 1..Placed
  BY DEF StructureInv, Records, TreeInv, Range
<1>4. Item(NULL) = rootItem /\ rootItem # NULL /\ NULL \notin Below
  BY UiAssumption DEF Item, StructureInv, Below
<1>5. Rows(NULL) = Range(Records)
  BY <1>3, <1>4, RowsAreChildren DEF Records
<1>6. ASSUME NEW t \in Below
      PROVE  /\ parent(t) \in Rows(NULL) \cup {NULL}
             /\ row(t) \in 0..rowCount(parent(t))-1
             /\ index(row(t), parent(t)) = t
  <2>1. CASE \E k \in 1..Placed : t = Records[k] /\ items[t].parentItem = rootItem
    <3>1. PICK k \in 1..Placed : t = Records[k] /\ items[t].parentItem = rootItem
      BY <2>1
    <3>2. row(t) \in 0..childCount(rootItem)-1 /\ child(rootItem, row(t)) = t
      BY <1>3, <1>4, <3>1, RowFindsItem DEF Records
    <3>3. parent(t) = NULL
      BY <3>1 DEF parent
    <3>4. QED
      BY <1>4, <3>2, <3>3 DEF rowCount, index
  <2>2. CASE \E k \in 1..Placed : \E m \in 1..Len(items[Records[k]].childItems) :
               t = items[Records[k]].childItems[m] /\ items[t].parentItem = Records[k]
    <3>0. PICK k \in 1..Placed : \E m \in 1..Len(items[Records[k]].childItems) :
            t = items[Records[k]].childItems[m] /\ items[t].parentItem = Records[k]
      BY <2>2
    <3>1. PICK m \in 1..Len(items[Records[k]].childItems) :
            t = items[Records[k]].childItems[m] /\ items[t].parentItem = Records[k]
      BY <3>0
    <3>2. Records[k] \in Below /\ Records[k] \in Rows(NULL)
      BY <1>3, <1>5 DEF Range
    <3>3. items[Records[k]].childItems \in Seq(Below) /\ Records[k] # NULL /\ Records[k] # rootItem
      BY <1>4, <3>2 DEF StructureInv, Below
    <3>4. row(t) \in 0..childCount(Records[k])-1 /\ child(Records[k], row(t)) = t
      BY <3>1, <3>3, RowFindsItem
    <3>5. parent(t) = Records[k] /\ Item(Records[k]) = Records[k]
      BY <3>1, <3>3 DEF parent, Item
    <3>6. QED
      BY <3>2, <3>4, <3>5 DEF rowCount, index
  <2>3. QED
    BY <2>1, <2>2, Positions
<1>7. QED
  BY <1>1, <1>2, <1>6 DEF IndexesLeadBack

(* Functions on 1..n are sequences; the tail of a sequence. *)
LEMMA SeqOfFunction ==
    ASSUME NEW n \in Nat, NEW S, NEW f \in [1..n -> S]
    PROVE  f \in Seq(S) /\ Len(f) = n
OBVIOUS

LEMMA SeqIsFunction ==
    ASSUME NEW S, NEW s \in Seq(S)
    PROVE  s = [m \in 1..Len(s) |-> s[m]]
OBVIOUS

LEMMA TailIs ==
    ASSUME NEW S, NEW s \in Seq(S), Len(s) > 0
    PROVE  Tail(s) = [m \in 1..Len(s)-1 |-> s[m + 1]]
<1>1. Tail(s) \in Seq(S) /\ Len(Tail(s)) = Len(s) - 1
  <2>1. s # <<>> /\ Len(s) \in Nat
    OBVIOUS
  <2>2. Tail(s) \in Seq(S)
    BY <2>1
  <2>3. Len(Tail(s)) = Len(s) - 1
    BY <2>1
  <2>4. QED
    BY <2>2, <2>3
<1>2. Tail(s) = [m \in 1..Len(s)-1 |-> Tail(s)[m]]
  BY <1>1, SeqIsFunction
<1>3. \A m \in 1..Len(s)-1 : Tail(s)[m] = s[m + 1]
  OBVIOUS
<1>4. QED
  BY <1>2, <1>3

(* The tree has the documents of the list, in its order, each once. *)
LEMMA FilesBelowRow ==
    ASSUME NEW t, NEW S, items[t].childItems \in Seq(S)
    PROVE  FilesBelow(t) = [r \in 1..Len(items[t].childItems) |-> items[items[t].childItems[r]].file]
<1>1. Len(items[t].childItems) \in Nat
  OBVIOUS
<1>2. \A r \in 1..Len(items[t].childItems) : (r - 1) + 1 = r
  BY <1>1
<1>3. \A r \in 1..Len(items[t].childItems) : FileOf(child(t, r - 1)) = items[items[t].childItems[r]].file
  BY <1>2 DEF FileOf, child
<1>4. QED
  BY <1>3 DEF FilesBelow, childCount

LEMMA TreeIsList ==
    ASSUME StructureInv, ControlInv, TreeInv PROVE TreeShowsList
<1> SUFFICES ASSUME EventLoop
             PROVE  /\ FilesBelow(rootItem) =
                          IF list = <<>> THEN <<>>
                          ELSE <<exc_orig>> \o [i \in DOMAIN list |-> list[i][1]]
                    /\ \A i \in DOMAIN list : FilesBelow(child(rootItem, i)) = Tail(list[i])
                    /\ \A t, u \in Indexes : FileOf(t) = FileOf(u) => t = u
                    /\ ret # 0 => list = <<>>
  BY DEF TreeShowsList
<1>1. /\ Records \in Seq(Below) /\ Range(Records) \subseteq Below
      /\ Len(Records) = Placed /\ DOMAIN Records = 1..Placed
  BY DEF StructureInv, Records, TreeInv, Range
<1>2. Placed = IF list = <<>> THEN 0 ELSE Len(list) + 1
  BY DEF Placed, EventLoop, TreeInv, ControlInv
<1>3. FilesBelow(rootItem) = [r \in 1..Placed |-> Doc(r)[1]]
  <2>1. FilesBelow(rootItem) = [r \in 1..Placed |-> items[Records[r]].file]
    BY <1>1, FilesBelowRow DEF Records
  <2>2. \A r \in 1..Placed : items[Records[r]].file = Doc(r)[1]
    BY DEF TreeInv, RecordShown
  <2>3. QED
    BY <2>1, <2>2
<1>4. CASE list = <<>>
  <2>1. Placed = 0 /\ 1..0 = {} /\ DOMAIN list = {}
    BY <1>2, <1>4
  <2>2. FilesBelow(rootItem) = <<>>
    BY <1>3, <2>1
  <2>3. Below = {}
    BY <2>1, Positions
  <2>4. Indexes = {}
    BY <2>3, IndexesBelow
  <2>5. QED
    BY <1>4, <2>1, <2>2, <2>4
<1>5. CASE list # <<>>
  <2>1. /\ list \in Lists /\ list \in Seq(Seq(Path)) /\ Len(list) \in Nat
        /\ DOMAIN list = 1..Len(list) /\ Placed = Len(list) + 1
    BY <1>2, <1>5, ListsAssumption DEF ControlInv
  <2>2. FilesBelow(rootItem) = <<exc_orig>> \o [i \in DOMAIN list |-> list[i][1]]
    <3> DEFINE firsts == [i \in 1..Len(list) |-> list[i][1]]
               all    == <<exc_orig>> \o firsts
               S      == {list[i][1] : i \in 1..Len(list)}
    <3>0. firsts \in [1..Len(list) -> S] /\ \A r \in 1..Len(list) : firsts[r] = list[r][1]
      OBVIOUS
    <3> HIDE DEF firsts, S
    <3>1. firsts \in Seq(S) /\ Len(firsts) = Len(list)
      BY <2>1, <3>0, SeqOfFunction
    <3>2. DOMAIN all = 1..Placed /\ all[1] = exc_orig
          /\ \A r \in 1..Placed : r # 1 => r - 1 \in 1..Len(list) /\ all[r] = firsts[r - 1]
      BY <2>1, <3>1
    <3>3. all = [r \in 1..Placed |-> all[r]]
      BY <2>1, <3>1, <3>2
    <3>4. \A r \in 1..Placed : all[r] = Doc(r)[1]
      BY <3>0, <3>2 DEF Doc
    <3>5. QED
      BY <1>3, <2>1, <3>3, <3>4 DEF firsts
  <2>3. ASSUME NEW i \in DOMAIN list
        PROVE  FilesBelow(child(rootItem, i)) = Tail(list[i])
    <3>1. i + 1 \in 1..Placed /\ Doc(i + 1) = list[i] /\ child(rootItem, i) = Records[i + 1]
      BY <2>1 DEF Doc, child, Records
    <3>2. list[i] \in Seq(Path) /\ Len(list[i]) \in 1..MaxItem
      BY <2>1, ListFiles
    <3>3. RecordShown(i + 1) /\ Records[i + 1] \in Below
      BY <1>1, <3>1 DEF TreeInv, Range
    <3> DEFINE s == items[Records[i + 1]].childItems
    <3>4. s \in Seq(Below) /\ Len(s) = Len(list[i]) - 1
      BY <3>1, <3>3 DEF StructureInv, Below, RecordShown
    <3>5. \A m \in 1..Len(s) : items[s[m]].file = list[i][m + 1]
      BY <3>1, <3>3, <3>4 DEF RecordShown, RowShown
    <3>6. FilesBelow(Records[i + 1]) = [m \in 1..Len(s) |-> list[i][m + 1]]
      <4>1. FilesBelow(Records[i + 1]) = [m \in 1..Len(s) |-> items[s[m]].file]
        BY <3>4, FilesBelowRow
      <4>2. QED
        BY <3>5, <4>1
    <3>7. Tail(list[i]) = [m \in 1..Len(s) |-> list[i][m + 1]]
      BY <3>2, <3>4, TailIs
    <3>8. QED
      BY <3>1, <3>6, <3>7
  <2>4. ASSUME NEW t \in Below, NEW u \in Below, items[t].file = items[u].file
        PROVE  t = u
    <3> DEFINE At(k, m) == IF m = 1 THEN Records[k] ELSE items[Records[k]].childItems[m - 1]
    <3>1. ASSUME NEW v \in Below
          PROVE  \E k \in 1..Placed : \E m \in 1..Len(Doc(k)) :
                    v = At(k, m) /\ items[v].file = Doc(k)[m]
      <4>1. CASE \E k \in 1..Placed : v = Records[k] /\ items[v].file = Doc(k)[1]
        <5>1. PICK k \in 1..Placed : v = Records[k] /\ items[v].file = Doc(k)[1]
          BY <4>1
        <5>2. 1 \in 1..Len(Doc(k))
          BY Documented
        <5>3. QED
          BY <5>1, <5>2
      <4>2. CASE \E k \in 1..Placed : \E m \in 1..Len(items[Records[k]].childItems) :
                   /\ v = items[Records[k]].childItems[m] /\ m + 1 \in 1..Len(Doc(k))
                   /\ items[v].file = Doc(k)[m + 1]
        <5>1. PICK k \in 1..Placed : \E m \in 1..Len(items[Records[k]].childItems) :
                   /\ v = items[Records[k]].childItems[m] /\ m + 1 \in 1..Len(Doc(k))
                   /\ items[v].file = Doc(k)[m + 1]
          BY <4>2
        <5>2. PICK m \in 1..Len(items[Records[k]].childItems) :
                   /\ v = items[Records[k]].childItems[m] /\ m + 1 \in 1..Len(Doc(k))
                   /\ items[v].file = Doc(k)[m + 1]
          BY <5>1
        <5>3. v = At(k, m + 1)
          BY <5>2
        <5>4. QED
          BY <5>2, <5>3
      <4>3. QED
        BY <4>1, <4>2, Positions
    <3> HIDE DEF At
    <3>2. PICK k \in 1..Placed : \E m \in 1..Len(Doc(k)) : t = At(k, m) /\ items[t].file = Doc(k)[m]
      BY <3>1
    <3>3. PICK h \in 1..Placed : \E n \in 1..Len(Doc(h)) : u = At(h, n) /\ items[u].file = Doc(h)[n]
      BY <3>1
    <3>4. QED
      BY <2>4, <3>2, <3>3, Documented
  <2>5. \A t, u \in Indexes : FileOf(t) = FileOf(u) => t = u
    BY <2>4, IndexesBelow DEF FileOf
  <2>6. ret = 0
    BY <1>5 DEF TreeInv
  <2>7. QED
    BY <1>5, <2>2, <2>3, <2>5, <2>6
<1>6. QED
  BY <1>4, <1>5

(* Adding an item makes one more row, and leaves the others as they are. *)
LEMMA RowAdded ==
    ASSUME StructureInv, NEW n \in Nat, Len(Records) = n, \A k \in 1..n : RecordShown(k),
           Doc(n + 1) \in Seq(File), Len(Doc(n + 1)) \in 1..MaxItem,
           AddItem(Doc(n + 1)), UNCHANGED <<rootItem, list>>
    PROVE  Len(Records') = n + 1 /\ \A k \in 1..n+1 : RecordShown(k)'
<1> DEFINE files == Doc(n + 1)
<1>1. PICK new : Added(files, new)
  BY AddItemAdds
<1>2. /\ new \in [1..Len(files) -> Addr \ DOMAIN items] /\ Len(files) \in Nat /\ Len(files) > 0
      /\ \A t \in Below : items'[t] = items[t]
      /\ items'[rootItem].childItems = Append(Records, new[1])
      /\ \A m \in 1..Len(files) :
            /\ items'[new[m]].file = files[m]
            /\ items'[new[m]].parentItem = Above(new, m)
            /\ items'[new[m]].childItems = IF m = 1 THEN Tail(new) ELSE <<>>
  BY <1>1 DEF Added, Records
<1>3. Records \in Seq(Below) /\ DOMAIN Records = 1..n
  BY DEF StructureInv, Records
<1>4. Records' = Append(Records, new[1])
  BY <1>2 DEF Records
<1>5. Len(Records') = n + 1 /\ Records'[n + 1] = new[1] /\ \A k \in 1..n : Records'[k] = Records[k]
  BY <1>3, <1>4
<1>6. \A k : Doc(k)' = Doc(k)
  BY DEF Doc
<1>7. ASSUME NEW k \in 1..n
      PROVE  RecordShown(k)'
  <2>1. RecordShown(k) /\ Records[k] \in Below /\ Records'[k] = Records[k]
    BY <1>3, <1>5
  <2>2. items'[Records[k]] = items[Records[k]]
    BY <1>2, <2>1
  <2>3. items[Records[k]].childItems \in Seq(Below)
    BY <2>1 DEF StructureInv, Below
  <2>4. ASSUME NEW m \in 1..Len(Doc(k))-1
        PROVE  RowShown(items[Records[k]].childItems[m], Doc(k)[m + 1], Records[k])'
    <3>1. m \in 1..Len(items[Records[k]].childItems)
      BY <2>1 DEF RecordShown
    <3>2. items[Records[k]].childItems[m] \in Below
      BY <2>3, <3>1
    <3>3. RowShown(items[Records[k]].childItems[m], Doc(k)[m + 1], Records[k])
      BY <2>1 DEF RecordShown
    <3>4. items'[items[Records[k]].childItems[m]] = items[items[Records[k]].childItems[m]]
      BY <1>2, <3>2
    <3>5. QED
      BY <1>6, <2>1, <2>2, <3>3, <3>4 DEF RowShown
  <2>5. QED
    BY <1>6, <2>1, <2>2, <2>4 DEF RecordShown
<1>8. RecordShown(n + 1)'
  <2>1. 1 \in 1..Len(files) /\ new \in Seq(Addr) /\ Len(new) = Len(files)
    BY <1>2
  <2>2. /\ items'[new[1]].file = files[1] /\ items'[new[1]].parentItem = rootItem
        /\ items'[new[1]].childItems = Tail(new)
    BY <1>2, <2>1 DEF Above
  <2>3. Tail(new) = [m \in 1..Len(files)-1 |-> new[m + 1]]
    BY <1>2, <2>1, TailIs
  <2>4. Len(Tail(new)) = Len(files) - 1
    BY <1>2, <2>1
  <2>5. ASSUME NEW m \in 1..Len(files)-1
        PROVE  /\ items'[Tail(new)[m]].file = files[m + 1]
               /\ items'[Tail(new)[m]].parentItem = new[1]
               /\ items'[Tail(new)[m]].childItems = <<>>
    <3>1. m + 1 \in 1..Len(files) /\ m + 1 # 1 /\ Tail(new)[m] = new[m + 1]
      BY <1>2, <2>3
    <3>2. QED
      BY <1>2, <3>1 DEF Above
  <2>6. QED
    BY <1>5, <1>6, <2>2, <2>4, <2>5 DEF RecordShown, RowShown
<1>9. QED
  BY <1>5, <1>7, <1>8

LEMMA TreeInit == Init => TreeInv
<1> SUFFICES ASSUME Init PROVE TreeInv
  OBVIOUS
<1>1. Records = <<>> /\ list = <<>> /\ added = 0 /\ pc = "idle" /\ ret = 0
  BY DEF Init, Root, Records
<1>2. Placed = 0 /\ Len(Records) = 0 /\ 1..Placed = {} /\ Len(list) = 0
  BY <1>1 DEF Placed
<1>3. QED
  BY <1>1, <1>2 DEF TreeInv

(* Steps that leave the tree and the list alone. *)
LEMMA TreeSame ==
    ASSUME TreeInv, UNCHANGED <<tree, list>>, Placed' = Placed,
           pc' = "idle" => added = Len(list),
           pc' \in {"orig", "items"} => list \in Lists,
           pc' = "orig" => added = 0,
           pc' \in {"load", "orig", "items"} \/ list # <<>> => ret' = 0
    PROVE  TreeInv'
<1>1. Records' = Records /\ \A k : Doc(k)' = Doc(k)
  BY DEF tree, Records, Doc
<1>2. \A k \in 1..Placed : RecordShown(k)'
  BY <1>1 DEF tree, TreeInv, RecordShown, RowShown
<1>3. QED
  BY <1>1, <1>2 DEF tree, TreeInv

(* Steps after which there is no row. *)
LEMMA TreeEmpty ==
    ASSUME StructureInv', Below' = {}, pc' \notin {"items", "idle"},
           pc' = "orig" => list' \in Lists /\ added' = 0,
           pc' \in {"load", "orig"} \/ list' # <<>> => ret' = 0
    PROVE  TreeInv'
<1>1. Placed' = 0 /\ 1..0 = {}
  BY DEF Placed
<1>2. Records' \in Seq({})
  BY DEF StructureInv, Records
<1>3. Len(Records') = 0
  <2>1. Len(Records') \in Nat /\ \A n \in 1..Len(Records') : Records'[n] \in {}
    BY <1>2
  <2>2. QED
    BY <2>1
<1>4. QED
  BY <1>1, <1>3 DEF TreeInv

LEMMA TreeStep == IInv /\ TreeInv /\ [Next]_vars => TreeInv'
<1> SUFFICES ASSUME IInv, TreeInv, [Next]_vars PROVE TreeInv'
  OBVIOUS
<1>0. StructureInv /\ ControlInv /\ ShownInv /\ StructureInv' /\ ControlInv'
  BY InvStep DEF IInv
<1>1. CASE SetList
  <2>1. Below' = {} /\ added' = 0 /\ list' = <<>>
    BY <1>1, ResetListEmpties DEF SetList
  <2>2. QED
    BY <1>0, <1>1, <2>1, TreeEmpty DEF SetList
<1>2. CASE Destroy
  <2>1. Below' = {} /\ added' = 0 /\ list' = <<>>
    BY <1>2, ResetListEmpties DEF Destroy
  <2>2. QED
    BY <1>0, <1>2, <2>1, TreeEmpty DEF Destroy
<1>3. CASE LoadReject \/ Load
  <2>1. UNCHANGED <<tree, list>> /\ Below = {} /\ list = <<>> /\ added = 0
    BY <1>0, <1>3 DEF LoadReject, Load, ControlInv, TreeInv
  <2>2. Below' = {}
    BY <2>1 DEF tree, Below
  <2>3. QED
    BY <1>0, <1>3, <2>1, <2>2, TreeEmpty DEF LoadReject, Load, tree
<1>4. CASE LoadOk
  <2>1. UNCHANGED tree /\ Below = {} /\ added = 0 /\ list' \in Lists /\ ret' = 0 /\ pc' = "orig"
    BY <1>0, <1>4 DEF LoadOk, ControlInv, TreeInv
  <2>2. Below' = {} /\ added' = 0
    BY <2>1 DEF tree, Below
  <2>3. QED
    BY <1>0, <2>1, <2>2, TreeEmpty
<1>5. CASE LoadFail
  <2>1. UNCHANGED <<tree, list>> /\ Below = {} /\ list = <<>> /\ added = 0 /\ pc' = "message"
    BY <1>0, <1>5 DEF LoadFail, ControlInv, TreeInv
  <2>2. Below' = {} /\ list' = <<>> /\ added' = 0
    BY <2>1 DEF tree, Below
  <2>3. QED
    BY <1>0, <2>1, <2>2, TreeEmpty
<1>6. CASE WriteOrig
  <2>1. pc = "orig" /\ pc' = "items" /\ UNCHANGED <<ret, list, rootItem, added>> /\ AddItem(<<exc_orig>>)
    BY <1>6 DEF WriteOrig
  <2>2. /\ added = 0 /\ list \in Lists /\ ret = 0 /\ Placed = 0 /\ Len(Records) = 0
    BY <2>1 DEF TreeInv, Placed
  <2>3. /\ Doc(0 + 1) = <<exc_orig>> /\ Doc(0 + 1) \in Seq(File) /\ Len(Doc(0 + 1)) \in 1..MaxItem
    BY UiAssumption DEF File, Doc
  <2>4. \A k \in 1..0 : RecordShown(k)
    OBVIOUS
  <2>5. Len(Records') = 0 + 1 /\ \A k \in 1..0+1 : RecordShown(k)'
    <3>1. AddItem(Doc(0 + 1)) /\ UNCHANGED <<rootItem, list>> /\ 0 \in Nat
      BY <2>1, <2>3
    <3>2. QED
      BY <1>0, <2>2, <2>3, <2>4, <3>1, RowAdded
  <2>6. Placed' = 0 + 1
    BY <2>1, <2>2 DEF Placed
  <2>7. QED
    BY <2>1, <2>2, <2>5, <2>6 DEF TreeInv
<1>7. CASE AddRecord
  <2>1. /\ pc = "items" /\ pc' = "items" /\ UNCHANGED <<ret, list, rootItem>> /\ added' = added + 1
        /\ added < Len(list) /\ AddItem(list[added + 1])
    BY <1>7 DEF AddRecord, Documents
  <2>2. /\ list \in Lists /\ ret = 0 /\ added \in Nat /\ Placed = added + 1
        /\ Len(Records) = added + 1 /\ \A k \in 1..added+1 : RecordShown(k)
    BY <1>0, <2>1 DEF TreeInv, ControlInv, Placed
  <2>3. added + 1 \in DOMAIN list /\ Doc((added + 1) + 1) = list[added + 1]
    <3>1. list \in Seq(Seq(Path))
      BY <2>2, ListsAssumption
    <3>2. QED
      BY <2>1, <2>2, <3>1 DEF Doc
  <2>4. list[added + 1] \in Seq(File) /\ Len(list[added + 1]) \in 1..MaxItem
    <3>1. list[added + 1] \in Seq(Path) /\ Len(list[added + 1]) \in 1..MaxItem
      BY <2>2, <2>3, ListFiles
    <3>2. Seq(Path) \subseteq Seq(File)
      BY DEF File
    <3>3. QED
      BY <3>1, <3>2
  <2>5. Len(Records') = (added + 1) + 1 /\ \A k \in 1..(added + 1)+1 : RecordShown(k)'
    BY <1>0, <2>1, <2>2, <2>3, <2>4, RowAdded
  <2>6. Placed' = (added + 1) + 1
    BY <2>1, <2>2 DEF Placed
  <2>7. QED
    BY <2>1, <2>2, <2>5, <2>6 DEF TreeInv
<1>8. CASE SetListEnd
  <2>1. /\ pc = "items" /\ pc' = "idle" /\ added = Len(list) /\ UNCHANGED <<ret, list, tree>>
    BY <1>8 DEF SetListEnd
  <2>2. list \in Lists /\ list # <<>> /\ ret = 0
    BY <2>1, ListsAssumption DEF TreeInv
  <2>3. Placed' = Placed
    BY <2>1, <2>2 DEF Placed, tree
  <2>4. QED
    BY <2>1, <2>2, <2>3, TreeSame
<1>9. CASE MessageRead
  <2>1. pc = "message" /\ pc' = "idle" /\ UNCHANGED <<ret, list, tree>> /\ list = <<>>
    BY <1>0, <1>9 DEF MessageRead, ControlInv
  <2>2. added = 0 /\ Len(list) = 0
    BY <1>0, <2>1 DEF ControlInv
  <2>3. Placed' = Placed
    BY <2>1 DEF Placed
  <2>4. QED
    BY <2>1, <2>2, <2>3, TreeSame
<1>10. CASE ShowItem \/ CloseEditor \/ UNCHANGED vars
  <2>1. pc' = pc /\ UNCHANGED <<ret, list, tree>>
    BY <1>10 DEF ShowItem, CloseEditor, vars
  <2>2. Placed' = Placed
    BY <2>1 DEF Placed, tree
  <2>3. QED
    BY <2>1, <2>2, TreeSame DEF TreeInv
<1>11. QED
  BY <1>1, <1>2, <1>3, <1>4, <1>5, <1>6, <1>7, <1>8, <1>9, <1>10 DEF Next

LEMMA TreeInvariance == Spec => [](IInv /\ TreeInv)
<1>1. Init => IInv /\ TreeInv
  BY InitInv, TreeInit
<1>2. IInv /\ TreeInv /\ [Next]_vars => (IInv /\ TreeInv)'
  BY InvStep, TreeStep
<1>3. QED
  BY <1>1, <1>2, PTL DEF Spec

(* The view can find its way in any tree: every item has an index and every *)
(* index leads back to itself through ExcInfoModel::parent and              *)
(* TreeItem::row, whatever was deleted and whichever addresses came back.   *)
THEOREM EveryIndexLeadsBack == Spec => []IndexesLeadBack
<1>1. IInv /\ TreeInv => IndexesLeadBack
  BY IndexesAreRows DEF IInv
<1>2. QED
  BY <1>1, TreeInvariance, PTL

(* The tree shows the list of the last text, all of it and in its order,    *)
(* after any number of texts and failures: SetList adds what it is given    *)
(* and ResetList leaves nothing behind.                                     *)
THEOREM TreeIsTheList == Spec => []TreeShowsList
<1>1. IInv /\ TreeInv => TreeShowsList
  BY TreeIsList DEF IInv
<1>2. QED
  BY <1>1, TreeInvariance, PTL
=============================================================================
