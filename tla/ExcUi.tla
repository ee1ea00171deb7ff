--------------------------------- MODULE ExcUi --------------------------------
(***************************************************************************)
(* The tree of the plugin (ui/navwidget.cpp): ExcInfoModel keeps the       *)
(* struct ExcList of the last text and a tree of TreeItems for it, the     *)
(* view shows the tree and opens an editor on the file of an item that is  *)
(* clicked.  One thread runs all of this; it may come back to its event    *)
(* loop, where the view draws and the user acts, between two calls of      *)
(* SetList and while SetList shows that the analysis failed.  The library  *)
(* is used through ExcApi; titles are left out, and a file's text is the   *)
(* number of the text of the user it was written for.                      *)
(***************************************************************************)
EXTENDS Integers, Sequences, FiniteSets, Functions

CONSTANTS
    NULL,
    Addr,         (* addresses of TreeItems                                 *)
    Pick(_, _),   (* Pick(used, n): sequences of n addresses new returns    *)
    Path,         (* files the library may write                            *)
    exc_orig,     (* the file SetList writes the text of the user to        *)
    Lists,        (* what Exc_Load may list: for each item, its files       *)
    MaxItem,      (* entries of an item: four and one for each frame        *)
    MaxTexts      (* bound: texts the user has analysed                     *)

ASSUME UiAssumption ==
    /\ NULL \notin Addr /\ exc_orig \notin Path /\ MaxTexts \in Nat
    /\ MaxItem \in Nat \ {0}
    /\ \A used \in SUBSET Addr, n \in 1..MaxItem : \A new \in Pick(used, n) :
          /\ new \in [1..n -> Addr \ used]
          /\ \A i, j \in 1..n : new[i] = new[j] => i = j

(* The lists of Exc_Load are as ExcApi!LoadOk has them. *)
ASSUME ListsAssumption ==
    \A l \in Lists :
        /\ l \in Seq(Seq(Path)) /\ l # <<>>
        /\ \A i \in DOMAIN l : Len(l[i]) \in 1..MaxItem
        /\ \A i, j \in DOMAIN l : \A k \in DOMAIN l[i], m \in DOMAIN l[j] :
              l[i][k] = l[j][m] => i = j /\ k = m

File    == Path \cup {exc_orig}
Version == 0..MaxTexts                        \* 0: no file, no editor
Errors  == {-1, -2, -8}

VARIABLES
    pc,        (* "idle", "message" and "gone" outside of SetList           *)
    ret,       (* what Exc_Load returned                                    *)
    list,      (* *m_plist                                                  *)
    rootItem,
    items,     (* the TreeItems in use                                      *)
    added,     (* items of the list that are in the tree                    *)
    current,   (* the TreeItem the current index of the view points to      *)
    texts,     (* texts given to SetList so far                             *)
    disk,      (* for each file, the text it was written for                *)
    editors    (* for each file, the text an open editor shows of it        *)

tree == <<rootItem, items, added>>
vars == <<pc, ret, list, tree, current, texts, disk, editors>>

-----------------------------------------------------------------------------
(* TreeItem::child, childCount, row and parent. *)
child(t, r)   == items[t].childItems[r + 1]
childCount(t) == Len(items[t].childItems)
row(t) == IF items[t].parentItem = NULL THEN 0
          ELSE CHOOSE r \in 0..childCount(items[t].parentItem)-1 :
                  child(items[t].parentItem, r) = t

(* ExcInfoModel::index, parent and rowCount; an index is the TreeItem it    *)
(* points to, NULL the invalid one.                                         *)
Item(index)     == IF index = NULL THEN rootItem ELSE index
rowCount(index) == childCount(Item(index))
index(r, above) == child(Item(above), r)
parent(t)       == IF items[t].parentItem = rootItem THEN NULL ELSE items[t].parentItem

(* The indexes a view gets to, from the top. *)
Rows(above) == {index(r, above) : r \in 0..rowCount(above)-1}
Indexes     == Rows(NULL) \cup UNION {Rows(t) : t \in Rows(NULL)}

(* TreeItem::~TreeItem deletes the items below; below the root there are    *)
(* records, and below these their other documents.                          *)
DeletedRecords(t) == {t} \cup Range(items[t].childItems)            \* mutant
Deleted(t) == LET below == Range(items[t].childItems)
              IN  {t} \cup below \cup UNION {Range(items[b].childItems) : b \in below}

-----------------------------------------------------------------------------
(* delete rootItem, and a new root at address a. *)
Root == [file |-> NULL, parentItem |-> NULL, childItems |-> <<>>]
DanglingRoot(a) ==                                                   \* mutant
    /\ items' = [t \in (DOMAIN items \ Deleted(rootItem)) \cup {a} |->
                    IF t = a THEN Root ELSE items[t]]
    /\ added' = 0
    /\ UNCHANGED rootItem
NewRoot(a) ==
    /\ items' = [t \in (DOMAIN items \ Deleted(rootItem)) \cup {a} |->
                    IF t = a THEN Root ELSE items[t]]
    /\ added' = 0
    /\ rootItem' = a

Init ==
    /\ pc = "idle" /\ ret = 0 /\ list = <<>> /\ current = NULL /\ texts = 0
    /\ rootItem \in {new[1] : new \in Pick({}, 1)}
    /\ items = [t \in {rootItem} |-> Root]
    /\ added = 0
    /\ disk = [p \in File |-> 0] /\ editors = [p \in File |-> 0]

Listed == UNION {Range(list[i]) : i \in DOMAIN list}

(* Exc_Release: a file that cannot be removed stays. *)
Exc_Release ==
    /\ list' = <<>>
    /\ \E stuck \in SUBSET {p \in Listed : disk[p] # 0} :
          disk' = [p \in File |-> IF p \in Listed \ stuck THEN 0 ELSE disk[p]]

(* The destructor of an item closes the editors of its file. *)
Closed(dead) == LET closing == {items[t].file : t \in dead}
                IN  [p \in File |-> IF p \in closing THEN 0 ELSE editors[p]]
(* ExcInfoModel::ResetList: the tree goes with its editors, then the list.  *)
ResetKeepsList ==                                                    \* mutant
    /\ editors' = Closed(Deleted(rootItem))
    /\ \E new \in Pick(DOMAIN items \ Deleted(rootItem), 1) : NewRoot(new[1])
    /\ UNCHANGED <<list, disk>>
ResetList ==
    /\ editors' = Closed(Deleted(rootItem))
    /\ Exc_Release
    /\ \E new \in Pick(DOMAIN items \ Deleted(rootItem), 1) : NewRoot(new[1])

(* SetList with a next text: the view is told, everything shown goes.       *)
SetList ==
    /\ pc = "idle" /\ texts < MaxTexts
    /\ texts' = texts + 1
    /\ ResetList
    /\ pc' = "reset"
    /\ UNCHANGED <<ret, current>>

(* endResetModel: the view forgets its indexes. *)
endResetModelSilent == UNCHANGED current                             \* mutant
endResetModel == current' = NULL

(* Exc_Load refuses an empty text. *)
LoadReject ==
    /\ pc = "reset"
    /\ ret' = -1
    /\ endResetModel
    /\ pc' = "message"
    /\ UNCHANGED <<list, tree, texts, disk, editors>>

(* Exc_Load removes the files of earlier loads as far as it can. *)
Load ==
    /\ pc = "reset"
    /\ ret' = 0
    /\ \E stuck \in SUBSET {p \in Path : disk[p] # 0} :
          disk' = [p \in File |-> IF p \in Path \ stuck THEN 0 ELSE disk[p]]
    /\ pc' = "load"
    /\ UNCHANGED <<list, tree, current, texts, editors>>

(* ... and writes the files of the list it returns; *)
LoadOk ==
    /\ pc = "load"
    /\ list' \in Lists
    /\ disk' = [p \in File |-> IF \E i \in DOMAIN list' : p \in Range(list'[i])
                               THEN texts ELSE disk[p]]
    /\ ret' = 0
    /\ pc' = "orig"
    /\ UNCHANGED <<tree, current, texts, editors>>

(* ... or fails after some are written; SetList returns with the root only. *)
LoadFail ==
    /\ pc = "load"
    /\ ret' \in Errors
    /\ \E written \in SUBSET Path :
          disk' = [p \in File |-> IF p \in written THEN texts ELSE disk[p]]
    /\ endResetModel
    /\ pc' = "message"
    /\ UNCHANGED <<list, tree, texts, editors>>

(* new TreeItem for each of files, the first below the root and the others  *)
(* below the first.                                                         *)
Child(file, above, below) == [file |-> file, parentItem |-> above, childItems |-> below]
Above(new, j)     == IF j = 1 THEN rootItem ELSE new[1]
AddItem(files) ==
    \E new \in Pick(DOMAIN items, Len(files)) :
        items' = [t \in DOMAIN items \cup Range(new) |->
                    IF t = rootItem
                    THEN Child(items[t].file, items[t].parentItem, Append(items[t].childItems, new[1]))
                    ELSE IF t \in DOMAIN items THEN items[t]
                    ELSE LET j == CHOOSE n \in DOMAIN new : new[n] = t
                         IN  Child(files[j], Above(new, j), IF j = 1 THEN Tail(new) ELSE <<>>)]

(* The text goes to exc_orig.txt if this file can be opened; its item is    *)
(* added either way.                                                        *)
WriteOrig ==
    /\ pc = "orig"
    /\ \/ disk' = [disk EXCEPT ![exc_orig] = texts]
       \/ UNCHANGED disk
    /\ AddItem(<<exc_orig>>)
    /\ pc' = "items"
    /\ UNCHANGED <<ret, list, rootItem, added, current, texts, editors>>

(* The files of an item of the list: the record's is the first. *)
FirstAgain(pinfo) == <<pinfo[1]>> \o pinfo                           \* mutant
Documents(pinfo)  == pinfo

AddRecord ==
    /\ pc = "items" /\ added < Len(list)
    /\ AddItem(Documents(list[added + 1]))
    /\ added' = added + 1
    /\ UNCHANGED <<pc, ret, list, rootItem, current, texts, disk, editors>>

SetListEnd ==
    /\ pc = "items" /\ added = Len(list)
    /\ endResetModel
    /\ pc' = "idle"
    /\ UNCHANGED <<ret, list, tree, texts, disk, editors>>

-----------------------------------------------------------------------------
(* The user closes the message. *)
MessageRead ==
    /\ pc = "message"
    /\ pc' = "idle"
    /\ UNCHANGED <<ret, list, tree, current, texts, disk, editors>>

(* ExcInfoTreeView::ShowItem for an index that is clicked; openEditorAt     *)
(* shows the editor the file has, or opens one if the file is there.        *)
ShowItem ==
    /\ pc = "idle"
    /\ \E t \in Indexes :
          /\ current' = t
          /\ LET p == items[t].file
             IN  editors' = IF editors[p] = 0 THEN [editors EXCEPT ![p] = disk[p]] ELSE editors
    /\ UNCHANGED <<pc, ret, list, tree, texts, disk>>

(* The user closes an editor. *)
CloseEditor ==
    /\ pc = "idle"
    /\ \E p \in {q \in File : editors[q] # 0} : editors' = [editors EXCEPT ![p] = 0]
    /\ UNCHANGED <<pc, ret, list, tree, current, texts, disk>>

(* ExcInfoModel::~ExcInfoModel, when the plugin is unloaded: views have     *)
(* gone before.  (The new root, which is empty and has no file, is deleted  *)
(* last; nothing can look at the tree any more.)                            *)
Destroy ==
    /\ pc = "idle"
    /\ ResetList
    /\ current' = NULL
    /\ pc' = "gone"
    /\ UNCHANGED <<ret, texts>>

Next ==
    \/ SetList \/ LoadReject \/ Load \/ LoadOk \/ LoadFail
    \/ WriteOrig \/ AddRecord \/ SetListEnd
    \/ MessageRead \/ ShowItem \/ CloseEditor \/ Destroy

Spec == Init /\ [][Next]_vars

-----------------------------------------------------------------------------
(* The values of the variables; the root is always there. *)
TypeOK ==
    /\ pc \in {"idle", "reset", "load", "message", "orig", "items", "gone"}
    /\ ret \in Errors \cup {0}
    /\ list = <<>> \/ list \in Lists
    /\ added \in 0..Len(list)
    /\ DOMAIN items \subseteq Addr /\ rootItem \in DOMAIN items
    /\ \A t \in DOMAIN items :
          /\ items[t].file \in File \cup {NULL}
          /\ items[t].parentItem \in Addr \cup {NULL}
          /\ items[t].childItems \in Seq(Addr)
    /\ current \in Addr \cup {NULL}
    /\ texts \in Version
    /\ disk \in [File -> Version] /\ editors \in [File -> Version]

(* Whenever the event loop runs the view can find its way: each item but    *)
(* the root has an index, an index leads back to itself through parent and  *)
(* row, and the current one points to an item in use.                       *)
EventLoop == pc \in {"idle", "message"}
IndexesLeadBack ==
    EventLoop =>
        /\ DOMAIN items = Indexes \cup {rootItem}
        /\ rootItem \notin Indexes
        /\ \A t \in Indexes :
              /\ parent(t) \in Rows(NULL) \cup {NULL}
              /\ row(t) \in 0..rowCount(parent(t))-1
              /\ index(row(t), parent(t)) = t

(* The view never draws an item that was deleted. *)
ViewValid == EventLoop /\ current # NULL => current \in DOMAIN items \ {rootItem}

(* The tree shows the list, all of it and nothing else: after a failure     *)
(* nothing is left of the earlier text, after a success the text itself     *)
(* comes first, then a row for each item of the list, in the order of the   *)
(* list, with the other documents below it.  Each file is shown once.       *)
FileOf(t)    == items[t].file
FilesBelow(t) == [r \in 1..childCount(t) |-> FileOf(child(t, r - 1))]
TreeShowsList ==
    EventLoop =>
        /\ FilesBelow(rootItem) =
              IF list = <<>> THEN <<>>
              ELSE <<exc_orig>> \o [i \in DOMAIN list |-> list[i][1]]
        /\ \A i \in DOMAIN list : FilesBelow(child(rootItem, i)) = Tail(list[i])
        /\ \A t, u \in Indexes : FileOf(t) = FileOf(u) => t = u
        /\ ret # 0 => list = <<>>

(* An open editor shows a file of the tree, as it is on disk, and for a     *)
(* file of the library what was found in the last text: the files of        *)
(* different texts have the same names.                                     *)
EditorsCurrent ==
    \A p \in File : editors[p] # 0 =>
        /\ EventLoop
        /\ \E t \in Indexes : FileOf(t) = p
        /\ editors[p] = disk[p]
        /\ p # exc_orig => editors[p] = texts

(* The plugin is a caller of the library as exc_parse.h wants it: the list  *)
(* is released before the next Exc_Load, a failed call leaves nothing to    *)
(* release, and what is listed can be read.                                 *)
Api == INSTANCE ExcApi WITH
    Errors   <- Errors,
    Path     <- Path,
    busy     <- pc = "load",
    shown    <- {Range(list[i]) : i \in DOMAIN list},
    readable <- {p \in Listed : disk[p] = texts},
    ret      <- ret
CallsAsPromised == Api!Spec
=============================================================================
