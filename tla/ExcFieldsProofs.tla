---------------------------- MODULE ExcFieldsProofs ---------------------------
(***************************************************************************)
(* Theorems about ExcFields, for every text, every number of exceptions    *)
(* and sections, and every size of the arrays.                             *)
(***************************************************************************)
EXTENDS ExcFields, FiniteSetTheorems, TLAPS

(* Where excblock_parse_appexc and phases2val are. *)
PlaceInv ==
    /\ text \in Texts
    /\ n \in 0..Len(text)
    /\ pc \in {"next", "phases", "sp", "push"}
    /\ pc # "next" => n \in 1..Len(text)
    /\ pc = "phases" => i \in 1..Len(phases)

(* The section a buffer of the record was made for: one that phases2val has *)
(* passed, whose handler writes the field.                                  *)
MadeBy(b, func) ==
    /\ b.exc = n /\ b.sec \in 1..Len(phases)
    /\ pc = "phases" => b.sec < i
    /\ ParseOp(n, b.sec).func = func

OwnerInv ==
    /\ pc = "next" => Owned = {}
    /\ regstr # NULL => MadeBy(regstr, "reg")
    /\ libs # NULL => MadeBy(libs, "soinfo")
    /\ btfunc # NULL => MadeBy(btfunc, "bt")
    /\ \A o \in Owner : stack[o].stackstr # NULL =>
          /\ MadeBy(stack[o].stackstr, "stack")
          /\ WhoseStack(n, stack[o].stackstr.sec) = o
          /\ stack[o].stackstr.field = o

(* Both stacks have all their fields. *)
StackInv ==
    /\ DOMAIN stack = Owner
    /\ \A o \in Owner : DOMAIN stack[o] = {"base", "bottom", "sp", "stackstr"}

IInv == PlaceInv /\ StackInv /\ OwnerInv /\ BuffersReleased

-----------------------------------------------------------------------------
(* The buffers the record would own after a step. *)
LEMMA BufferFields ==
    ASSUME NEW f, NEW s, NEW len
    PROVE  /\ Buffer(f, s, len).field = f /\ Buffer(f, s, len).exc = n
           /\ Buffer(f, s, len).sec = i
BY DEF Buffer

(* A buffer a later section's handler writes over. *)
LEMMA IsOverwritten ==
    ASSUME PlaceInv, pc = "phases", NEW func, NEW b, MadeBy(b, func), InSection(func),
           func = "stack" => WhoseStack(n, i) = b.field, HasSome(n, i)
    PROVE  Overwritten(b)
<1>1. b.exc = n /\ b.sec < i /\ i \in 1..Len(phases) /\ b.sec \in 1..Len(phases)
  BY DEF PlaceInv, MadeBy
<1>2. i \in b.sec+1 .. Len(text[b.exc].phases)
  <2>1. Len(phases) \in Nat
    BY FieldsAssumption DEF PlaceInv, phases
  <2>2. QED
    BY <1>1, <2>1 DEF phases
<1>3. ParseOp(b.exc, i).func = func /\ ParseOp(b.exc, b.sec).func = func
  BY <1>1 DEF MadeBy, InSection
<1>4. HasSome(b.exc, i)
  BY <1>1
<1>5. QED
  BY <1>1, <1>2, <1>3, <1>4 DEF Overwritten

LEMMA PlaceStep == PlaceInv /\ [Next]_vars => PlaceInv'
<1> SUFFICES ASSUME PlaceInv, [Next]_vars PROVE PlaceInv'
  OBVIOUS
<1>0. Len(text) \in Nat /\ DOMAIN text = 1..Len(text) /\ \A e \in 1..Len(text) : Len(text[e].phases) \in Nat \ {0}
  BY FieldsAssumption DEF PlaceInv
<1>1. CASE NextRecord
  BY <1>0, <1>1 DEF NextRecord, PlaceInv, phases
<1>2. CASE Skipped \/ phase2val_line \/ phase2val_reg \/ phase2val_stack \/ phase2val_soinfo \/ phase2val_bt
  <2>1. Advance /\ pc = "phases"
    BY <1>2 DEF Skipped, phase2val_line, phase2val_reg, phase2val_stack, phase2val_soinfo, phase2val_bt, InSection
  <2>2. QED
    BY <1>0, <2>1 DEF Advance, PlaceInv, phases
<1>3. CASE SetSp
  BY <1>3 DEF SetSp, PlaceInv
<1>4. CASE PushAndRelease
  BY <1>0, <1>4 DEF PushAndRelease, PlaceInv
<1>5. CASE UNCHANGED vars
  BY <1>5 DEF vars, PlaceInv, phases
<1>6. QED
  BY <1>1, <1>2, <1>3, <1>4, <1>5 DEF Next

(* A buffer of the record stays one when phases2val goes on. *)
LEMMA MadeByAdvance ==
    ASSUME PlaceInv, NEW b, NEW func, MadeBy(b, func), Advance, pc = "phases"
    PROVE  MadeBy(b, func)'
<1>1. i \in 1..Len(phases) /\ Len(phases) \in Nat
  BY FieldsAssumption DEF PlaceInv, phases
<1>2. b.sec < i
  BY DEF MadeBy
<1>3. i' \in {i, i + 1} /\ phases' = phases /\ n' = n /\ text' = text
  BY DEF Advance, phases
<1>4. ParseOp(n, b.sec)' = ParseOp(n, b.sec)
  BY <1>3 DEF ParseOp
<1>5. QED
  BY <1>1, <1>2, <1>3, <1>4 DEF MadeBy

(* A buffer just made is the record's. *)
LEMMA MadeByBuffer ==
    ASSUME PlaceInv, NEW b, NEW func, InSection(func), Advance, b.exc = n, b.sec = i
    PROVE  MadeBy(b, func)'
<1>1. i \in 1..Len(phases) /\ Len(phases) \in Nat /\ pc = "phases"
  BY FieldsAssumption DEF PlaceInv, InSection, phases
<1>2. i' \in {i, i + 1} /\ phases' = phases /\ n' = n /\ text' = text
      /\ (pc' = "phases" => i' = i + 1)
  BY <1>1 DEF Advance, phases
<1>3. ParseOp(n, b.sec)' = ParseOp(n, i) /\ ParseOp(n, i).func = func
  BY <1>2 DEF ParseOp, InSection
<1>4. QED
  BY <1>1, <1>2, <1>3 DEF MadeBy

-----------------------------------------------------------------------------
(* The fields of a stack after TRY_GET_VAL, with and without a new text. *)
LEMMA TryGetVal ==
    ASSUME NEW order, NEW old, DOMAIN old = {"base", "bottom", "sp", "stackstr"},
           \A r \in DOMAIN order : order[r] # "stackstr"
    PROVE  /\ DOMAIN TRY_GET_VAL(order, old) = {"base", "bottom", "sp", "stackstr"}
           /\ TRY_GET_VAL(order, old).stackstr = old.stackstr
BY DEF TRY_GET_VAL

LEMMA NotInOrder == \A param : \A r \in DOMAIN Order(param) : Order(param)[r] # "stackstr"
BY DEF Order

LEMMA WithText ==
    ASSUME NEW read, DOMAIN read = {"base", "bottom", "sp", "stackstr"}, NEW b
    PROVE  /\ DOMAIN [read EXCEPT !.stackstr = b] = {"base", "bottom", "sp", "stackstr"}
           /\ [read EXCEPT !.stackstr = b].stackstr = b
OBVIOUS

(* The numbers a section has when TRY_GET_VAL has found all of them.        *)
LEMMA AllFound ==
    ASSUME NEW param, Found(Order(param), Len(Order(param))), NEW r \in {"sp", "base", "bottom"},
           section[r] = NULL
    PROVE  r = "sp" /\ param = "printed"
<1>1. CASE param = "printed"
  <2>1. /\ Order(param)[1] = "bottom" /\ Order(param)[2] = "base" /\ 1..2 = {1, 2}
        /\ Len(Order(param)) = 2
    BY <1>1 DEF Order
  <2>2. section["bottom"] # NULL /\ section["base"] # NULL
    BY <2>1 DEF Found
  <2>3. QED
    BY <1>1, <2>2
<1>2. CASE param # "printed"
  <2>1. /\ Order(param)[1] = "sp" /\ Order(param)[2] = "base" /\ Order(param)[3] = "bottom"
        /\ 1..3 = {1, 2, 3} /\ Len(Order(param)) = 3
    BY <1>2 DEF Order
  <2>2. section["sp"] # NULL /\ section["base"] # NULL /\ section["bottom"] # NULL
    BY <2>1 DEF Found
  <2>3. QED
    BY <2>2
<1>3. QED
  BY <1>1, <1>2

(* phase2val_stack writes the text of the stack its section prints, and no  *)
(* other; the end of phases2val writes none.                                *)
LEMMA StackWritten ==
    ASSUME StackInv, phase2val_stack
    PROVE  /\ StackInv'
           /\ \/ heap' = heap /\ \A q \in Owner : stack'[q].stackstr = stack[q].stackstr
              \/ \E o \in Owner : \E b \in Alloc(o, Behind, 1) :
                    /\ o = WhoseStack(n, i)
                    /\ stack'[o].stackstr = b /\ heap' = Live(b)
                    /\ \A q \in Owner \ {o} : stack'[q] = stack[q]
                    /\ HasSome(n, i)
<1> DEFINE param == ParseOp(n, i).param
           order == Order(param)
           o == WhoseStack(n, i)
           read == TRY_GET_VAL(order, stack[o])
           names == {"base", "bottom", "sp", "stackstr"}
<1>1. CASE UNCHANGED <<stack, heap>>
  BY <1>1 DEF StackInv
<1>2. ASSUME o \in Owner
      PROVE  DOMAIN read = names /\ read.stackstr = stack[o].stackstr
  BY <1>2, TryGetVal, NotInOrder DEF StackInv
<1>3. CASE o \in Owner /\ stack' = [stack EXCEPT ![o] = read] /\ heap' = heap
  <2>1. stack'[o] = read /\ DOMAIN stack' = Owner /\ \A q \in Owner \ {o} : stack'[q] = stack[q]
    <3> HIDE DEF read
    <3>1. QED
      BY <1>3 DEF StackInv
  <2>2. QED
    BY <1>2, <1>3, <2>1 DEF StackInv
<1>4. CASE o \in Owner /\ HasSome(n, i) /\ \E b \in Alloc(o, Behind, 1) :
              stack' = [stack EXCEPT ![o] = [read EXCEPT !.stackstr = b]] /\ heap' = Live(b)
  <2>1. PICK b \in Alloc(o, Behind, 1) :
              stack' = [stack EXCEPT ![o] = [read EXCEPT !.stackstr = b]] /\ heap' = Live(b)
    BY <1>4
  <2>2. DOMAIN [read EXCEPT !.stackstr = b] = names /\ [read EXCEPT !.stackstr = b].stackstr = b
    BY <1>2, <1>4, WithText
  <2> DEFINE new == [read EXCEPT !.stackstr = b]
  <2>3. stack'[o] = new /\ DOMAIN stack' = Owner /\ \A q \in Owner \ {o} : stack'[q] = stack[q]
    <3>1. stack' = [stack EXCEPT ![o] = new]
      BY <2>1
    <3> HIDE DEF new
    <3>2. QED
      BY <1>4, <3>1 DEF StackInv
  <2>4. QED
    BY <1>4, <2>1, <2>2, <2>3 DEF StackInv
<1>5. section.text # "none" /\ Found(order, Len(order)) /\ InSection("stack") => HasSome(n, i)
  BY AllFound DEF HasSome, InSection, section, phases
<1>6. QED
  BY <1>1, <1>3, <1>4, <1>5 DEF phase2val_stack

LEMMA SpOnly ==
    ASSUME SetSp, NEW o \in Owner
    PROVE  stack'[o].stackstr = stack[o].stackstr
BY DEF SetSp

(* Which buffer each field has, and that the handlers keep it so. *)
LEMMA OwnerStep == PlaceInv /\ StackInv /\ OwnerInv /\ [Next]_vars => OwnerInv'
<1> SUFFICES ASSUME PlaceInv, StackInv, OwnerInv, [Next]_vars PROVE OwnerInv'
  OBVIOUS
<1>1. CASE NextRecord \/ PushAndRelease
  BY <1>1 DEF NextRecord, PushAndRelease, Cleared, OwnerInv, Owned, NoStack
<1>2. CASE Skipped \/ phase2val_line
  <2>1. Advance /\ pc = "phases" /\ UNCHANGED <<stack, regstr, libs, btfunc>>
    BY <1>2 DEF Skipped, phase2val_line, InSection, rec, arrays
  <2>2. pc' # "next" /\ (\A o \in Owner : WhoseStack(n, stack[o].stackstr.sec)' = WhoseStack(n, stack[o].stackstr.sec))
    BY <2>1 DEF Advance, WhoseStack, ParseOp
  <2>3. QED
    BY <2>1, <2>2, MadeByAdvance DEF OwnerInv
<1>3. CASE phase2val_reg \/ phase2val_soinfo \/ phase2val_bt
  <2>1. Advance /\ pc = "phases" /\ pc' # "next" /\ UNCHANGED stack
    BY <1>3 DEF phase2val_reg, phase2val_soinfo, phase2val_bt, InSection, Advance
  <2>2. \A o \in Owner : WhoseStack(n, stack[o].stackstr.sec)' = WhoseStack(n, stack[o].stackstr.sec)
    BY <2>1 DEF Advance, WhoseStack, ParseOp
  <2>3. \A o \in Owner : stack[o].stackstr # NULL => MadeBy(stack[o].stackstr, "stack")'
    BY <2>1, MadeByAdvance DEF OwnerInv
  <2>4. regstr' # NULL => MadeBy(regstr, "reg")'
    <3>1. CASE regstr' = regstr
      BY <2>1, <3>1, MadeByAdvance DEF OwnerInv
    <3>2. CASE regstr' # regstr
      <4>1. InSection("reg") /\ regstr' \in Alloc("regstr", i, 1)
        BY <1>3, <3>2 DEF phase2val_reg, phase2val_soinfo, phase2val_bt
      <4>2. regstr' # NULL => regstr'.exc = n /\ regstr'.sec = i
        BY <4>1, BufferFields DEF Alloc
      <4>3. QED
        BY <2>1, <4>1, <4>2, MadeByBuffer
    <3>3. QED
      BY <3>1, <3>2
  <2>5. libs' # NULL => MadeBy(libs, "soinfo")'
    <3>1. CASE libs' = libs
      BY <2>1, <3>1, MadeByAdvance DEF OwnerInv
    <3>2. CASE libs' # libs
      <4>1. InSection("soinfo") /\ libs' \in Alloc("libs", i, getlines_0xhead(section))
        BY <1>3, <3>2 DEF phase2val_reg, phase2val_soinfo, phase2val_bt, arrays
      <4>2. libs' # NULL => libs'.exc = n /\ libs'.sec = i
        BY <4>1, BufferFields DEF Alloc
      <4>3. QED
        BY <2>1, <4>1, <4>2, MadeByBuffer
    <3>3. QED
      BY <3>1, <3>2
  <2>6. btfunc' # NULL => MadeBy(btfunc, "bt")'
    <3>1. CASE btfunc' = btfunc
      BY <2>1, <3>1, MadeByAdvance DEF OwnerInv
    <3>2. CASE btfunc' # btfunc
      <4>1. InSection("bt") /\ btfunc' \in Alloc("btfunc", i, getlines_0xhead(section))
        BY <1>3, <3>2 DEF phase2val_reg, phase2val_soinfo, phase2val_bt, arrays
      <4>2. btfunc' # NULL => btfunc'.exc = n /\ btfunc'.sec = i
        BY <4>1, BufferFields DEF Alloc
      <4>3. QED
        BY <2>1, <4>1, <4>2, MadeByBuffer
    <3>3. QED
      BY <3>1, <3>2
  <2>7. QED
    BY <2>1, <2>2, <2>3, <2>4, <2>5, <2>6 DEF OwnerInv
<1>4. CASE phase2val_stack
  <2>1. Advance /\ pc = "phases" /\ pc' # "next" /\ UNCHANGED <<regstr, libs, btfunc>>
    BY <1>4 DEF phase2val_stack, InSection, Advance, arrays
  <2>2. (regstr' # NULL => MadeBy(regstr, "reg")') /\ (libs' # NULL => MadeBy(libs, "soinfo")')
        /\ (btfunc' # NULL => MadeBy(btfunc, "bt")')
    BY <2>1, MadeByAdvance DEF OwnerInv
  <2>3. ASSUME NEW o \in Owner, stack'[o].stackstr # NULL
        PROVE  /\ MadeBy(stack[o].stackstr, "stack")'
               /\ WhoseStack(n, stack[o].stackstr.sec)' = o
               /\ stack'[o].stackstr.field = o
    <3>1. \A sec : WhoseStack(n, sec)' = WhoseStack(n, sec)
      BY <2>1 DEF Advance, WhoseStack, ParseOp
    <3>2. CASE stack'[o].stackstr = stack[o].stackstr
      BY <2>1, <2>3, <3>1, <3>2, MadeByAdvance DEF OwnerInv
    <3>3. CASE stack'[o].stackstr # stack[o].stackstr
      <4>1. o = WhoseStack(n, i) /\ stack'[o].stackstr \in Alloc(o, Behind, 1)
        BY <1>4, <2>3, <3>3, StackWritten
      <4>2. /\ stack'[o].stackstr.exc = n /\ stack'[o].stackstr.sec = i
            /\ stack'[o].stackstr.field = o
        BY <2>3, <4>1, BufferFields DEF Alloc
      <4>3. InSection("stack")
        BY <1>4 DEF phase2val_stack
      <4>4. QED
        BY <2>1, <3>1, <4>1, <4>2, <4>3, MadeByBuffer
    <3>4. QED
      BY <3>2, <3>3
  <2>4. QED
    BY <2>1, <2>2, <2>3 DEF OwnerInv
<1>5. CASE SetSp
  <2>1. UNCHANGED <<text, n, i, regstr, libs, btfunc>> /\ pc = "sp" /\ pc' = "push"
    BY <1>5 DEF SetSp, arrays
  <2>2. \A o \in Owner : stack'[o].stackstr = stack[o].stackstr
    BY <1>5, SpOnly
  <2>3. \A b, func : MadeBy(b, func) => MadeBy(b, func)'
    BY <2>1 DEF MadeBy, phases, ParseOp
  <2>4. \A sec : WhoseStack(n, sec)' = WhoseStack(n, sec)
    BY <2>1 DEF WhoseStack, ParseOp
  <2>5. QED
    BY <2>1, <2>2, <2>3, <2>4 DEF OwnerInv
<1>6. CASE UNCHANGED vars
  <2>1. UNCHANGED <<text, n, i, pc, stack, regstr, libs, btfunc>>
    BY <1>6 DEF vars, rec, arrays
  <2>2. \A b, func : MadeBy(b, func) => MadeBy(b, func)'
    BY <2>1 DEF MadeBy, phases, ParseOp
  <2>3. \A sec : WhoseStack(n, sec)' = WhoseStack(n, sec)
    BY <2>1 DEF WhoseStack, ParseOp
  <2>4. Owned' = Owned
    BY <2>1 DEF Owned
  <2>5. QED
    BY <2>1, <2>2, <2>3, <2>4 DEF OwnerInv
<1>7. QED
  BY <1>1, <1>2, <1>3, <1>4, <1>5, <1>6 DEF Next

LEMMA StackStep == StackInv /\ [Next]_vars => StackInv'
<1> SUFFICES ASSUME StackInv, [Next]_vars PROVE StackInv'
  OBVIOUS
<1>1. CASE NextRecord \/ PushAndRelease
  BY <1>1 DEF NextRecord, PushAndRelease, Cleared, NoStack, StackInv
<1>2. CASE Skipped \/ phase2val_line \/ phase2val_reg \/ phase2val_soinfo \/ phase2val_bt \/ UNCHANGED vars
  BY <1>2 DEF Skipped, phase2val_line, phase2val_reg, phase2val_soinfo, phase2val_bt, vars, rec, StackInv
<1>3. CASE phase2val_stack
  BY <1>3, StackWritten
<1>4. CASE SetSp
  BY <1>4 DEF SetSp, StackInv
<1>5. QED
  BY <1>1, <1>2, <1>3, <1>4 DEF Next

-----------------------------------------------------------------------------
(* A handler that gives field new instead of old loses no buffer. *)
LEMMA Replaced ==
    ASSUME NEW new, NEW old, BuffersReleased,
           heap' = Live(new), Owned \ {old} \subseteq Owned', new # NULL => new \in Owned',
           old # NULL => Overwritten(old), \A b : Overwritten(b)' = Overwritten(b)
    PROVE  BuffersReleased'
<1> SUFFICES ASSUME NEW b \in heap' PROVE b \in Owned' \/ Overwritten(b)
  BY DEF BuffersReleased
<1>1. NULL \notin Owned
  BY DEF Owned
<1>2. CASE b \in heap
  BY <1>1, <1>2 DEF BuffersReleased
<1>3. CASE b = new /\ new # NULL
  BY <1>3
<1>4. QED
  BY <1>2, <1>3 DEF Live

LEMMA BuffersStep == PlaceInv /\ StackInv /\ OwnerInv /\ BuffersReleased /\ [Next]_vars => BuffersReleased'
<1> SUFFICES ASSUME PlaceInv, StackInv, OwnerInv, BuffersReleased, [Next]_vars
             PROVE  BuffersReleased'
  OBVIOUS
<1>1. \A b : Overwritten(b)' = Overwritten(b)
  <2>1. text' = text
    BY DEF Next, NextRecord, Skipped, phase2val_line, phase2val_reg, phase2val_stack, phase2val_soinfo,
           phase2val_bt, SetSp, PushAndRelease, Advance, vars
  <2>2. \A e, j : ParseOp(e, j)' = ParseOp(e, j) /\ WhoseStack(e, j)' = WhoseStack(e, j)
    BY <2>1 DEF ParseOp, WhoseStack
  <2>3. \A e, j : HasSome(e, j)' = HasSome(e, j)
    <3> SUFFICES ASSUME NEW e, NEW j PROVE HasSome(e, j)' = HasSome(e, j)
      OBVIOUS
    <3>1. ParseOp(e, j)' = ParseOp(e, j)
      BY <2>2
    <3>2. QED
      BY <2>1, <3>1 DEF HasSome
  <2>4. QED
    BY <2>1, <2>2, <2>3 DEF Overwritten
<1>2. CASE NextRecord
  BY <1>1, <1>2 DEF NextRecord, OwnerInv, BuffersReleased
<1>3. CASE PushAndRelease
  BY <1>1, <1>3 DEF PushAndRelease, BuffersReleased
<1>4. CASE Skipped \/ phase2val_line \/ UNCHANGED vars
  <2>1. Owned' = Owned /\ heap' = heap
    BY <1>4 DEF Skipped, phase2val_line, vars, rec, arrays, Owned
  <2>2. QED
    BY <1>1, <2>1 DEF BuffersReleased
<1>5. CASE SetSp
  <2>1. UNCHANGED <<regstr, libs, btfunc, heap>> /\ \A o \in Owner : stack'[o].stackstr = stack[o].stackstr
    BY <1>5, SpOnly DEF SetSp, arrays
  <2>2. Owned' = Owned
    BY <2>1 DEF Owned
  <2>3. QED
    BY <1>1, <2>1, <2>2 DEF BuffersReleased
<1>6. CASE phase2val_reg
  <2>1. pc = "phases" /\ InSection("reg") /\ UNCHANGED <<stack, libs, btfunc>>
    BY <1>6 DEF phase2val_reg, InSection, arrays
  <2>2. CASE UNCHANGED <<regstr, heap>>
    BY <1>1, <2>1, <2>2 DEF BuffersReleased, Owned
  <2>3. CASE HasSome(n, i) /\ heap' = Live(regstr')
    <3>1. regstr # NULL => Overwritten(regstr)
      BY <2>1, <2>3, IsOverwritten DEF OwnerInv
    <3>2. Owned \ {regstr} \subseteq Owned' /\ (regstr' # NULL => regstr' \in Owned')
      BY <2>1 DEF Owned
    <3>3. QED
      BY <1>1, <2>3, <3>1, <3>2, Replaced
  <2>4. section.more => HasSome(n, i)
    BY <2>1 DEF HasSome, InSection, section, phases
  <2>5. QED
    BY <1>6, <2>2, <2>3, <2>4 DEF phase2val_reg
<1>7. CASE phase2val_soinfo
  <2>1. pc = "phases" /\ InSection("soinfo") /\ UNCHANGED <<stack, regstr, btfunc>>
    BY <1>7 DEF phase2val_soinfo, InSection
  <2>2. CASE UNCHANGED <<libs, heap>>
    BY <1>1, <2>1, <2>2 DEF BuffersReleased, Owned
  <2>3. CASE HasSome(n, i) /\ heap' = Live(libs')
    <3>1. libs # NULL => Overwritten(libs)
      BY <2>1, <2>3, IsOverwritten DEF OwnerInv
    <3>2. Owned \ {libs} \subseteq Owned' /\ (libs' # NULL => libs' \in Owned')
      BY <2>1 DEF Owned
    <3>3. QED
      BY <1>1, <2>3, <3>1, <3>2, Replaced
  <2>4. section.more /\ section.count > 0 => HasSome(n, i)
    BY <2>1 DEF HasSome, InSection, section, phases
  <2>5. QED
    BY <1>7, <2>2, <2>3, <2>4 DEF phase2val_soinfo
<1>8. CASE phase2val_bt
  <2>1. pc = "phases" /\ InSection("bt") /\ UNCHANGED <<stack, regstr, libs>>
    BY <1>8 DEF phase2val_bt, InSection
  <2>2. CASE UNCHANGED <<btfunc, heap>>
    BY <1>1, <2>1, <2>2 DEF BuffersReleased, Owned
  <2>3. CASE HasSome(n, i) /\ heap' = Live(btfunc')
    <3>1. btfunc # NULL => Overwritten(btfunc)
      BY <2>1, <2>3, IsOverwritten DEF OwnerInv
    <3>2. Owned \ {btfunc} \subseteq Owned' /\ (btfunc' # NULL => btfunc' \in Owned')
      BY <2>1 DEF Owned
    <3>3. QED
      BY <1>1, <2>3, <3>1, <3>2, Replaced
  <2>4. BtTitle(errtype) \in section.keys /\ section.count > 0 => HasSome(n, i)
    BY <2>1 DEF HasSome, InSection, section, phases, errtype
  <2>5. QED
    BY <1>8, <2>2, <2>3, <2>4 DEF phase2val_bt
<1>9. CASE phase2val_stack
  <2>1. pc = "phases" /\ InSection("stack") /\ UNCHANGED <<regstr, libs, btfunc>>
    BY <1>9 DEF phase2val_stack, InSection, arrays
  <2>2. CASE heap' = heap /\ \A q \in Owner : stack'[q].stackstr = stack[q].stackstr
    <3>1. Owned' = Owned
      BY <2>1, <2>2 DEF Owned
    <3>2. QED
      BY <1>1, <2>2, <3>1 DEF BuffersReleased
  <2>3. ASSUME NEW o \in Owner, NEW b, o = WhoseStack(n, i), stack'[o].stackstr = b,
               heap' = Live(b), \A q \in Owner \ {o} : stack'[q] = stack[q], HasSome(n, i)
        PROVE  BuffersReleased'
    <3> DEFINE old == stack[o].stackstr
    <3>1. old # NULL => Overwritten(old)
      BY <2>1, <2>3, IsOverwritten DEF OwnerInv
    <3>2. Owned \ {old} \subseteq Owned' /\ (b # NULL => b \in Owned')
      BY <2>1, <2>3 DEF Owned
    <3>3. QED
      BY <1>1, <2>3, <3>1, <3>2, Replaced
  <2>4. QED
    BY <1>9, <2>2, <2>3, StackWritten
<1>10. QED
  BY <1>2, <1>3, <1>4, <1>5, <1>6, <1>7, <1>8, <1>9 DEF Next

(* No buffer a handler allocated is forgotten: it is the record's until the *)
(* record is released, or it was lost when a later section of the same      *)
(* exception printed the same thing again; for any text and any allocation  *)
(* that fails.                                                              *)
THEOREM BuffersAreReleased == Spec => []BuffersReleased
<1>1. Init => IInv
  <2> SUFFICES ASSUME Init PROVE IInv
    OBVIOUS
  <2>1. PlaceInv
    BY FieldsAssumption DEF Init, PlaceInv
  <2>2. StackInv /\ OwnerInv /\ BuffersReleased
    BY DEF Init, NoStack, StackInv, OwnerInv, Owned, BuffersReleased
  <2>3. QED
    BY <2>1, <2>2 DEF IInv
<1>2. IInv /\ [Next]_vars => IInv'
  BY PlaceStep, StackStep, OwnerStep, BuffersStep DEF IInv
<1>3. IInv => BuffersReleased
  BY DEF IInv
<1>4. QED
  BY <1>1, <1>2, <1>3, PTL DEF Spec

-----------------------------------------------------------------------------
(* The arrays the record has are those of the last section printed for      *)
(* them, of the sections passed so far.                                     *)
LastInv ==
    /\ btfunc # NULL => btfunc.exc = n /\ btfunc.holds = Max(Calls \cup {0})
    /\ libs # NULL => libs.exc = n /\ libs.holds = Max(Libraries \cup {0})

LEMMA MaxIs ==
    ASSUME NEW S, S \subseteq Nat, NEW x \in S, \A y \in S : y <= x
    PROVE  Max(S) = x
<1>1. /\ Max(S) \in S
      /\ \A y \in S : Max(S) >= y
  BY DEF Max
<1>2. Max(S) \in Nat /\ x \in Nat /\ Max(S) >= x /\ Max(S) <= x
  BY <1>1
<1>3. QED
  BY <1>2

(* phases2val has passed one section more. *)
LEMMA DoneAdvance ==
    ASSUME PlaceInv, pc = "phases", Advance
    PROVE  /\ i \in Nat \ {0} /\ i \in DOMAIN phases
           /\ UNCHANGED <<text, n, phases, errtype>>
           /\ \A func :
                 /\ \A j \in Done(func) : j \in Nat /\ j < i
                 /\ ParseOp(n, i).func = func => Done(func)' = Done(func) \cup {i}
                 /\ ParseOp(n, i).func # func => Done(func)' = Done(func)
<1>0. i \in Nat /\ Len(phases) \in Nat /\ i <= Len(phases)
  BY FieldsAssumption DEF PlaceInv, phases
<1>1. i \in 1..Len(phases) /\ Len(phases) \in Nat /\ DOMAIN phases = 1..Len(phases)
  BY FieldsAssumption DEF PlaceInv, phases
<1>2. UNCHANGED <<text, n, phases, errtype>>
  BY DEF Advance, phases, errtype
<1>3. \A j : ParseOp(n, j)' = ParseOp(n, j)
  BY <1>2 DEF ParseOp
<1>4. ASSUME NEW func PROVE \A j \in Done(func) : j \in Nat /\ j < i
  BY <1>1 DEF Done
<1>5. ASSUME NEW func, NEW j
      PROVE  j \in Done(func)' <=> j \in Done(func) \/ (j = i /\ ParseOp(n, i).func = func)
  <2>1. CASE i < Len(phases)
    BY <1>1, <1>2, <1>3, <2>1 DEF Advance, Done
  <2>2. CASE i = Len(phases)
    BY <1>1, <1>2, <1>3, <2>2 DEF Advance, Done
  <2>3. i < Len(phases) \/ i = Len(phases)
    BY <1>0
  <2>4. QED
    BY <2>1, <2>2, <2>3
<1>6. ASSUME NEW func
      PROVE  /\ ParseOp(n, i).func = func => Done(func)' = Done(func) \cup {i}
             /\ ParseOp(n, i).func # func => Done(func)' = Done(func)
  BY <1>5
<1>7. QED
  BY <1>1, <1>2, <1>4, <1>6

(* The section a new array comes from is the last of its kind. *)
LEMMA NewLast ==
    ASSUME NEW S, NEW x \in Nat, \A j \in S : j \in Nat /\ j < x
    PROVE  Max((S \cup {x}) \cup {0}) = x
<1> DEFINE T == (S \cup {x}) \cup {0}
<1>1. T \subseteq Nat /\ x \in T /\ \A y \in T : y <= x
  OBVIOUS
<1> HIDE DEF T
<1>2. Max(T) = x
  BY <1>1, MaxIs
<1>3. QED
  BY <1>2 DEF T

LEMMA LastStep == PlaceInv /\ LastInv /\ [Next]_vars => LastInv'
<1> SUFFICES ASSUME PlaceInv, LastInv, [Next]_vars PROVE LastInv'
  OBVIOUS
<1>a. ASSUME UNCHANGED <<btfunc, libs, n, Calls, Libraries>> PROVE LastInv'
  BY <1>a DEF LastInv
<1>1. CASE NextRecord \/ PushAndRelease
  BY <1>1 DEF NextRecord, PushAndRelease, Cleared, LastInv
<1>2. CASE Skipped \/ phase2val_line \/ phase2val_reg \/ phase2val_stack
  <2>1. /\ pc = "phases" /\ Advance /\ UNCHANGED <<btfunc, libs>>
        /\ ParseOp(n, i).func \notin {"bt", "soinfo"}
    BY <1>2, FieldsAssumption
       DEF Skipped, phase2val_line, phase2val_reg, phase2val_stack, InSection, rec, arrays
  <2>2. Done("bt")' = Done("bt") /\ Done("soinfo")' = Done("soinfo") /\ UNCHANGED <<n, phases, errtype>>
    BY <2>1, DoneAdvance
  <2>3. Calls' = Calls /\ Libraries' = Libraries
    BY <2>2 DEF Calls, Libraries
  <2>4. QED
    BY <1>a, <2>1, <2>2, <2>3
<1>3. CASE phase2val_bt
  <2>1. pc = "phases" /\ Advance /\ ParseOp(n, i).func = "bt" /\ UNCHANGED libs
    BY <1>3 DEF phase2val_bt, InSection
  <2>2. /\ Done("bt")' = Done("bt") \cup {i} /\ Done("soinfo")' = Done("soinfo")
        /\ UNCHANGED <<n, phases, errtype>> /\ i \in Nat
        /\ \A j \in Done("bt") : j \in Nat /\ j < i
    BY <2>1, DoneAdvance
  <2>3. Libraries' = Libraries
    BY <2>2 DEF Libraries
  <2>4. BtTitle(errtype) = IF errtype = "exc" THEN "Function Calling Trace Start"
                                            ELSE "Track function call list..."
    BY <2>1, FieldsAssumption DEF PlaceInv, errtype, BtTitle, ErrType
  <2>5. CASE (BtTitle(errtype) \notin section.keys \/ section.count = 0) /\ UNCHANGED btfunc
    <3>1. Calls' = Calls
      <4>1. \A j : j \in Calls <=>
               j \in Done("bt") /\ phases[j].count > 0 /\ BtTitle(errtype) \in phases[j].keys
        BY <2>4 DEF Calls
      <4>2. \A j : j \in Calls' <=>
               (j \in Done("bt") \/ j = i) /\ phases[j].count > 0 /\ BtTitle(errtype) \in phases[j].keys
        BY <2>2, <2>4 DEF Calls
      <4>3. ~(phases[i].count > 0 /\ BtTitle(errtype) \in phases[i].keys)
        BY <2>5 DEF section
      <4>4. QED
        BY <4>1, <4>2, <4>3
    <3>2. QED
      BY <1>a, <2>1, <2>2, <2>3, <2>5, <3>1
  <2>6. CASE /\ BtTitle(errtype) \in section.keys /\ section.count > 0
             /\ btfunc' \in Alloc("btfunc", i, getlines_0xhead(section))
    <3>1. Calls' = Calls \cup {i}
      <4>1. \A j : j \in Calls <=>
               j \in Done("bt") /\ phases[j].count > 0 /\ BtTitle(errtype) \in phases[j].keys
        BY <2>4 DEF Calls
      <4>2. \A j : j \in Calls' <=>
               (j \in Done("bt") \/ j = i) /\ phases[j].count > 0 /\ BtTitle(errtype) \in phases[j].keys
        BY <2>2, <2>4 DEF Calls
      <4>3. phases[i].count > 0 /\ BtTitle(errtype) \in phases[i].keys
        BY <2>6 DEF section
      <4>4. QED
        BY <4>1, <4>2, <4>3
    <3>2. \A j \in Calls : j \in Nat /\ j < i
      BY <2>2 DEF Calls
    <3>3. Max(Calls' \cup {0}) = i
      BY <2>2, <3>1, <3>2, NewLast
    <3>4. btfunc' # NULL => btfunc'.exc = n /\ btfunc'.holds = i
      BY <2>6 DEF Alloc, Buffer
    <3>5. QED
      BY <2>1, <2>2, <2>3, <3>3, <3>4 DEF LastInv
  <2>7. QED
    BY <1>3, <2>5, <2>6 DEF phase2val_bt
<1>4. CASE phase2val_soinfo
  <2>1. pc = "phases" /\ Advance /\ ParseOp(n, i).func = "soinfo" /\ UNCHANGED btfunc
    BY <1>4 DEF phase2val_soinfo, InSection
  <2>2. /\ Done("soinfo")' = Done("soinfo") \cup {i} /\ Done("bt")' = Done("bt")
        /\ UNCHANGED <<n, phases, errtype>> /\ i \in Nat
        /\ \A j \in Done("soinfo") : j \in Nat /\ j < i
    BY <2>1, DoneAdvance
  <2>3. Calls' = Calls
    BY <2>2 DEF Calls
  <2>4. CASE (~section.more \/ section.count = 0) /\ UNCHANGED libs
    <3>1. Libraries' = Libraries
      BY <2>2, <2>4 DEF Libraries, section
    <3>2. QED
      BY <1>a, <2>1, <2>2, <2>3, <2>4, <3>1
  <2>5. CASE /\ section.more /\ section.count > 0
             /\ libs' \in Alloc("libs", i, getlines_0xhead(section))
    <3>1. Libraries' = Libraries \cup {i}
      BY <2>2, <2>5 DEF Libraries, section
    <3>2. \A j \in Libraries : j \in Nat /\ j < i
      BY <2>2 DEF Libraries
    <3>3. Max(Libraries' \cup {0}) = i
      BY <2>2, <3>1, <3>2, NewLast
    <3>4. libs' # NULL => libs'.exc = n /\ libs'.holds = i
      BY <2>5 DEF Alloc, Buffer
    <3>5. QED
      BY <2>1, <2>2, <2>3, <3>3, <3>4 DEF LastInv
  <2>6. QED
    BY <1>4, <2>4, <2>5 DEF phase2val_soinfo
<1>5. CASE SetSp
  <2>1. pc = "sp" /\ pc' = "push" /\ UNCHANGED <<text, n, i, btfunc, libs>>
    BY <1>5 DEF SetSp, arrays
  <2>2. Calls' = Calls /\ Libraries' = Libraries
    BY <2>1 DEF Calls, Libraries, Done, ParseOp, phases, errtype
  <2>3. QED
    BY <1>a, <2>1, <2>2
<1>6. CASE UNCHANGED vars
  <2>1. UNCHANGED <<text, n, i, pc, btfunc, libs>>
    BY <1>6 DEF vars, rec, arrays
  <2>2. Calls' = Calls /\ Libraries' = Libraries
    BY <2>1 DEF Calls, Libraries, Done, ParseOp, phases, errtype
  <2>3. QED
    BY <1>a, <2>1, <2>2
<1>7. QED
  BY <1>1, <1>2, <1>3, <1>4, <1>5, <1>6 DEF Next

(* The calls and libraries a record shows are those printed last, of its    *)
(* own kind and exception (phase2val_bt, phase2val_soinfo), for every text  *)
(* and whichever allocation fails.                                          *)
THEOREM LastArraysShown == Spec => []LastArrays
<1> DEFINE Inv == PlaceInv /\ LastInv
<1>1. Init => Inv
  BY FieldsAssumption DEF Init, PlaceInv, LastInv
<1>2. Inv /\ [Next]_vars => Inv'
  BY PlaceStep, LastStep
<1>3. Inv => LastArrays
  BY DEF LastInv, LastArrays
<1> HIDE DEF Inv
<1>4. QED
  BY <1>1, <1>2, <1>3, PTL DEF Spec

-----------------------------------------------------------------------------
(* phases2val has passed a section that prints calls, or libraries, or one  *)
(* that does not.                                                           *)
LEMMA CallsAdvance ==
    ASSUME PlaceInv, pc = "phases", Advance
    PROVE  Calls' = Calls \cup
                 (IF InSection("bt") /\ section.count > 0 /\ BtTitle(errtype) \in section.keys
                  THEN {i} ELSE {})
<1>1. BtTitle(errtype) = IF errtype = "exc" THEN "Function Calling Trace Start"
                                          ELSE "Track function call list..."
  BY FieldsAssumption DEF PlaceInv, errtype, BtTitle, ErrType
<1>2. UNCHANGED <<n, phases, errtype>>
  BY DoneAdvance
<1>3. \A j : /\ j \in Calls <=>
                 j \in Done("bt") /\ phases[j].count > 0 /\ BtTitle(errtype) \in phases[j].keys
             /\ j \in Calls' <=>
                 j \in Done("bt")' /\ phases[j].count > 0 /\ BtTitle(errtype) \in phases[j].keys
  BY <1>1, <1>2 DEF Calls
<1>4. Done("bt")' = Done("bt") \cup (IF InSection("bt") THEN {i} ELSE {})
  BY DoneAdvance DEF InSection
<1>5. QED
  BY <1>3, <1>4 DEF section

LEMMA LibrariesAdvance ==
    ASSUME PlaceInv, pc = "phases", Advance
    PROVE  Libraries' = Libraries \cup
                 (IF InSection("soinfo") /\ section.more /\ section.count > 0 THEN {i} ELSE {})
<1>1. Done("soinfo")' = Done("soinfo") \cup (IF InSection("soinfo") THEN {i} ELSE {})
  BY DoneAdvance DEF InSection
<1>2. phases' = phases
  BY DoneAdvance
<1>3. QED
  BY <1>1, <1>2 DEF Libraries, section

(* An array has as many entries as its section has lines to read, and its   *)
(* count says so; a count without an array is that of an earlier section.   *)
Sized(ph, array, count, S) ==
    \/ array # NULL /\ count = array.len /\ \E j \in S : count = getlines_0xhead(ph[j])
    \/ array = NULL /\ count = 0
    \/ array = NULL /\ \E j, k \in S : j < k /\ count = getlines_0xhead(ph[j])
SizedInv ==
    /\ pc = "next" => libs = NULL /\ libnum = 0 /\ btfunc = NULL /\ btfuncnum = 0
    /\ pc # "next" => /\ Sized(phases, libs, libnum, Libraries)
                      /\ Sized(phases, btfunc, btfuncnum, Calls)

(* A section asks for an array, whether it gets one or not.                 *)
LEMMA SizedAgain ==
    ASSUME NEW array, NEW count, NEW S, NEW new, NEW f,
           Sized(phases, array, count, S), \A j \in S : j < i,
           new \in Alloc(f, i, getlines_0xhead(section))
    PROVE  Sized(phases, new, CountAfter(new, count), S \cup {i})
<1>1. CASE new # NULL
  <2>1. new.len = getlines_0xhead(section)
    BY <1>1 DEF Alloc, Buffer
  <2>2. CountAfter(new, count) = getlines_0xhead(phases[i])
    BY <1>1 DEF CountAfter, section
  <2>3. QED
    BY <1>1, <2>1, <2>2 DEF Sized, section
<1>2. CASE new = NULL
  <2>1. CountAfter(new, count) = count
    BY <1>2 DEF CountAfter
  <2>2. QED
    BY <1>2, <2>1 DEF Sized
<1>3. QED
  BY <1>1, <1>2

LEMMA SizedStep == PlaceInv /\ SizedInv /\ [Next]_vars => SizedInv'
<1> SUFFICES ASSUME PlaceInv, SizedInv, [Next]_vars PROVE SizedInv'
  OBVIOUS
<1>1. CASE PushAndRelease
  BY <1>1 DEF PushAndRelease, Cleared, SizedInv
<1>2. CASE NextRecord
  BY <1>2 DEF NextRecord, Cleared, SizedInv, Sized
<1>3. CASE pc = "phases" /\ Advance /\ pc' # "next"
  <2>1. /\ Sized(phases, libs, libnum, Libraries) /\ Sized(phases, btfunc, btfuncnum, Calls)
        /\ phases' = phases
    BY <1>3, DoneAdvance DEF SizedInv
  <2>2. (\A j \in Libraries : j < i) /\ (\A j \in Calls : j < i)
    BY <1>3, DoneAdvance DEF Libraries, Calls
  <2>3. CASE phase2val_soinfo /\ section.more /\ section.count > 0
    <3>1. /\ libs' \in Alloc("libs", i, getlines_0xhead(section))
          /\ libnum' = CountAfter(libs', libnum) /\ UNCHANGED <<btfunc, btfuncnum>>
          /\ InSection("soinfo") /\ ~ InSection("bt")
      BY <2>3, FieldsAssumption DEF phase2val_soinfo, InSection, PlaceInv, phases, section, IsSection
    <3>2. Libraries' = Libraries \cup {i} /\ Calls' = Calls
      BY <1>3, <2>3, <3>1, LibrariesAdvance, CallsAdvance
    <3>3. Sized(phases, libs', libnum', Libraries \cup {i})
      BY <2>1, <2>2, <3>1, SizedAgain
    <3>4. QED
      BY <1>3, <2>1, <3>1, <3>2, <3>3 DEF SizedInv
  <2>4. CASE phase2val_bt /\ section.count > 0 /\ BtTitle(errtype) \in section.keys
    <3>1. /\ btfunc' \in Alloc("btfunc", i, getlines_0xhead(section))
          /\ btfuncnum' = CountAfter(btfunc', btfuncnum) /\ UNCHANGED <<libs, libnum>>
          /\ InSection("bt") /\ ~ InSection("soinfo")
      BY <2>4, FieldsAssumption DEF phase2val_bt, InSection, PlaceInv, phases, section, IsSection
    <3>2. Calls' = Calls \cup {i} /\ Libraries' = Libraries
      BY <1>3, <2>4, <3>1, LibrariesAdvance, CallsAdvance
    <3>3. Sized(phases, btfunc', btfuncnum', Calls \cup {i})
      BY <2>1, <2>2, <3>1, SizedAgain
    <3>4. QED
      BY <1>3, <2>1, <3>1, <3>2, <3>3 DEF SizedInv
  <2>5. CASE UNCHANGED arrays
    <3>1. Libraries \subseteq Libraries' /\ Calls \subseteq Calls'
      BY <1>3, LibrariesAdvance, CallsAdvance
    <3>2. Sized(phases, libs, libnum, Libraries') /\ Sized(phases, btfunc, btfuncnum, Calls')
      BY <2>1, <3>1 DEF Sized
    <3>3. QED
      BY <1>3, <2>1, <2>5, <3>2 DEF SizedInv, arrays
  <2>6. QED
    <3>1. phase2val_soinfo => UNCHANGED arrays \/ (section.more /\ section.count > 0)
      BY DEF phase2val_soinfo, arrays
    <3>2. phase2val_bt => UNCHANGED arrays \/ (section.count > 0 /\ BtTitle(errtype) \in section.keys)
      BY DEF phase2val_bt, arrays
    <3>3. Skipped \/ phase2val_line \/ phase2val_reg \/ phase2val_stack \/ SetSp \/ UNCHANGED vars
             => UNCHANGED arrays
      BY DEF Skipped, phase2val_line, phase2val_reg, phase2val_stack, SetSp, vars, rec
    <3>4. ~ NextRecord /\ ~ PushAndRelease
      BY <1>3 DEF NextRecord, PushAndRelease
    <3>5. QED
      BY <2>3, <2>4, <2>5, <3>1, <3>2, <3>3, <3>4 DEF Next
<1>4. CASE SetSp \/ UNCHANGED vars
  <2>1. /\ UNCHANGED <<text, n, i, libs, libnum, btfunc, btfuncnum>>
        /\ pc' = pc \/ (pc = "sp" /\ pc' = "push")
    BY <1>4 DEF SetSp, vars, rec, arrays
  <2>2. Calls' = Calls /\ Libraries' = Libraries /\ phases' = phases
    <3>1. phases' = phases /\ errtype' = errtype /\ \A j : ParseOp(n, j)' = ParseOp(n, j)
      BY <2>1 DEF ParseOp, phases, errtype
    <3>2. \A f : Done(f)' = Done(f)
      BY <2>1, <3>1 DEF Done
    <3>3. Calls' = Calls
      BY <3>1, <3>2 DEF Calls
    <3>4. Libraries' = Libraries
      BY <3>1, <3>2 DEF Libraries
    <3>5. QED
      BY <3>1, <3>3, <3>4
  <2>3. (pc = "next" <=> pc' = "next")
    BY <2>1
  <2>4. QED
    BY <2>1, <2>2, <2>3 DEF SizedInv
<1>5. QED
  <2>1. Skipped \/ phase2val_line \/ phase2val_reg \/ phase2val_stack \/ phase2val_soinfo \/ phase2val_bt
           => pc = "phases" /\ Advance /\ pc' # "next"
    BY DEF Skipped, phase2val_line, phase2val_reg, phase2val_stack, phase2val_soinfo, phase2val_bt,
           InSection, Advance
  <2>2. QED
    BY <1>1, <1>2, <1>3, <1>4, <2>1 DEF Next

(* The loops over the libraries and the calls go by counts that are those   *)
(* of the arrays (phase2val_soinfo, phase2val_bt), for every text and       *)
(* whichever allocations fail, but for one case: a later section of the     *)
(* exception wants the array again and its allocation fails.  The array is  *)
(* NULL then and the count still that of an earlier section.                *)
THEOREM ArraysHaveTheirCounts == Spec => []CountsOfArrays
<1> DEFINE Inv == PlaceInv /\ SizedInv
<1>1. Init => Inv
  BY FieldsAssumption DEF Init, PlaceInv, SizedInv
<1>2. Inv /\ [Next]_vars => Inv'
  BY PlaceStep, SizedStep
<1>3. Inv => CountsOfArrays
  BY DEF PlaceInv, SizedInv, Sized, CountsOfArrays, Counted
<1> HIDE DEF Inv
<1>4. QED
  BY <1>1, <1>2, <1>3, PTL DEF Spec

-----------------------------------------------------------------------------
(* A set of numbers that is not empty has a least one. *)
LEMMA LeastOf ==
    ASSUME NEW S, S \subseteq Nat, S # {}
    PROVE  \E x \in S : \A y \in S : x <= y
<1>1. PICK x \in S : \A y \in S : ~ (<<y, x>> \in OpToRel(<, Nat))
  BY NatLessThanWellFounded, WFMin
<1>2. \A y \in S : ~ (y < x)
  BY <1>1 DEF OpToRel
<1>3. QED
  BY <1>2

LEMMA MinIs ==
    ASSUME NEW S, S \subseteq Nat, S # {}
    PROVE  Min(S) \in S /\ \A y \in S : Min(S) <= y
BY LeastOf DEF Min

(* ... and, when there is a bound, a greatest. *)
LEMMA MaxOf ==
    ASSUME NEW m \in Nat, NEW S, S \subseteq 1..m, S # {}
    PROVE  Max(S) \in S /\ \A y \in S : y <= Max(S)
<1> DEFINE T == {m - x : x \in S}
<1>1. T \subseteq Nat /\ T # {}
  OBVIOUS
<1>2. PICK t \in T : \A y \in T : t <= y
  BY <1>1, LeastOf
<1>3. PICK x \in S : t = m - x
  BY <1>2
<1>4. \A y \in S : y <= x
  <2> SUFFICES ASSUME NEW y \in S PROVE y <= x
    OBVIOUS
  <2>1. m - y \in T
    OBVIOUS
  <2>2. QED
    BY <1>2, <1>3, <2>1
<1>5. \E z \in S : \A y \in S : z >= y
  BY <1>3, <1>4
<1>6. QED
  BY <1>5 DEF Max

-----------------------------------------------------------------------------
(* A handler of lines has a table. *)
Tables == {s_baseinfo, s_posinfo, s_procinfo, s_taskinfo, s_jobinfo, s_curexcinfo}

LEMMA TableRows == \A table \in Tables : DOMAIN table \subseteq Nat
<1>1. DOMAIN s_baseinfo \subseteq Nat
  BY DEF s_baseinfo
<1>2. DOMAIN s_posinfo \subseteq Nat
  BY DEF s_posinfo
<1>3. DOMAIN s_procinfo \subseteq Nat
  BY DEF s_procinfo
<1>4. DOMAIN s_taskinfo \subseteq Nat
  BY DEF s_taskinfo
<1>5. DOMAIN s_jobinfo \subseteq Nat
  BY DEF s_jobinfo
<1>6. DOMAIN s_curexcinfo \subseteq Nat
  BY DEF s_curexcinfo
<1>7. QED
  BY <1>1, <1>2, <1>3, <1>4, <1>5, <1>6 DEF Tables

LEMMA TableOfOp ==
    ASSUME NEW e, NEW j, ParseOp(e, j).func = "line"
    PROVE  ParseOp(e, j).param \in Tables
<1> DEFINE K == {r \in 2..Len(s_parseop) : s_parseop[r].key \in text[e].phases[j].keys}
<1>1. Len(s_parseop) = 16
  BY DEF s_parseop
<1>4. NULL # "line"
  BY FieldsAssumption
<1>2. \A r \in 1..16 : s_parseop[r].func = "line" => s_parseop[r].param \in Tables
  <2>1. /\ s_parseop[2].func = "reg" /\ s_parseop[7].func = NULL
        /\ s_parseop[9].func = "stack" /\ s_parseop[10].func = "stack" /\ s_parseop[11].func = "soinfo"
        /\ s_parseop[12].func = "bt" /\ s_parseop[13].func = NULL /\ s_parseop[14].func = NULL
        /\ s_parseop[15].func = "stack" /\ s_parseop[16].func = "bt"
    BY DEF s_parseop, Op
  <2>2. /\ s_parseop[1].param = s_baseinfo /\ s_parseop[3].param = s_posinfo
        /\ s_parseop[4].param = s_procinfo /\ s_parseop[5].param = s_taskinfo
        /\ s_parseop[6].param = s_jobinfo /\ s_parseop[8].param = s_curexcinfo
    BY DEF s_parseop, Op
  <2>3. \A r \in 1..16 : r \in {1, 3, 4, 5, 6, 8} \/ r \in {2, 7, 9, 10, 11, 12, 13, 14, 15, 16}
    OBVIOUS
  <2>4. QED
    BY <1>4, <2>1, <2>2, <2>3 DEF Tables
<1>3. Ignored.func = NULL
  BY DEF Ignored, Op
<1>5. CASE j = 1
  BY <1>2, <1>5 DEF ParseOp
<1>6. CASE j # 1 /\ K = {}
  BY <1>3, <1>4, <1>6 DEF ParseOp
<1>7. CASE j # 1 /\ K # {}
  <2>1. K \subseteq Nat /\ K \subseteq 1..16
    BY <1>1
  <2>2. Min(K) \in K
    BY <1>7, <2>1, MinIs
  <2>3. ParseOp(e, j) = s_parseop[Min(K)]
    BY <1>7 DEF ParseOp
  <2>4. QED
    BY <1>2, <2>1, <2>2, <2>3
<1>8. QED
  BY <1>5, <1>6, <1>7

(* The first row with a key of the line is the least. *)
LEMMA FirstRowIsMin ==
    ASSUME NEW table \in Tables, NEW line
    PROVE  FirstRow(table, line) =
              LET rows == {r \in DOMAIN table : table[r][1] \in line.keys}
              IN  IF rows = {} THEN {} ELSE {Min(rows)}
<1> DEFINE rows == {r \in DOMAIN table : table[r][1] \in line.keys}
<1>1. FirstRow(table, line) = {r \in rows : \A q \in rows : r <= q}
  BY DEF FirstRow
<1>2. rows \subseteq Nat
  BY TableRows
<1>3. CASE rows = {}
  BY <1>1, <1>3
<1>4. CASE rows # {}
  <2>1. Min(rows) \in rows /\ \A q \in rows : Min(rows) <= q
    BY <1>2, <1>4, MinIs
  <2>2. \A r \in rows : (\A q \in rows : r <= q) => r = Min(rows)
    BY <1>2, <2>1
  <2>3. QED
    BY <1>1, <1>4, <2>1, <2>2
<1>5. QED
  BY <1>3, <1>4

(* The lines phase2val_line takes a field from are those that say something *)
(* about it. *)
LEMMA WrittenSays ==
    ASSUME PlaceInv, InSection("line"), NEW f, NEW q
    PROVE  f \in Written(ParseOp(n, i).param, section.lines[q]) <=> Says(f, i, q)
<1> DEFINE table == ParseOp(n, i).param
           line == section.lines[q]
           rows == {r \in DOMAIN table : table[r][1] \in line.keys}
           W(r) == table[r][2].must \cup (table[r][2].may \cap line.parts)
<1>1. table \in Tables
  BY TableOfOp DEF InSection
<1>2. FirstRow(table, line) = IF rows = {} THEN {} ELSE {Min(rows)}
  BY <1>1, FirstRowIsMin
<1>3. Says(f, i, q) <=> rows # {} /\ f \in W(Min(rows))
  BY DEF Says, section
<1>4. Written(table, line) = UNION {W(r) : r \in FirstRow(table, line)}
  BY DEF Written
<1> HIDE DEF W, rows, table, line
<1>5. f \in Written(table, line) <=> rows # {} /\ f \in W(Min(rows))
  BY <1>2, <1>4
<1>6. QED
  BY <1>3, <1>5 DEF table, line

-----------------------------------------------------------------------------
(* A field has the value of the last line about it, of the sections passed. *)
LastOf(a, S) == \A b \in S : b[1] < a[1] \/ (b[1] = a[1] /\ b[2] <= a[2])
SourceInv ==
    pc # "next" =>
        \A f \in Field :
            IF About(f) = {} THEN val[f] = NULL
            ELSE \E a \in About(f) : val[f] = <<n, a[1], a[2]>> /\ LastOf(a, About(f))

(* What is said about a field once one more section is passed. *)
LEMMA AboutAdvance ==
    ASSUME PlaceInv, pc = "phases", Advance, NEW f
    PROVE  About(f)' = About(f) \cup
              (IF InSection("line") THEN {<<i, q>> : q \in {l \in DOMAIN section.lines : Says(f, i, l)}}
                                    ELSE {})
<1>1. \A j, q : Says(f, j, q)' = Says(f, j, q)
  BY DEF Advance, Says, ParseOp, phases
<1>2. phases' = phases
  BY DoneAdvance
<1> DEFINE At(j) == {<<j, q>> : q \in {l \in DOMAIN phases[j].lines : Says(f, j, l)}}
<1>3. About(f)' = UNION {At(j) : j \in Done("line")'}
  BY <1>1, <1>2 DEF About
<1>4. About(f) = UNION {At(j) : j \in Done("line")}
  BY DEF About
<1>5. CASE InSection("line")
  <2>1. Done("line")' = Done("line") \cup {i}
    BY <1>5, DoneAdvance DEF InSection
  <2>2. About(f)' = About(f) \cup At(i)
    BY <1>3, <1>4, <2>1
  <2>3. QED
    BY <1>5, <2>2 DEF section
<1>6. CASE ~InSection("line")
  <2>1. Done("line")' = Done("line")
    BY <1>6, DoneAdvance DEF InSection
  <2>2. QED
    BY <1>3, <1>4, <1>6, <2>1
<1>7. QED
  BY <1>5, <1>6

LEMMA AboutPassed ==
    ASSUME PlaceInv, pc = "phases", Advance, NEW f, NEW a \in About(f)
    PROVE  a[1] \in Nat /\ a[1] < i
<1>1. PICK j \in Done("line") : \E q : a = <<j, q>>
  BY DEF About
<1>2. j \in Nat /\ j < i
  BY <1>1, DoneAdvance
<1>3. QED
  BY <1>1, <1>2

LEMMA LineSource ==
    ASSUME PlaceInv, SourceInv, phase2val_line, NEW f \in Field
    PROVE  IF About(f)' = {} THEN val'[f] = NULL
           ELSE \E a \in About(f)' : val'[f] = <<n, a[1], a[2]>> /\ LastOf(a, About(f)')
<1> DEFINE W == {j \in DOMAIN section.lines : f \in Written(ParseOp(n, i).param, section.lines[j])}
           New == {<<i, q>> : q \in W}
<1>1. InSection("line") /\ pc = "phases" /\ Advance
      /\ val'[f] = IF W = {} THEN val[f] ELSE <<n, i, Max(W)>>
  BY DEF phase2val_line, InSection
<1>2. About(f)' = About(f) \cup New
  BY <1>1, AboutAdvance, WrittenSays
<1>3. IF About(f) = {} THEN val[f] = NULL
      ELSE \E a \in About(f) : val[f] = <<n, a[1], a[2]>> /\ LastOf(a, About(f))
  BY <1>1 DEF SourceInv
<1>4. CASE W = {}
  BY <1>1, <1>2, <1>3, <1>4
<1>5. CASE W # {}
  <2>1. Len(section.lines) \in Nat /\ W \subseteq 1..Len(section.lines)
    <3>1. IsSection(section)
      BY <1>1, FieldsAssumption DEF PlaceInv, section, phases
    <3>2. QED
      BY <3>1 DEF IsSection
  <2>2. Max(W) \in W /\ \A q \in W : q <= Max(W)
    BY <1>5, <2>1, MaxOf
  <2> DEFINE a == <<i, Max(W)>>
  <2>3. a \in New /\ a[1] = i /\ a[2] = Max(W)
    BY <2>2
  <2>4. i \in Nat
    BY <1>1, DoneAdvance
  <2> HIDE DEF W
  <2>5. \A b \in About(f) : b[1] < i
    BY <1>1, AboutPassed
  <2>6. \A b \in New : b[1] = i /\ b[2] <= Max(W)
    BY <2>2
  <2>7. LastOf(a, About(f)')
    <3>1. \A b \in About(f)' : b \in About(f) \/ b \in New
      BY <1>2
    <3>2. QED
      BY <2>3, <2>5, <2>6, <3>1 DEF LastOf
  <2>8. val'[f] = <<n, a[1], a[2]>> /\ a \in About(f)'
    BY <1>1, <1>2, <1>5, <2>3
  <2>9. QED
    BY <2>7, <2>8
<1>6. QED
  BY <1>4, <1>5

LEMMA SourceStep == PlaceInv /\ SourceInv /\ [Next]_vars => SourceInv'
<1> SUFFICES ASSUME PlaceInv, SourceInv, [Next]_vars PROVE SourceInv'
  OBVIOUS
<1>a. ASSUME pc # "next", UNCHANGED <<n, val>>, \A f : About(f)' = About(f)
      PROVE  SourceInv'
  BY <1>a DEF SourceInv, LastOf
<1>1. CASE NextRecord
  <2>1. Done("line")' = {}
    <3>1. n' \in DOMAIN text /\ text' = text /\ pc' = "phases" /\ i' = 1
      BY <1>1, FieldsAssumption DEF NextRecord, PlaceInv
    <3>2. DOMAIN phases' \subseteq Nat \ {0}
      BY <3>1, FieldsAssumption DEF PlaceInv, phases
    <3>3. QED
      BY <3>1, <3>2 DEF Done
  <2>2. \A f : About(f)' = {}
    BY <2>1 DEF About
  <2>3. \A f \in Field : val'[f] = NULL
    BY <1>1 DEF NextRecord, Cleared
  <2>4. QED
    BY <2>2, <2>3 DEF SourceInv
<1>2. CASE PushAndRelease
  BY <1>2 DEF PushAndRelease, SourceInv
<1>3. CASE phase2val_line
  <2>1. n' = n
    BY <1>3 DEF phase2val_line, Advance
  <2>2. QED
    BY <1>3, <2>1, LineSource DEF SourceInv, LastOf
<1>4. CASE Skipped \/ phase2val_reg \/ phase2val_stack \/ phase2val_soinfo \/ phase2val_bt
  <2>1. pc = "phases" /\ Advance /\ UNCHANGED <<n, val>> /\ ParseOp(n, i).func # "line"
    BY <1>4, FieldsAssumption
       DEF Skipped, phase2val_reg, phase2val_stack, phase2val_soinfo, phase2val_bt, InSection, Advance, rec
  <2>2. \A f : About(f)' = About(f)
    BY <2>1, AboutAdvance DEF InSection
  <2>3. QED
    BY <1>a, <2>1, <2>2
<1>5. CASE SetSp \/ UNCHANGED vars
  <2>1. UNCHANGED <<text, n, i, val>> /\ (pc' = pc \/ (pc = "sp" /\ pc' = "push"))
    BY <1>5 DEF SetSp, vars, rec
  <2>2. Done("line")' = Done("line") /\ \A f, j, q : Says(f, j, q)' = Says(f, j, q)
    BY <2>1 DEF Done, Says, ParseOp, phases
  <2>3. \A f : About(f)' = About(f)
    BY <2>1, <2>2 DEF About, phases
  <2>4. pc = "next" => pc' = "next"
    BY <2>1
  <2>5. QED
    BY <1>a, <2>1, <2>3, <2>4 DEF SourceInv
<1>6. QED
  BY <1>1, <1>2, <1>3, <1>4, <1>5 DEF Next

(* Every field of a record shows the last line of its own exception that is *)
(* about it, and nothing where no line is (phase2val_line, phases2val), for *)
(* every text and every order of its sections.                              *)
THEOREM FieldsHaveTheirSource == Spec => []FieldSource
<1> DEFINE Inv == PlaceInv /\ SourceInv
<1>1. Init => Inv
  BY FieldsAssumption DEF Init, PlaceInv, SourceInv
<1>2. Inv /\ [Next]_vars => Inv'
  BY PlaceStep, SourceStep
<1>3. Inv => FieldSource
  BY DEF SourceInv, FieldSource, LastOf
<1> HIDE DEF Inv
<1>4. QED
  BY <1>1, <1>2, <1>3, PTL DEF Spec

-----------------------------------------------------------------------------
(* A stack nobody has printed is empty; the numbers of one that one section *)
(* prints are that section's, all of them when it has its text.             *)
OwnSp(j) == IF ParseOp(n, j).param = "printed" \/ phases[j].sp = NULL THEN 0 ELSE phases[j].sp

PrintedBy(o, j) ==
    /\ stack[o].base \in {0, phases[j].base} /\ stack[o].bottom \in {0, phases[j].bottom}
    /\ stack[o].sp = IF pc = "push" /\ o \in TaskFirst /\ OwnSp(j) = 0 THEN SP ELSE OwnSp(j)
    /\ stack[o].stackstr # NULL =>
          /\ stack[o].base = phases[j].base /\ stack[o].bottom = phases[j].bottom
          /\ ParseOp(n, j).param # "printed" => phases[j].sp # NULL
PrintedInv ==
    pc # "next" => \A o \in Owner :
        /\ pc # "push" /\ Printing(o) = {} => stack[o] = NoStack
        /\ \A j \in Printing(o) : Printing(o) = {j} => PrintedBy(o, j)

(* The numbers of an empty stack after TRY_GET_VAL. *)
LEMMA ReadFields ==
    ASSUME NEW param
    PROVE  LET order == Order(param)
               read  == TRY_GET_VAL(order, NoStack)
               all   == Found(order, Len(order))
           IN  /\ read.base \in {0, section.base} /\ read.bottom \in {0, section.bottom}
               /\ read.sp = IF param = "printed" \/ section.sp = NULL THEN 0 ELSE section.sp
               /\ read.stackstr = NULL
               /\ all => /\ read.base = section.base /\ read.bottom = section.bottom
                         /\ param # "printed" => section.sp # NULL
<1> DEFINE order == Order(param)
           read  == TRY_GET_VAL(order, NoStack)
<1>1. CASE param = "printed"
  <2>1. order = <<"bottom", "base">> /\ Len(order) = 2 /\ DOMAIN order = {1, 2}
    BY <1>1 DEF Order
  <2>2. /\ Found(order, 1) <=> section.bottom # NULL
        /\ Found(order, 2) <=> section.bottom # NULL /\ section.base # NULL
    <3>1. 1..1 = {1} /\ 1..2 = {1, 2} /\ order[1] = "bottom" /\ order[2] = "base"
      BY <2>1
    <3>2. QED
      BY <3>1 DEF Found
  <2>3. /\ read.bottom = IF Found(order, 1) THEN section.bottom ELSE 0
        /\ read.base = IF Found(order, 2) THEN section.base ELSE 0
        /\ read.sp = 0 /\ read.stackstr = NULL
    BY <2>1 DEF TRY_GET_VAL, NoStack
  <2>4. QED
    BY <1>1, <2>1, <2>2, <2>3
<1>2. CASE param # "printed"
  <2>1. order = <<"sp", "base", "bottom">> /\ Len(order) = 3 /\ DOMAIN order = {1, 2, 3}
    BY <1>2 DEF Order
  <2>2. /\ Found(order, 1) <=> section.sp # NULL
        /\ Found(order, 2) <=> section.sp # NULL /\ section.base # NULL
        /\ Found(order, 3) <=> section.sp # NULL /\ section.base # NULL /\ section.bottom # NULL
    <3>1. /\ 1..1 = {1} /\ 1..2 = {1, 2} /\ 1..3 = {1, 2, 3}
          /\ order[1] = "sp" /\ order[2] = "base" /\ order[3] = "bottom"
      BY <2>1
    <3>2. QED
      BY <3>1 DEF Found
  <2>3. /\ read.sp = IF Found(order, 1) THEN section.sp ELSE 0
        /\ read.base = IF Found(order, 2) THEN section.base ELSE 0
        /\ read.bottom = IF Found(order, 3) THEN section.bottom ELSE 0
        /\ read.stackstr = NULL
    BY <2>1 DEF TRY_GET_VAL, NoStack
  <2>4. QED
    BY <1>2, <2>1, <2>2, <2>3
<1>3. QED
  BY <1>1, <1>2

LEMMA PrintingAdvance ==
    ASSUME PlaceInv, pc = "phases", Advance, NEW o
    PROVE  /\ Printing(o)' = Printing(o) \cup
                 (IF InSection("stack") /\ WhoseStack(n, i) = o THEN {i} ELSE {})
           /\ i \notin Printing(o)
<1>1. \A j : WhoseStack(n, j)' = WhoseStack(n, j)
  BY DEF Advance, WhoseStack, ParseOp
<1>2. i \notin Printing(o)
  BY DoneAdvance DEF Printing
<1>3. CASE InSection("stack")
  <2>1. Done("stack")' = Done("stack") \cup {i}
    BY <1>3, DoneAdvance DEF InSection
  <2>2. QED
    BY <1>1, <1>2, <1>3, <2>1 DEF Printing
<1>4. CASE ~InSection("stack")
  <2>1. Done("stack")' = Done("stack")
    BY <1>4, DoneAdvance DEF InSection
  <2>2. QED
    BY <1>1, <1>2, <1>4, <2>1 DEF Printing
<1>5. QED
  BY <1>3, <1>4

(* What phase2val_stack makes of an empty stack, and of the other one. *)
LEMMA StackRead ==
    ASSUME StackInv, phase2val_stack
    PROVE  /\ \A q \in Owner : q # WhoseStack(n, i) => stack'[q] = stack[q]
           /\ \A o \in Owner : o = WhoseStack(n, i) /\ stack[o] = NoStack =>
                 /\ stack'[o].base \in {0, section.base} /\ stack'[o].bottom \in {0, section.bottom}
                 /\ stack'[o].sp = OwnSp(i)
                 /\ stack'[o].stackstr # NULL =>
                       /\ stack'[o].base = section.base /\ stack'[o].bottom = section.bottom
                       /\ ParseOp(n, i).param # "printed" => section.sp # NULL
<1> DEFINE param == ParseOp(n, i).param
           order == Order(param)
           o == WhoseStack(n, i)
           read == TRY_GET_VAL(order, stack[o])
           all == Found(order, Len(order))
<1>1. CASE o \notin Owner
  BY <1>1 DEF phase2val_stack
<1>2. CASE o \in Owner
  <2>1. PICK new : /\ stack' = [stack EXCEPT ![o] = new]
                   /\ new = read \/ (all /\ \E b : new = [read EXCEPT !.stackstr = b])
    BY <1>2 DEF phase2val_stack
  <2>2. stack'[o] = new /\ \A q \in Owner : q # o => stack'[q] = stack[q]
    BY <1>2, <2>1 DEF StackInv
  <2>3. ASSUME stack[o] = NoStack
        PROVE  /\ new.base \in {0, section.base} /\ new.bottom \in {0, section.bottom}
               /\ new.sp = OwnSp(i)
               /\ new.stackstr # NULL =>
                     /\ new.base = section.base /\ new.bottom = section.bottom
                     /\ param # "printed" => section.sp # NULL
    <3>1. /\ read.base \in {0, section.base} /\ read.bottom \in {0, section.bottom}
          /\ read.sp = OwnSp(i) /\ read.stackstr = NULL
          /\ all => /\ read.base = section.base /\ read.bottom = section.bottom
                    /\ param # "printed" => section.sp # NULL
      BY <2>3, ReadFields DEF OwnSp, section
    <3>2. DOMAIN read = {"base", "bottom", "sp", "stackstr"}
      BY <2>3 DEF TRY_GET_VAL, NoStack
    <3> HIDE DEF read, all, param
    <3>3. new = read \/ (all /\ new.base = read.base /\ new.bottom = read.bottom /\ new.sp = read.sp)
      BY <2>1, <3>2
    <3>4. QED
      BY <3>1, <3>3
  <2>4. QED
    BY <1>2, <2>2, <2>3
<1>3. QED
  BY <1>1, <1>2

(* Steps that touch no stack. *)
LEMMA PrintedSame ==
    ASSUME PrintedInv, pc # "next", pc # "push", pc' # "push",
           UNCHANGED <<text, n, stack>>, \A o \in Owner : Printing(o)' = Printing(o)
    PROVE  PrintedInv'
<1>1. \A j : ParseOp(n, j)' = ParseOp(n, j) /\ phases' = phases
  BY DEF ParseOp, phases
<1>2. \A j : OwnSp(j)' = OwnSp(j)
  BY <1>1 DEF OwnSp
<1>3. \A o \in Owner : \A j : PrintedBy(o, j) => PrintedBy(o, j)'
  BY <1>1, <1>2 DEF PrintedBy
<1>4. QED
  BY <1>3 DEF PrintedInv

LEMMA PrintedStep == PlaceInv /\ StackInv /\ PrintedInv /\ [Next]_vars => PrintedInv'
<1> SUFFICES ASSUME PlaceInv, StackInv, PrintedInv, [Next]_vars PROVE PrintedInv'
  OBVIOUS
<1>1. CASE NextRecord
  <2>1. Done("stack")' = {}
    <3>1. n' \in DOMAIN text /\ text' = text /\ pc' = "phases" /\ i' = 1
      BY <1>1, FieldsAssumption DEF NextRecord, PlaceInv
    <3>2. DOMAIN phases' \subseteq Nat \ {0}
      BY <3>1, FieldsAssumption DEF PlaceInv, phases
    <3>3. QED
      BY <3>1, <3>2 DEF Done
  <2>2. \A o : Printing(o)' = {}
    BY <2>1 DEF Printing
  <2>3. \A o \in Owner : stack'[o] = NoStack
    BY <1>1 DEF NextRecord, Cleared
  <2>4. QED
    BY <2>2, <2>3 DEF PrintedInv
<1>2. CASE PushAndRelease
  BY <1>2 DEF PushAndRelease, PrintedInv
<1>3. CASE phase2val_stack
  <2>1. pc = "phases" /\ Advance /\ InSection("stack") /\ pc' # "push" /\ pc' # "next"
    BY <1>3 DEF phase2val_stack, InSection, Advance
  <2>2. /\ UNCHANGED <<text, n>> /\ phases' = phases
        /\ \A j : ParseOp(n, j)' = ParseOp(n, j) /\ OwnSp(j)' = OwnSp(j)
    BY <2>1 DEF Advance, ParseOp, phases, OwnSp
  <2>3. ASSUME NEW o \in Owner, o # WhoseStack(n, i)
        PROVE  /\ Printing(o)' = {} => stack'[o] = NoStack
               /\ \A j \in Printing(o)' : Printing(o)' = {j} => PrintedBy(o, j)'
    <3>1. stack'[o] = stack[o] /\ Printing(o)' = Printing(o)
      BY <1>3, <2>1, <2>3, StackRead, PrintingAdvance
    <3>2. \A j : PrintedBy(o, j) => PrintedBy(o, j)'
      BY <2>1, <2>2, <3>1 DEF PrintedBy
    <3>3. QED
      BY <2>1, <3>1, <3>2 DEF PrintedInv
  <2>4. ASSUME NEW o \in Owner, o = WhoseStack(n, i)
        PROVE  /\ Printing(o)' = {} => stack'[o] = NoStack
               /\ \A j \in Printing(o)' : Printing(o)' = {j} => PrintedBy(o, j)'
    <3>1. Printing(o)' = Printing(o) \cup {i} /\ i \notin Printing(o)
      BY <2>1, <2>4, PrintingAdvance
    <3>2. ASSUME NEW j \in Printing(o)', Printing(o)' = {j}
          PROVE  PrintedBy(o, j)'
      <4>1. j = i /\ Printing(o) = {}
        BY <3>1, <3>2
      <4>2. stack[o] = NoStack
        BY <2>1, <4>1 DEF PrintedInv
      <4>3. /\ stack'[o].base \in {0, phases[i].base} /\ stack'[o].bottom \in {0, phases[i].bottom}
            /\ stack'[o].sp = OwnSp(i)
            /\ stack'[o].stackstr # NULL =>
                  /\ stack'[o].base = phases[i].base /\ stack'[o].bottom = phases[i].bottom
                  /\ ParseOp(n, i).param # "printed" => phases[i].sp # NULL
        BY <1>3, <2>4, <4>2, StackRead DEF section
      <4>4. /\ stack'[o].base \in {0, phases[j].base} /\ stack'[o].bottom \in {0, phases[j].bottom}
            /\ stack'[o].sp = OwnSp(j)
            /\ stack'[o].stackstr # NULL =>
                  /\ stack'[o].base = phases[j].base /\ stack'[o].bottom = phases[j].bottom
                  /\ ParseOp(n, j).param # "printed" => phases[j].sp # NULL
        BY <4>1, <4>3
      <4>5. QED
        BY <2>1, <2>2, <4>4 DEF PrintedBy
    <3>3. QED
      BY <3>1, <3>2
  <2>5. QED
    BY <2>3, <2>4 DEF PrintedInv
<1>4. CASE Skipped \/ phase2val_line \/ phase2val_reg \/ phase2val_soinfo \/ phase2val_bt
  <2>1. /\ pc = "phases" /\ Advance /\ UNCHANGED <<text, n, stack>> /\ pc' # "push"
        /\ ParseOp(n, i).func # "stack"
    BY <1>4, FieldsAssumption
       DEF Skipped, phase2val_line, phase2val_reg, phase2val_soinfo, phase2val_bt, InSection, Advance, rec
  <2>2. \A o : Printing(o)' = Printing(o)
    BY <2>1, PrintingAdvance DEF InSection
  <2>3. QED
    BY <2>1, <2>2, PrintedSame
<1>5. CASE SetSp
  <2>1. pc = "sp" /\ pc' = "push" /\ UNCHANGED <<text, n, i, regstr>>
    BY <1>5 DEF SetSp
  <2>2. \A o : Printing(o)' = Printing(o)
    <3>1. phases' = phases /\ \A k, j : ParseOp(k, j)' = ParseOp(k, j)
      BY <2>1 DEF phases, ParseOp
    <3>2. Done("stack")' = Done("stack") /\ \A k, j : WhoseStack(k, j)' = WhoseStack(k, j)
      BY <2>1, <3>1 DEF Done, WhoseStack
    <3>3. QED
      BY <2>1, <3>2 DEF Printing
  <2>3. /\ phases' = phases /\ SP' = SP
        /\ \A j : ParseOp(n, j)' = ParseOp(n, j) /\ OwnSp(j)' = OwnSp(j)
    BY <2>1 DEF ParseOp, phases, OwnSp, SP
  <2>4. /\ DOMAIN stack' = Owner
        /\ \A o \in Owner :
              /\ stack'[o].base = stack[o].base /\ stack'[o].bottom = stack[o].bottom
              /\ stack'[o].stackstr = stack[o].stackstr
              /\ stack'[o].sp = IF o \in TaskFirst /\ stack[o].sp = 0 THEN SP ELSE stack[o].sp
    BY <1>5 DEF SetSp, StackInv
  <2>5. TaskFirst' = TaskFirst
    BY <2>4 DEF TaskFirst, WithContents
  <2>6. ASSUME NEW o \in Owner, NEW j, PrintedBy(o, j)
        PROVE  PrintedBy(o, j)'
    BY <2>1, <2>3, <2>4, <2>5, <2>6 DEF PrintedBy
  <2>7. QED
    BY <2>1, <2>2, <2>6 DEF PrintedInv
<1>6. CASE UNCHANGED vars
  <2>1. UNCHANGED <<text, n, i, pc, stack, regstr>>
    BY <1>6 DEF vars, rec
  <2>2. \A o : Printing(o)' = Printing(o)
    BY <2>1 DEF Printing, Done, WhoseStack, ParseOp, phases
  <2>3. \A o, j : PrintedBy(o, j)' = PrintedBy(o, j)
    BY <2>1 DEF PrintedBy, ParseOp, phases, OwnSp, SP, TaskFirst, WithContents
  <2>4. QED
    BY <2>1, <2>2, <2>3 DEF PrintedInv
<1>7. QED
  BY <1>1, <1>2, <1>3, <1>4, <1>5, <1>6 DEF Next

LEMMA PrintedAlways == Spec => [](PlaceInv /\ StackInv /\ PrintedInv)
<1>1. Init => PlaceInv /\ StackInv /\ PrintedInv
  <2> SUFFICES ASSUME Init PROVE PlaceInv /\ StackInv /\ PrintedInv
    OBVIOUS
  <2>1. PlaceInv /\ PrintedInv
    BY FieldsAssumption DEF Init, PlaceInv, PrintedInv
  <2>2. StackInv
    BY DEF Init, NoStack, StackInv
  <2>3. QED
    BY <2>1, <2>2
<1>2. PlaceInv /\ StackInv /\ PrintedInv /\ [Next]_vars => (PlaceInv /\ StackInv /\ PrintedInv)'
  BY PlaceStep, StackStep, PrintedStep
<1>3. QED
  BY <1>1, <1>2, PTL DEF Spec

(* A stack that one section of the exception prints has the numbers of that *)
(* section, all of them when it has its text, and no other SP than its own  *)
(* or that of the registers (phase2val_stack and the end of phases2val).    *)
THEOREM StacksAreTheirSections == Spec => []StackOfItsSection
<1>1. PrintedInv => StackOfItsSection
  BY DEF PrintedInv, PrintedBy, StackOfItsSection, OwnSp
<1>2. QED
  BY <1>1, PrintedAlways, PTL

-----------------------------------------------------------------------------
(* The sp of each stack is the last that was printed for it, or 0; the end  *)
(* of phases2val gives the SP register to one stack.                        *)
SpInv ==
    pc # "next" => \A o \in Owner :
        stack[o].sp = IF pc = "push" /\ o \in TaskFirst /\ SectionSp(o) = 0 THEN SP ELSE SectionSp(o)

(* What phase2val_stack leaves of the sp of a stack. *)
LEMMA SpRead ==
    ASSUME StackInv, phase2val_stack, NEW o \in Owner
    PROVE  stack'[o].sp = IF o = WhoseStack(n, i) /\ ParseOp(n, i).param # "printed" /\ section.sp # NULL
                          THEN section.sp ELSE stack[o].sp
<1> DEFINE param == ParseOp(n, i).param
           order == Order(param)
           w == WhoseStack(n, i)
           read == TRY_GET_VAL(order, stack[w])
<1>1. CASE w \notin Owner
  BY <1>1 DEF phase2val_stack
<1>2. CASE w \in Owner
  <2>1. PICK new : /\ stack' = [stack EXCEPT ![w] = new]
                   /\ new = read \/ (\E b : new = [read EXCEPT !.stackstr = b])
    BY <1>2 DEF phase2val_stack
  <2>2. stack'[w] = new /\ \A q \in Owner : q # w => stack'[q] = stack[q]
    BY <1>2, <2>1 DEF StackInv
  <2>3. /\ DOMAIN read = {"base", "bottom", "sp", "stackstr"}
        /\ read.sp = IF \E r \in DOMAIN order : order[r] = "sp" /\ Found(order, r)
                     THEN section.sp ELSE stack[w].sp
    BY <1>2 DEF TRY_GET_VAL, StackInv
  <2>4. CASE param = "printed"
    <3>1. order = <<"bottom", "base">>
      BY <2>4 DEF Order
    <3>2. \A r \in DOMAIN order : order[r] # "sp"
      BY <3>1
    <3>3. read.sp = stack[w].sp
      BY <2>3, <3>2
    <3> HIDE DEF read, param, order
    <3>4. new.sp = read.sp
      BY <2>1, <2>3
    <3>5. QED
      BY <2>2, <2>4, <3>3, <3>4 DEF param
  <2>5. CASE param # "printed"
    <3>1. order = <<"sp", "base", "bottom">>
      BY <2>5 DEF Order
    <3>2. /\ DOMAIN order = {1, 2, 3} /\ order[1] = "sp" /\ order[2] # "sp" /\ order[3] # "sp"
          /\ 1..1 = {1}
      BY <3>1
    <3>3. Found(order, 1) <=> section.sp # NULL
      BY <3>2 DEF Found
    <3>4. read.sp = IF section.sp # NULL THEN section.sp ELSE stack[w].sp
      BY <2>3, <3>2, <3>3
    <3> HIDE DEF read, param, order
    <3>5. new.sp = read.sp
      BY <2>1, <2>3
    <3>6. QED
      BY <2>2, <2>5, <3>4, <3>5 DEF param
  <2>6. QED
    BY <2>4, <2>5
<1>3. QED
  BY <1>1, <1>2

(* The last sp printed for a stack, when phases2val goes on.                *)
LEMMA SectionSpAdvance ==
    ASSUME PlaceInv, pc = "phases", Advance, NEW o
    PROVE  SectionSp(o)' = IF /\ InSection("stack") /\ o = WhoseStack(n, i)
                              /\ ParseOp(n, i).param # "printed" /\ section.sp # NULL
                           THEN section.sp ELSE SectionSp(o)
<1> DEFINE S == {j \in Printing(o) : ParseOp(n, j).param # "printed" /\ phases[j].sp # NULL}
           T == {j \in Printing(o)' : ParseOp(n, j).param # "printed" /\ phases[j].sp # NULL}
           new == /\ InSection("stack") /\ o = WhoseStack(n, i)
                  /\ ParseOp(n, i).param # "printed" /\ section.sp # NULL
<1>1. UNCHANGED <<n, phases>> /\ \A j : ParseOp(n, j)' = ParseOp(n, j)
  BY DoneAdvance DEF Advance, ParseOp
<1>2. SectionSp(o)' = IF T = {} THEN 0 ELSE phases[Max(T)].sp
  BY <1>1 DEF SectionSp
<1>3. T = S \cup (IF new THEN {i} ELSE {})
  BY PrintingAdvance DEF section
<1>4. i \in Nat /\ \A j \in S : j \in Nat /\ j < i
  BY DoneAdvance DEF Printing
<1>5. CASE new
  <2>1. T \subseteq Nat /\ i \in T /\ \A y \in T : y <= i
    BY <1>3, <1>4, <1>5
  <2> HIDE DEF S, T, new
  <2>2. Max(T) = i
    BY <2>1, MaxIs
  <2>3. QED
    BY <1>2, <1>5, <2>1, <2>2 DEF section, new
<1>6. CASE ~ new
  <2>1. T = S
    BY <1>3, <1>6
  <2>2. QED
    BY <1>2, <1>6, <2>1 DEF SectionSp
<1>7. QED
  BY <1>5, <1>6

LEMMA SpStep == PlaceInv /\ StackInv /\ SpInv /\ [Next]_vars => SpInv'
<1> SUFFICES ASSUME PlaceInv, StackInv, SpInv, [Next]_vars PROVE SpInv'
  OBVIOUS
<1>1. CASE NextRecord
  <2>1. Done("stack")' = {}
    <3>1. n' \in DOMAIN text /\ text' = text /\ pc' = "phases" /\ i' = 1
      BY <1>1, FieldsAssumption DEF NextRecord, PlaceInv
    <3>2. DOMAIN phases' \subseteq Nat \ {0}
      BY <3>1, FieldsAssumption DEF PlaceInv, phases
    <3>3. QED
      BY <3>1, <3>2 DEF Done
  <2>2. \A o : SectionSp(o)' = 0
    BY <2>1 DEF Printing, SectionSp
  <2>3. pc' = "phases" /\ \A o \in Owner : stack'[o].sp = 0
    BY <1>1 DEF NextRecord, Cleared, NoStack
  <2>4. QED
    BY <2>2, <2>3 DEF SpInv
<1>2. CASE PushAndRelease
  BY <1>2 DEF PushAndRelease, SpInv
<1>3. CASE phase2val_stack
  <2>1. pc = "phases" /\ Advance /\ InSection("stack") /\ pc' # "push"
    BY <1>3 DEF phase2val_stack, InSection, Advance
  <2>2. ASSUME NEW o \in Owner PROVE stack'[o].sp = SectionSp(o)'
    <3>1. stack[o].sp = SectionSp(o)
      BY <2>1 DEF SpInv
    <3>2. QED
      BY <1>3, <2>1, <3>1, SpRead, SectionSpAdvance
  <2>3. QED
    BY <2>1, <2>2 DEF SpInv
<1>4. CASE Skipped \/ phase2val_line \/ phase2val_reg \/ phase2val_soinfo \/ phase2val_bt
  <2>1. /\ pc = "phases" /\ Advance /\ UNCHANGED stack /\ pc' # "push"
        /\ ParseOp(n, i).func # "stack"
    BY <1>4, FieldsAssumption
       DEF Skipped, phase2val_line, phase2val_reg, phase2val_soinfo, phase2val_bt, InSection, Advance, rec
  <2>2. \A o : SectionSp(o)' = SectionSp(o)
    BY <2>1, SectionSpAdvance DEF InSection
  <2>3. QED
    BY <2>1, <2>2 DEF SpInv
<1>5. CASE SetSp
  <2>1. pc = "sp" /\ pc' = "push" /\ UNCHANGED <<text, n, i, regstr>>
    BY <1>5 DEF SetSp
  <2>2. phases' = phases /\ SP' = SP /\ \A k, j : ParseOp(k, j)' = ParseOp(k, j)
    BY <2>1 DEF ParseOp, phases, SP
  <2>3. \A o : SectionSp(o)' = SectionSp(o)
    <3>1. Done("stack")' = Done("stack") /\ \A k, j : WhoseStack(k, j)' = WhoseStack(k, j)
      BY <2>1, <2>2 DEF Done, WhoseStack
    <3>2. QED
      BY <2>1, <2>2, <3>1 DEF Printing, SectionSp
  <2>4. \A o \in Owner :
           /\ stack'[o].stackstr = stack[o].stackstr
           /\ stack'[o].sp = IF o \in TaskFirst /\ stack[o].sp = 0 THEN SP ELSE stack[o].sp
    BY <1>5 DEF SetSp, StackInv
  <2>5. TaskFirst' = TaskFirst
    BY <2>4 DEF TaskFirst, WithContents
  <2>6. \A o \in Owner : stack[o].sp = SectionSp(o)
    BY <2>1 DEF SpInv
  <2>7. QED
    BY <2>1, <2>2, <2>3, <2>4, <2>5, <2>6 DEF SpInv
<1>6. CASE UNCHANGED vars
  <2>1. UNCHANGED <<text, n, i, pc, stack, regstr>>
    BY <1>6 DEF vars, rec
  <2>2. \A o : SectionSp(o)' = SectionSp(o)
    BY <2>1 DEF SectionSp, Printing, Done, WhoseStack, ParseOp, phases
  <2>3. SP' = SP /\ TaskFirst' = TaskFirst
    BY <2>1 DEF SP, TaskFirst, WithContents, phases
  <2>4. QED
    BY <2>1, <2>2, <2>3 DEF SpInv
<1>7. QED
  BY <1>1, <1>2, <1>3, <1>4, <1>5, <1>6 DEF Next

(* The stack item_setstack shows has the SP printed last for it, or else    *)
(* that of the registers when the record has no text of the other stack;    *)
(* with both, the register is the task's stack's and the job's, which is    *)
(* shown, has 0 (the end of phases2val against item_setstack).              *)
THEOREM StackPointerShown == Spec => []ShownSp
<1> DEFINE Inv == PlaceInv /\ StackInv /\ SpInv
<1>1. Init => Inv
  BY FieldsAssumption DEF Init, PlaceInv, StackInv, NoStack, SpInv
<1>2. Inv /\ [Next]_vars => Inv'
  BY PlaceStep, StackStep, SpStep
<1>3. Inv => ShownSp
  <2> SUFFICES ASSUME SpInv, pc = "push"
               PROVE  /\ \A o \in shown : stack[o].sp = IF SectionSp(o) # 0 THEN SectionSp(o)
                                                        ELSE IF WithContents = {o} THEN SP ELSE 0
                      /\ \A o \in WithContents \ shown :
                            stack[o].sp = IF SectionSp(o) # 0 THEN SectionSp(o) ELSE SP
    BY DEF ShownSp
  <2>1. WithContents \subseteq {"task", "job"}
    BY DEF WithContents, Owner
  <2>2. \A o \in WithContents :
           stack[o].sp = IF o \in TaskFirst /\ SectionSp(o) = 0 THEN SP ELSE SectionSp(o)
    BY DEF SpInv, WithContents
  <2>3. \A o \in shown : o \in WithContents /\ (o \in TaskFirst <=> WithContents = {o})
    BY <2>1 DEF shown, JobFirst, TaskFirst
  <2>4. \A o \in WithContents \ shown : o \in TaskFirst
    BY <2>1 DEF shown, JobFirst, TaskFirst
  <2>5. QED
    BY <2>2, <2>3, <2>4
<1> HIDE DEF Inv
<1>4. QED
  BY <1>1, <1>2, <1>3, PTL DEF Spec
=============================================================================
