--------------------------- MODULE ExcAnalyserProofs --------------------------
(***************************************************************************)
(* Theorems about ExcAnalyser, for every length of the backtraces, every   *)
(* set of records and every string table.                                  *)
(***************************************************************************)
EXTENDS ExcAnalyser, FiniteSetTheorems, TLAPS

(* While a record is analysed there is one, and analyse_deadlock has as     *)
(* many frames left as follow btitem.                                       *)
RecordInv == pc # "idle" => rec \in Record
SearchInv == btnum \in Nat /\ btitem \in Nat
IInv == RecordInv /\ SearchInv /\ FramesInBounds

(* The backtrace of a record has a length. *)
LEMMA Backtrace ==
    ASSUME NEW r \in Record
    PROVE  /\ Len(r.btfunc) \in Nat /\ (r.btfunc = <<>> <=> Len(r.btfunc) = 0)
           /\ DOMAIN r.btfunc = 1..Len(r.btfunc)
<1>1. PICK n \in 0..MaxFrames : r.btfunc \in [1..n -> FuncNames]
  BY DEF Record
<1>2. n \in Nat
  BY AnalyserAssumption
<1>3. r.btfunc \in Seq(FuncNames)
  BY <1>1, <1>2
<1>4. QED
  BY <1>3

LEMMA InitInv == Init => IInv
BY DEF Init, IInv, RecordInv, SearchInv, FramesInBounds

LEMMA StepInv == IInv /\ [Next]_vars => IInv'
<1> SUFFICES ASSUME IInv, [Next]_vars PROVE IInv'
  OBVIOUS
<1> USE DEF IInv, RecordInv, SearchInv, FramesInBounds
<1>1. CASE Analyse
  BY <1>1, AnalyserAssumption DEF Analyse, search
<1>2. CASE Analyser_Init
  BY <1>2 DEF Analyser_Init, search
<1>3. CASE analyse_baseinfo \/ analyse_exc \/ analyse_deadloop \/ analyse_stackoverflow
  BY <1>3 DEF analyse_baseinfo, analyse_exc, analyse_deadloop, analyse_stackoverflow,
              Call, GoOn, Conclude, search
<1>4. CASE analyse_deadlock
  <2>1. pc = "walk" /\ rec \in Record /\ rec' = rec
    BY <1>4 DEF analyse_deadlock, Call
  <2>2. CASE UNCHANGED search /\ GoOn
    BY <2>1, <2>2 DEF search, GoOn
  <2>3. CASE btnum' = Len(rec.btfunc) /\ btitem' = 1
    BY <2>1, <2>3, Backtrace
  <2>4. QED
    BY <1>4, <2>2, <2>3 DEF analyse_deadlock
<1>5. CASE SkipHandler
  <2>1. pc = "handler" /\ rec \in Record /\ rec' = rec /\ Len(rec.btfunc) \in Nat
    BY <1>5, Backtrace DEF SkipHandler
  <2>2. CASE btnum > 0 /\ Skip
    BY <2>1, <2>2 DEF Skip
  <2>3. CASE Restart
    BY <2>1, <2>3 DEF Restart
  <2>4. QED
    BY <1>5, <2>1, <2>2, <2>3 DEF SkipHandler
<1>6. CASE SearchFrames
  <2>1. pc = "frames" /\ rec \in Record /\ rec' = rec /\ Len(rec.btfunc) \in Nat
    BY <1>6, Backtrace DEF SearchFrames
  <2>2. CASE btnum > 0 /\ Skip
    BY <2>1, <2>2 DEF Skip
  <2>3. CASE Conclude /\ UNCHANGED search
    BY <2>3 DEF Conclude, search
  <2>4. QED
    BY <1>6, <2>2, <2>3 DEF SearchFrames
<1>7. CASE UNCHANGED vars
  BY <1>7 DEF vars, search
<1>8. QED
  BY <1>1, <1>2, <1>3, <1>4, <1>5, <1>6, <1>7 DEF Next, Step

(* The loops of analyse_deadlock stay in the backtrace, also when the       *)
(* search starts over, for every backtrace.                                 *)
THEOREM SearchStaysInBacktrace == Spec => []FramesInBounds
<1>1. IInv => FramesInBounds
  BY DEF IInv
<1>2. QED
  BY <1>1, InitInv, StepInv, PTL DEF Spec

-----------------------------------------------------------------------------
(* There are five modules. *)
LEMMA Modules == Cardinality(Module) = 5
<1> DEFINE A == {"normal"}
           B == A \cup {"deadloop"}
           C == B \cup {"deadlock"}
           D == C \cup {"stackoverflow"}
<1>1. IsFiniteSet(A) /\ Cardinality(A) = 1
  BY FS_Singleton
<1>2. IsFiniteSet(B) /\ Cardinality(B) = 2
  <2>1. "deadloop" \notin A
    OBVIOUS
  <2>2. QED
    BY <1>1, <2>1, FS_AddElement
<1>3. IsFiniteSet(C) /\ Cardinality(C) = 3
  <2>1. "deadlock" \notin B
    OBVIOUS
  <2>2. QED
    BY <1>2, <2>1, FS_AddElement
<1>4. IsFiniteSet(D) /\ Cardinality(D) = 4
  <2>1. "stackoverflow" \notin C
    OBVIOUS
  <2>2. QED
    BY <1>3, <2>1, FS_AddElement
<1>5. Cardinality(D \cup {"exc"}) = 5
  <2>1. "exc" \notin D
    OBVIOUS
  <2>2. QED
    BY <1>4, <2>1, FS_AddElement
<1>6. Module = D \cup {"exc"}
  BY DEF Module
<1>7. QED
  BY <1>5, <1>6

(* What Behind says of itself; it is total, as a list has five links. *)
Links(a, nx) ==
    [n \in 0..Cardinality(Module) |->
        IF n = 0 THEN s_ModuleList ELSE IF a[n-1] = NONE THEN NONE ELSE nx[a[n-1]]]

LEMMA BehindIs ==
    ASSUME NEW nx
    PROVE  Behind(nx) = Links(Behind(nx), nx)
<1> DEFINE Follow(m) == IF m = NONE THEN NONE ELSE nx[m]
           b1 == Follow(s_ModuleList)
           b2 == Follow(b1)
           b3 == Follow(b2)
           b4 == Follow(b3)
           b5 == Follow(b4)
           b  == [n \in 0..5 |-> IF n = 0 THEN s_ModuleList ELSE IF n = 1 THEN b1 ELSE
                                 IF n = 2 THEN b2 ELSE IF n = 3 THEN b3 ELSE IF n = 4 THEN b4 ELSE b5]
           at[n \in 0..Cardinality(Module)] ==
               IF n = 0 THEN s_ModuleList ELSE IF at[n-1] = NONE THEN NONE ELSE nx[at[n-1]]
<1>1. b = Links(b, nx)
  <2> HIDE DEF b1, b2, b3, b4, b5
  <2>1. b[0] = s_ModuleList /\ b[1] = b1 /\ b[2] = b2 /\ b[3] = b3 /\ b[4] = b4 /\ b[5] = b5
    OBVIOUS
  <2>2. /\ b1 = Follow(b[0]) /\ b2 = Follow(b[1]) /\ b3 = Follow(b[2])
        /\ b4 = Follow(b[3]) /\ b5 = Follow(b[4])
    BY <2>1 DEF b1, b2, b3, b4, b5
  <2> HIDE DEF b
  <2>3. ASSUME NEW n \in 0..5
        PROVE  b[n] = IF n = 0 THEN s_ModuleList ELSE Follow(b[n-1])
    <3>1. n = 0 \/ n = 1 \/ n = 2 \/ n = 3 \/ n = 4 \/ n = 5
      OBVIOUS
    <3>2. QED
      BY <2>1, <2>2, <3>1
  <2>4. b = [n \in 0..5 |-> IF n = 0 THEN s_ModuleList ELSE Follow(b[n-1])]
    BY <2>3 DEF b
  <2>5. QED
    BY <2>4, Modules DEF Links
<1>2. Behind(nx) = at
  BY DEF Behind
<1>3. at = CHOOSE a : a = Links(a, nx)
  BY DEF Links
<1>4. at = Links(at, nx)
  BY <1>1, <1>3
<1>5. QED
  BY <1>2, <1>4

(* The links nx lead from the head along s, which has no module twice, and  *)
(* end there.                                                               *)
Chained(s, nx) ==
    /\ s \in Seq(Module) /\ Len(s) \in 1..5
    /\ s_ModuleList = s[1]
    /\ \A j \in 1..Len(s) : nx[s[j]] = IF j = Len(s) THEN NONE ELSE s[j+1]
    /\ \A j, k \in 1..Len(s) : s[j] = s[k] => j = k

Has(s, m) == \E j \in 1..Len(s) : s[j] = m

(* A list that ends is what ModuleList finds. *)
LEMMA ListFound ==
    ASSUME NEW nx, NEW s, Chained(s, nx)
    PROVE  ModuleList(nx) = s
<1>0. s \in Seq(Module) /\ Len(s) \in 1..5
  BY DEF Chained
<1> PICK c \in 1..5 : c = Len(s)
  BY <1>0
<1> DEFINE b == Behind(nx)
           P(n) == b[n] = IF n < c THEN s[n+1] ELSE NONE
<1>1. \A j \in 1..c : s[j] \in Module /\ s[j] # NONE
  BY <1>0, AnalyserAssumption
<1>2. /\ DOMAIN b = 0..5 /\ b[0] = s_ModuleList
      /\ \A n \in 1..5 : b[n] = IF b[n-1] = NONE THEN NONE ELSE nx[b[n-1]]
  <2> DEFINE L == Links(b, nx)
  <2>1. b = L
    BY BehindIs
  <2>2. L = [n \in 0..5 |-> IF n = 0 THEN s_ModuleList ELSE IF b[n-1] = NONE THEN NONE ELSE nx[b[n-1]]]
    BY Modules DEF Links
  <2> HIDE DEF b, L
  <2>3. QED
    BY <2>1, <2>2
<1> HIDE DEF b
<1>3. P(0)
  BY <1>0, <1>2 DEF Chained
<1>4. ASSUME NEW n \in 0..4, P(n)
      PROVE  P(n+1)
  <2>1. n + 1 \in 1..5 /\ (n + 1) - 1 = n /\ b[n+1] = IF b[n] = NONE THEN NONE ELSE nx[b[n]]
    BY <1>2
  <2>2. CASE n < c
    <3>1. b[n] = s[n+1] /\ n + 1 \in 1..c /\ s[n+1] # NONE
      BY <1>0, <1>1, <1>4, <2>2
    <3>2. nx[s[n+1]] = IF n + 1 = c THEN NONE ELSE s[(n+1)+1]
      BY <3>1 DEF Chained
    <3>3. QED
      BY <1>0, <2>1, <2>2, <3>1, <3>2
  <2>3. CASE ~(n < c)
    BY <1>0, <1>4, <2>1, <2>3
  <2>4. QED
    BY <2>2, <2>3
<1>5. \A n \in 0..5 : P(n)
  <2> HIDE DEF P
  <2>1. P(1)
    BY <1>3, <1>4
  <2>2. P(2)
    BY <2>1, <1>4
  <2>3. P(3)
    BY <2>2, <1>4
  <2>4. P(4)
    BY <2>3, <1>4
  <2>5. P(5)
    BY <2>4, <1>4
  <2>6. QED
    BY <1>3, <2>1, <2>2, <2>3, <2>4, <2>5
<1> DEFINE reached == {n \in 0..Cardinality(Module) : b[n] # NONE}
<1>6. reached = 0..(c-1)
  <2>1. \A n \in 0..5 : b[n] # NONE <=> n < c
    <3> SUFFICES ASSUME NEW n \in 0..5 PROVE b[n] # NONE <=> n < c
      OBVIOUS
    <3>1. n < c => n + 1 \in 1..c
      OBVIOUS
    <3>2. P(n)
      BY <1>5
    <3>3. QED
      BY <1>1, <3>1, <3>2
  <2>2. 0..(c-1) = {n \in 0..5 : n < c}
    OBVIOUS
  <2>3. reached = {n \in 0..5 : b[n] # NONE}
    BY Modules
  <2>4. QED
    BY <2>1, <2>2, <2>3
<1>7. Cardinality(0..(c-1)) = c
  <2>1. ASSUME NEW k \in Nat
        PROVE  Cardinality(0..k) = k + 1
    BY FS_Interval
  <2>2. c - 1 \in Nat /\ (c - 1) + 1 = c
    BY <1>0
  <2>3. QED
    BY <2>1, <2>2
<1>8. ModuleList(nx) = [j \in 1..c |-> b[j-1]]
  <2>1. ModuleList(nx) = [j \in 1..Cardinality(reached) |-> b[j-1]]
    BY DEF ModuleList, b
  <2> HIDE DEF reached
  <2>2. QED
    BY <1>6, <1>7, <2>1
<1>9. \A j \in 1..c : b[j-1] = s[j]
  <2> SUFFICES ASSUME NEW j \in 1..c PROVE b[j-1] = s[j]
    OBVIOUS
  <2>1. j - 1 \in 0..5 /\ j - 1 < c /\ (j - 1) + 1 = j
    BY <1>0
  <2>2. P(j-1)
    BY <1>5, <2>1
  <2>3. QED
    BY <2>1, <2>2
<1>10. s = [j \in 1..c |-> s[j]]
  BY <1>0
<1>11. [j \in 1..c |-> b[j-1]] = [j \in 1..c |-> s[j]]
  BY <1>9
<1>12. QED
  BY <1>8, <1>10, <1>11

-----------------------------------------------------------------------------
(* A list stays one when the link of a module outside is reset; it ends at  *)
(* a module of its own whose link is.                                       *)
LEMMA SeqLen ==
    ASSUME NEW S, NEW n \in Nat, NEW f \in [1..n -> S]
    PROVE  f \in Seq(S) /\ Len(f) = n
OBVIOUS

LEMMA Reset ==
    ASSUME NEW nx \in [Module -> Module \cup {NONE}], NEW s, Chained(s, nx),
           NEW m \in Module, ~Has(s, m)
    PROVE  Chained(s, [nx EXCEPT ![m] = NONE])
BY DEF Chained, Has

LEMMA OneMore == \A c \in 1..4 : c + 1 \in 1..5
OBVIOUS

LEMMA CutOff ==
    ASSUME NEW nx, NEW s, Chained(s, nx), NEW k \in 1..Len(s),
           NEW cut, cut[s[k]] = NONE, \A j \in 1..Len(s) : j # k => cut[s[j]] = nx[s[j]]
    PROVE  \E t : Chained(t, cut) /\ t[Len(t)] = s[k]
<1> DEFINE t == SubSeq(s, 1, k)
<1>0. s \in Seq(Module) /\ Len(s) \in 1..5
  BY DEF Chained
<1>1. t \in Seq(Module) /\ Len(t) = k /\ \A j \in 1..k : t[j] = s[j]
  BY <1>0
<1>2. \A j \in 1..Len(s) : s[j] \in Module
  BY <1>0
<1> HIDE DEF t
<1>3. \A j \in 1..k : cut[s[j]] = IF j = k THEN NONE ELSE s[j+1]
  BY <1>0, <1>2 DEF Chained
<1>4. Chained(t, cut)
  <2>1. t[1] = s_ModuleList
    BY <1>0, <1>1 DEF Chained
  <2>2. \A j \in 1..Len(t) : cut[t[j]] = IF j = Len(t) THEN NONE ELSE t[j+1]
    BY <1>0, <1>1, <1>3
  <2>3. \A j, l \in 1..Len(t) : t[j] = t[l] => j = l
    <3>1. \A j \in 1..Len(t) : j \in 1..Len(s) /\ t[j] = s[j]
      BY <1>0, <1>1
    <3>2. \A j, l \in 1..Len(s) : s[j] = s[l] => j = l
      BY DEF Chained
    <3>3. QED
      BY <3>1, <3>2
  <2>4. Len(t) \in 1..5
    BY <1>0, <1>1
  <2>5. QED
    BY <1>1, <2>1, <2>2, <2>3, <2>4 DEF Chained
<1>5. QED
  BY <1>0, <1>1, <1>4

(* A module put after the i-th of a list: the list is one module longer.    *)
Put(s, i, m) == [j \in 1..(Len(s)+1) |-> IF j <= i THEN s[j] ELSE IF j = i + 1 THEN m ELSE s[j-1]]

LEMMA PutAfter ==
    ASSUME NEW nx, NEW s, Chained(s, nx), Len(s) \in 1..4,
           NEW m \in Module, ~Has(s, m), NEW i \in 1..Len(s),
           NEW ny, ny[s[i]] = m, ny[m] = nx[s[i]],
           \A j \in 1..Len(s) : j # i => ny[s[j]] = nx[s[j]]
    PROVE  Chained(Put(s, i, m), ny)
<1> PICK c \in 1..4 : c = Len(s)
  OBVIOUS
<1> DEFINE t == Put(s, i, m)
<1>0. s \in Seq(Module) /\ Len(s) = c /\ \A j \in 1..c : s[j] \in Module /\ s[j] # m
  <2>1. s \in Seq(Module)
    BY DEF Chained
  <2>2. QED
    BY <2>1 DEF Has
<1>1. t \in Seq(Module) /\ Len(t) = c + 1
  <2>1. t \in [1..(c+1) -> Module] /\ c + 1 \in Nat
    BY <1>0 DEF Put
  <2>2. QED
    BY <2>1, SeqLen
<1>2. /\ \A j \in 1..i : t[j] = s[j]
      /\ t[i+1] = m
      /\ \A j \in (i+2)..(c+1) : t[j] = s[j-1]
  BY <1>0 DEF Put
<1> HIDE DEF t
<1>3. \A j \in 1..c : j # i => ny[s[j]] = nx[s[j]]
  OBVIOUS
<1>4. \A j \in 1..Len(t) : ny[t[j]] = IF j = Len(t) THEN NONE ELSE t[j+1]
  <2> SUFFICES ASSUME NEW j \in 1..(c+1)
               PROVE  ny[t[j]] = IF j = c + 1 THEN NONE ELSE t[j+1]
    BY <1>1
  <2>1. CASE j < i
    BY <1>0, <1>2, <1>3, <2>1 DEF Chained
  <2>2. CASE j = i
    BY <1>0, <1>2, <1>3, <2>2
  <2>3. CASE j = i + 1
    BY <1>0, <1>2, <1>3, <2>3 DEF Chained
  <2>4. CASE j > i + 1
    <3>1. t[j] = s[j-1] /\ j - 1 \in 1..c /\ j - 1 # i
      BY <1>0, <1>2, <2>4
    <3>2. ny[s[j-1]] = IF j - 1 = c THEN NONE ELSE s[(j-1)+1]
      BY <1>3, <3>1 DEF Chained
    <3>3. j # c + 1 => t[j+1] = s[j]
      BY <1>0, <1>2, <2>4
    <3>4. QED
      BY <1>0, <3>1, <3>2, <3>3
  <2>5. QED
    BY <1>0, <2>1, <2>2, <2>3, <2>4
<1>5. \A j, k \in 1..Len(t) : t[j] = t[k] => j = k
  <2> SUFFICES ASSUME NEW j \in 1..(c+1), NEW k \in 1..(c+1), t[j] = t[k]
               PROVE  j = k
    BY <1>1
  <2>1. t[j] = m <=> j = i + 1
    BY <1>0, <1>2
  <2>2. t[k] = m <=> k = i + 1
    BY <1>0, <1>2
  <2> DEFINE At(x) == IF x <= i THEN x ELSE x - 1
  <2>3. j # i + 1 => At(j) \in 1..c /\ t[j] = s[At(j)]
    BY <1>0, <1>2
  <2>4. k # i + 1 => At(k) \in 1..c /\ t[k] = s[At(k)]
    BY <1>0, <1>2
  <2>5. j # i + 1 /\ k # i + 1 => At(j) = At(k)
    BY <2>3, <2>4 DEF Chained
  <2>6. QED
    BY <1>0, <2>1, <2>2, <2>5
<1>6. s_ModuleList = t[1]
  BY <1>0, <1>2 DEF Chained
<1>7. Chained(t, ny)
  BY <1>0, <1>1, <1>4, <1>5, <1>6 DEF Chained
<1>8. QED
  BY <1>7 DEF t

-----------------------------------------------------------------------------
(* The calls of AddModule in Analyser_Init name every module once. *)
Mod(k) == Registration[k].mod

LEMMA Calls ==
    /\ Len(Registration) = 5 /\ Mod(1) = "normal"
    /\ \A k \in 1..5 : Mod(k) \in Module
    /\ \A j, k \in 1..5 : Mod(j) = Mod(k) => j = k
    /\ \A m \in Module : \E k \in 1..5 : Mod(k) = m
<1>1. /\ Mod(1) = "normal" /\ Mod(2) = "deadloop" /\ Mod(3) = "deadlock"
      /\ Mod(4) = "stackoverflow" /\ Mod(5) = "exc" /\ Len(Registration) = 5
  BY DEF Mod, Registration
<1>2. \A k \in 1..5 : k = 1 \/ k = 2 \/ k = 3 \/ k = 4 \/ k = 5
  OBVIOUS
<1>3. QED
  BY <1>1, <1>2 DEF Module

(* The list the first k calls of AddModule build, and where the next call   *)
(* finds its module's place.                                                *)
Listed(k) ==
    IF k = 1 THEN <<"normal">>
    ELSE IF k = 2 THEN <<"normal", "deadloop">>
    ELSE IF k = 3 THEN <<"normal", "deadloop", "deadlock">>
    ELSE IF k = 4 THEN <<"normal", "stackoverflow", "deadloop", "deadlock">>
    ELSE <<"normal", "exc", "stackoverflow", "deadloop", "deadlock">>
Place(k) == IF k = 2 THEN 2 ELSE 1
Prio(k) == Registration[k].priority

LEMMA Prios == /\ Prio(1) = 99 /\ Prio(2) = 80 /\ Prio(3) = 80 /\ Prio(4) = 79 /\ Prio(5) = 1
               /\ Mod(1) = "normal" /\ Mod(2) = "deadloop" /\ Mod(3) = "deadlock"
               /\ Mod(4) = "stackoverflow" /\ Mod(5) = "exc" /\ DOMAIN Registration = 1..5
BY DEF Prio, Mod, Registration

LEMMA Lists ==
    ASSUME NEW k \in 1..5
    PROVE  /\ Listed(k) \in Seq(Module) /\ Len(Listed(k)) = k /\ Listed(k)[1] = "normal"
           /\ \A x : Has(Listed(k), x) <=> \E j \in 1..k : Mod(j) = x
<1>1. k = 1 \/ k = 2 \/ k = 3 \/ k = 4 \/ k = 5
  OBVIOUS
<1>2. CASE k = 1
  BY <1>2, Prios DEF Listed, Has, Module
<1>3. CASE k = 2
  BY <1>3, Prios DEF Listed, Has, Module
<1>4. CASE k = 3
  BY <1>4, Prios DEF Listed, Has, Module
<1>5. CASE k = 4
  BY <1>5, Prios DEF Listed, Has, Module
<1>6. CASE k = 5
  BY <1>6, Prios DEF Listed, Has, Module
<1>7. QED
  BY <1>1, <1>2, <1>3, <1>4, <1>5, <1>6

(* The list of one call more has its module in its place. *)
LEMMA ListGrows ==
    ASSUME NEW k \in 1..4
    PROVE  Put(Listed(k), Place(k), Mod(k+1)) = Listed(k+1)
<1>1. k = 1 \/ k = 2 \/ k = 3 \/ k = 4
  OBVIOUS
<1>2. CASE k = 1
  BY <1>2, Prios DEF Listed, Place, Put
<1>3. CASE k = 2
  BY <1>3, Prios DEF Listed, Place, Put
<1>4. CASE k = 3
  BY <1>4, Prios DEF Listed, Place, Put
<1>5. CASE k = 4
  BY <1>5, Prios DEF Listed, Place, Put
<1>6. QED
  BY <1>1, <1>2, <1>3, <1>4, <1>5

(* The modules of the first k calls have their priorities. *)
Ranked(k) == \A j \in 1..k : priority[Mod(j)] = Prio(j)

(* The place AddModule finds. *)
LEMMA PlaceIs ==
    ASSUME NEW k \in 1..4, Ranked(k), NEW i \in 1..k, InsertsAfter(Listed(k), i, Prio(k+1))
    PROVE  i = Place(k)
<1>1. k = 1 \/ k = 2 \/ k = 3 \/ k = 4
  OBVIOUS
<1>2. CASE k = 1
  BY <1>2 DEF Place
<1>3. CASE k = 2
  BY <1>3, Prios DEF Listed, Place, Ranked, InsertsAfter
<1>4. CASE k = 3
  BY <1>4, Prios DEF Listed, Place, Ranked, InsertsAfter
<1>5. CASE k = 4
  BY <1>5, Prios DEF Listed, Place, Ranked, InsertsAfter
<1>6. QED
  BY <1>1, <1>2, <1>3, <1>4, <1>5

(* The list is the one the first k calls build. *)
Registered(k) == Chained(Listed(k), next) /\ Ranked(k)
NextType == next \in [Module -> Module \cup {NONE}] /\ DOMAIN priority = Module

(* The list has the module of the first call: calling it again is an error. *)
FirstThere == \E s : Chained(s, next) /\ Has(s, "normal")

LEMMA RegisteredFirst ==
    ASSUME NEW k \in 1..5, Registered(k)
    PROVE  FirstThere
BY Calls, Lists DEF Registered, FirstThere

LEMMA HeadIs ==
    ASSUME NEW s, NEW nx, Chained(s, nx)
    PROVE  s_ModuleList \in Module /\ s_ModuleList # NONE
<1>1. s \in Seq(Module) /\ Len(s) \in 1..5 /\ s_ModuleList = s[1]
  BY DEF Chained
<1>2. QED
  BY <1>1, AnalyserAssumption

LEMMA NothingFound ==
    ASSUME NEW nx, s_ModuleList = NONE
    PROVE  DOMAIN ModuleList(nx) = {}
<1> DEFINE b == Behind(nx)
           L == Links(b, nx)
           reached == {n \in 0..Cardinality(Module) : b[n] # NONE}
<1>1. b = L
  BY BehindIs
<1>2. L = [n \in 0..5 |-> IF n = 0 THEN NONE ELSE IF b[n-1] = NONE THEN NONE ELSE nx[b[n-1]]]
  BY Modules DEF Links
<1>3. ModuleList(nx) = [j \in 1..Cardinality(reached) |-> b[j-1]]
  BY DEF ModuleList
<1> HIDE DEF b, L
<1>4. b[0] = NONE /\ \A n \in 1..5 : b[n-1] = NONE => b[n] = NONE
  BY <1>1, <1>2
<1>5. b[1] = NONE
  BY <1>4
<1>6. b[2] = NONE
  BY <1>4, <1>5
<1>7. b[3] = NONE
  BY <1>4, <1>6
<1>8. b[4] = NONE
  BY <1>4, <1>7
<1>9. b[5] = NONE
  BY <1>4, <1>8
<1>10. reached = {}
  BY <1>4, <1>5, <1>6, <1>7, <1>8, <1>9, Modules
<1> HIDE DEF reached
<1>11. Cardinality(reached) = 0
  BY <1>10, FS_EmptySet
<1>12. QED
  BY <1>3, <1>11

(* The first call of AddModule, for an empty list and for one a call that   *)
(* failed has left behind.                                                  *)
LEMMA FirstCall ==
    ASSUME NextType, AddModule(Mod(1), Prio(1)), s_ModuleList = NONE
    PROVE  NextType' /\ ret' = 0 /\ Registered(1)'
<1> DEFINE cleared == [next EXCEPT !["normal"] = NONE]
<1>1. "normal" \in Module
  BY DEF Module
<1>2. cleared \in [Module -> Module \cup {NONE}] /\ cleared["normal"] = NONE
  BY <1>1 DEF NextType
<1>3. DOMAIN ModuleList(cleared) = {}
  BY NothingFound
<1>4. s_ModuleList' = "normal" /\ next' = cleared /\ ret' = 0
      /\ priority' = [priority EXCEPT !["normal"] = Prio(1)]
  BY <1>3, Prios DEF AddModule
<1>5. Chained(<<"normal">>, next)'
  <2>1. <<"normal">> \in Seq(Module) /\ Len(<<"normal">>) = 1
    BY <1>1
  <2>2. QED
    BY <1>2, <1>4, <2>1 DEF Chained
<1>6. Registered(1)'
  <2>1. Listed(1) = <<"normal">>
    BY DEF Listed
  <2>2. Ranked(1)'
    <3>1. priority'["normal"] = Prio(1)
      BY <1>1, <1>4 DEF NextType
    <3>2. QED
      BY <3>1, Prios DEF Ranked
  <2>3. QED
    BY <1>5, <2>1, <2>2 DEF Registered
<1>7. DOMAIN priority' = Module
  BY <1>4 DEF NextType
<1>8. QED
  BY <1>2, <1>4, <1>6, <1>7 DEF NextType

LEMMA FirstCallAgain ==
    ASSUME NextType, NEW p, AddModule("normal", p), FirstThere
    PROVE  NextType' /\ ret' # 0 /\ FirstThere' /\ s_ModuleList' = s_ModuleList
<1> DEFINE cleared == [next EXCEPT !["normal"] = NONE]
<1>1. cleared \in [Module -> Module \cup {NONE}]
  BY DEF NextType, Module
<1>2. PICK s : Chained(s, next) /\ Has(s, "normal")
  BY DEF FirstThere
<1>3. PICK k \in 1..Len(s) : s[k] = "normal"
  BY <1>2 DEF Has
<1>4. PICK t : Chained(t, cleared) /\ t[Len(t)] = "normal"
  <2>1. cleared[s[k]] = NONE /\ \A j \in 1..Len(s) : j # k => cleared[s[j]] = next[s[j]]
    BY <1>2, <1>3 DEF NextType, Module, Chained
  <2> HIDE DEF cleared
  <2>2. QED
    BY <1>2, <1>3, <2>1, CutOff
<1>5. t \in Seq(Module) /\ Len(t) \in 1..5
  BY <1>4 DEF Chained
<1>6. ModuleList(cleared) = t
  BY <1>4, ListFound
<1>7. s_ModuleList # NONE
  BY <1>2, HeadIs
<1>8. ret' = E_EXC_EXIST /\ next' = cleared /\ s_ModuleList' = s_ModuleList
  <2>1. Len(t) \in DOMAIN t
    <3>1. DOMAIN t = 1..Len(t)
      BY <1>5
    <3>2. QED
      BY <1>5, <3>1
  <2>2. QED
    BY <1>4, <1>6, <1>7, <2>1 DEF AddModule
<1>9. Chained(t, next)' /\ Has(t, "normal")
  BY <1>4, <1>5, <1>8 DEF Chained, Has
<1>10. DOMAIN priority' = Module
  BY DEF AddModule, NextType
<1>11. QED
  BY <1>1, <1>8, <1>9, <1>10 DEF FirstThere, E_EXC_EXIST, NextType

(* A later call: its module joins the others, or it fails and the list is   *)
(* the one it was.                                                          *)
LEMMA LaterCall ==
    ASSUME NextType, NEW k \in 1..4, Registered(k), AddModule(Mod(k+1), Prio(k+1))
    PROVE  /\ NextType'
           /\ ret' = 0 => Registered(k+1)'
           /\ ret' # 0 => FirstThere' /\ s_ModuleList' = s_ModuleList
<1> DEFINE m == Mod(k+1)
           p == Prio(k+1)
           s == Listed(k)
           i == Place(k)
           cleared == [next EXCEPT ![m] = NONE]
<1>0. k \in 1..5 /\ k + 1 \in 1..5 /\ i \in 1..k
  BY DEF Place
<1>1. m \in Module /\ \A j \in 1..k : Mod(j) \in Module /\ Mod(j) # m
  BY Calls
<1>2. /\ Chained(s, next) /\ Len(s) = k /\ s[1] = "normal" /\ s \in Seq(Module)
      /\ \A x : Has(s, x) <=> \E j \in 1..k : Mod(j) = x
  BY <1>0, Lists DEF Registered
<1>3. ~Has(s, m) /\ Has(s, "normal")
  BY <1>1, <1>2, Calls
<1>4. cleared \in [Module -> Module \cup {NONE}] /\ Chained(s, cleared)
  BY <1>1, <1>2, <1>3, Reset DEF NextType
<1>5. ModuleList(cleared) = s
  BY <1>4, ListFound
<1>6. s_ModuleList = "normal" /\ s_ModuleList # NONE
  BY <1>2, HeadIs DEF Chained
<1> HIDE DEF m, s
<1>7. DOMAIN s = 1..k /\ \A j \in 1..k : s[j] \in Module /\ s[j] # m
  BY <1>2, <1>3 DEF Has
<1>8. priority' = [priority EXCEPT ![m] = p]
  BY DEF AddModule, m
<1>9. ~BeforeHead(p)
  <2>1. priority["normal"] = Prio(1)
    BY Prios DEF Registered, Ranked
  <2>2. p <= 80 /\ p \in Int
    <3>1. k = 1 \/ k = 2 \/ k = 3 \/ k = 4
      OBVIOUS
    <3>2. QED
      BY <3>1, Prios
  <2>3. QED
    BY <1>6, <2>1, <2>2, Prios DEF BeforeHead
<1>10. Ranked(k+1)' /\ DOMAIN priority' = Module
  <2>1. priority'[m] = p /\ \A j \in 1..k : priority'[Mod(j)] = priority[Mod(j)]
    BY <1>1, <1>8 DEF NextType
  <2>2. \A j \in 1..(k+1) : j \in 1..k \/ j = k + 1
    OBVIOUS
  <2>3. \A j \in 1..k : priority[Mod(j)] = Prio(j)
    BY DEF Registered, Ranked
  <2>4. \A j \in 1..(k+1) : priority'[Mod(j)] = Prio(j)
    BY <2>1, <2>2, <2>3 DEF m
  <2>5. QED
    BY <1>8, <2>4 DEF Ranked, NextType
<1> HIDE DEF cleared
<1>11. CASE ret' = E_EXC_EXIST /\ next' = cleared /\ s_ModuleList' = s_ModuleList
  <2>1. Chained(s, next)'
    BY <1>4, <1>11 DEF Chained
  <2>2. QED
    BY <1>3, <1>4, <1>10, <1>11, <2>1 DEF FirstThere, E_EXC_EXIST, NextType
<1>12. CASE /\ ret' = 0 /\ s_ModuleList' = s_ModuleList /\ InsertsAfter(s, i, p)
            /\ next' = [cleared EXCEPT ![s[i]] = m, ![m] = RestAfter(s[i])]
  <2>1. RestAfter(s[i]) = cleared[s[i]]
    BY <1>0, <1>1, <1>7 DEF RestAfter, NextType, cleared
  <2>2. /\ next'[s[i]] = m /\ next'[m] = cleared[s[i]]
        /\ \A j \in 1..k : j # i => next'[s[j]] = cleared[s[j]]
    BY <1>0, <1>1, <1>2, <1>4, <1>7, <1>12, <2>1 DEF Chained
  <2>3. Chained(Put(s, i, m), next')
    <3>1. Chained(s, cleared) /\ Len(s) \in 1..4 /\ i \in 1..Len(s) /\ m \in Module /\ ~Has(s, m)
      BY <1>0, <1>1, <1>2, <1>3, <1>4
    <3>2. \A j \in 1..Len(s) : j # i => next'[s[j]] = cleared[s[j]]
      BY <1>2, <2>2
    <3> HIDE DEF i
    <3>3. QED
      BY <2>2, <3>1, <3>2, PutAfter
  <2>4. Put(s, i, m) = Listed(k+1)
    BY ListGrows DEF s, m
  <2>5. Registered(k+1)'
    BY <1>10, <1>12, <2>3, <2>4 DEF Chained, Registered
  <2>6. NextType'
    <3>1. cleared[s[i]] \in Module \cup {NONE}
      BY <1>0, <1>4, <1>7
    <3>2. QED
      BY <1>1, <1>4, <1>10, <1>12, <2>1, <3>1 DEF NextType
  <2>7. QED
    BY <1>12, <2>5, <2>6
<1>13. \/ ret' = E_EXC_EXIST /\ next' = cleared /\ s_ModuleList' = s_ModuleList
       \/ /\ ret' = 0 /\ s_ModuleList' = s_ModuleList
          /\ \E l \in 1..k : /\ InsertsAfter(s, l, p)
                             /\ next' = [cleared EXCEPT ![s[l]] = m, ![m] = RestAfter(s[l])]
  <2> HIDE DEF p
  <2>1. QED
    BY <1>5, <1>6, <1>7, <1>9 DEF AddModule, m, cleared, p
<1>14. \A l \in 1..k : InsertsAfter(s, l, p) => l = i
  BY PlaceIs DEF s, Registered
<1>15. QED
  BY <1>11, <1>12, <1>13, <1>14 DEF E_EXC_EXIST

-----------------------------------------------------------------------------
(* Where Analyser_Init is.  A call that fails leaves a list with the module  *)
(* of the first call, which from then on always fails: such a list never     *)
(* becomes the one of an initialised analyser.                               *)
ListInv ==
    /\ NextType /\ reg \in 1..5
    /\ pc \in {"idle", "init", "walk", "handler", "frames"}
    /\ pc \notin {"idle", "init"} => isinit
    /\ pc = "init" => ~isinit
    /\ ~isinit => called = <<>> /\ reports = <<>>
    /\ s_ModuleList = NONE => ~isinit /\ reg = 1
    /\ s_ModuleList # NONE => FirstThere
    /\ pc = "init" /\ reg > 1 => Registered(reg - 1)
    /\ isinit => Registered(5)

(* One call of Analyser_Init: it succeeds with one module more, or it fails *)
(* and the module of the first call is there.                               *)
LEMMA OneCall ==
    ASSUME ListInv, Analyser_Init
    PROVE  /\ NextType'
           /\ ret' = 0 => \E k \in 1..5 : k = reg /\ Registered(k)'
           /\ ret' # 0 => FirstThere' /\ s_ModuleList' # NONE
<1>1. AddModule(Mod(reg), Prio(reg)) /\ NextType /\ reg \in 1..5 /\ pc = "init"
  BY DEF ListInv, Analyser_Init, Mod, Prio
<1>2. CASE reg = 1 /\ s_ModuleList = NONE
  BY <1>1, <1>2, FirstCall, Calls
<1>3. CASE reg = 1 /\ s_ModuleList # NONE
  BY <1>1, <1>3, FirstCallAgain, Calls DEF ListInv
<1>4. CASE reg # 1
  <2>1. PICK k \in 1..4 : reg = k + 1
    <3>1. reg - 1 \in 1..4 /\ reg = (reg - 1) + 1
      BY <1>1, <1>4
    <3>2. QED
      BY <3>1
  <2>2. Registered(k)
    <3>1. reg - 1 = k /\ reg > 1
      BY <2>1
    <3>2. QED
      BY <1>1, <3>1 DEF ListInv
  <2>3. /\ NextType'
        /\ ret' = 0 => Registered(k+1)'
        /\ ret' # 0 => FirstThere' /\ s_ModuleList' = s_ModuleList
    BY <1>1, <2>1, <2>2, LaterCall
  <2>4. s_ModuleList # NONE
    BY <1>4 DEF ListInv
  <2>5. k + 1 \in 1..5
    OBVIOUS
  <2>6. QED
    BY <2>1, <2>3, <2>4, <2>5
<1>5. QED
  BY <1>1, <1>2, <1>3, <1>4

LEMMA RegisteredNext ==
    ASSUME NEW k \in 1..5, Registered(k)'
    PROVE  FirstThere' /\ s_ModuleList' # NONE
<1>1. Chained(Listed(k), next)' /\ Has(Listed(k), "normal")
  BY Lists, Calls DEF Registered
<1>2. Listed(k) \in Seq(Module) /\ Len(Listed(k)) \in 1..5 /\ s_ModuleList' = Listed(k)[1]
  BY <1>1 DEF Chained
<1>3. Listed(k)[1] \in Module
  BY <1>2
<1>4. QED
  BY <1>1, <1>2, <1>3, AnalyserAssumption DEF FirstThere

LEMMA ListStep == ListInv /\ [Next]_vars => ListInv'
<1> SUFFICES ASSUME ListInv, [Next]_vars PROVE ListInv'
  OBVIOUS
<1>1. CASE Analyser_Init
  <2>1. /\ pc = "init" /\ ~isinit /\ called = <<>> /\ called' = called /\ reports' = reports /\ reports = <<>> /\ reg \in 1..5
    BY <1>1 DEF ListInv, Analyser_Init, output
  <2>2. \/ ret' # 0 /\ pc' = "idle" /\ isinit' = isinit /\ reg' = reg
        \/ ret' = 0 /\ reg < 5 /\ reg' = reg + 1 /\ pc' = pc /\ isinit' = isinit
        \/ ret' = 0 /\ reg = 5 /\ isinit' = TRUE /\ pc' = "walk" /\ reg' = reg
    BY <1>1, Calls DEF Analyser_Init, Fails
  <2>3. /\ NextType'
        /\ ret' = 0 => \E k \in 1..5 : k = reg /\ Registered(k)'
        /\ ret' # 0 => FirstThere' /\ s_ModuleList' # NONE
    BY <1>1, OneCall
  <2>4. CASE ret' # 0
    BY <2>1, <2>2, <2>3, <2>4 DEF ListInv
  <2>5. CASE ret' = 0
    <3>1. PICK k \in 1..5 : k = reg /\ Registered(k)'
      BY <2>3, <2>5
    <3>2. FirstThere' /\ s_ModuleList' # NONE
      BY <3>1, RegisteredNext
    <3>3. CASE reg < 5 /\ reg' = reg + 1 /\ pc' = pc /\ isinit' = isinit
      <4>1. reg' \in 1..5 /\ k = reg' - 1
        BY <3>1, <3>3
      <4>2. Registered(reg - 1)'
        BY <3>1, <4>1
      <4>3. QED
        BY <2>1, <2>3, <3>2, <3>3, <4>1, <4>2 DEF ListInv
    <3>4. CASE reg = 5 /\ isinit' = TRUE /\ pc' = "walk" /\ reg' = reg
      BY <2>1, <2>3, <3>1, <3>2, <3>4 DEF ListInv
    <3>5. QED
      BY <2>2, <2>5, <3>3, <3>4
  <2>6. QED
    BY <2>4, <2>5
<1>2. CASE Analyse
  <2>1. pc = "idle" /\ called' = <<>> /\ reports' = <<>> /\ UNCHANGED <<s_ModuleList, next, isinit, priority>>
    BY <1>2 DEF Analyse
  <2>2. \/ isinit /\ pc' = "walk" /\ reg' = reg
        \/ ~isinit /\ pc' = "init" /\ reg' = 1
    BY <1>2 DEF Analyse
  <2>3. /\ NextType' = NextType /\ FirstThere' = FirstThere
        /\ \A k : Registered(k)' = Registered(k)
    BY <2>1 DEF NextType, FirstThere, Registered, Ranked, Chained
  <2>4. QED
    BY <2>1, <2>2, <2>3 DEF ListInv
<1>3. CASE \/ analyse_baseinfo \/ analyse_exc \/ analyse_deadloop \/ analyse_stackoverflow
           \/ analyse_deadlock \/ SkipHandler \/ SearchFrames \/ UNCHANGED vars
  <2>1. UNCHANGED <<s_ModuleList, next, isinit, reg, priority>>
    BY <1>3 DEF analyse_baseinfo, analyse_exc, analyse_deadloop, analyse_stackoverflow,
                analyse_deadlock, SkipHandler, SearchFrames, Call, list, vars
  <2>2. \/ pc \notin {"idle", "init"} /\ pc' \in {"idle", "walk", "handler", "frames"}
        \/ pc' = pc /\ called' = called /\ reports' = reports
    BY <1>3 DEF analyse_baseinfo, analyse_exc, analyse_deadloop, analyse_stackoverflow,
                analyse_deadlock, SkipHandler, SearchFrames, Call, GoOn, Conclude, vars, output
  <2>3. /\ NextType' = NextType /\ FirstThere' = FirstThere
        /\ \A k : Registered(k)' = Registered(k)
    BY <2>1 DEF NextType, FirstThere, Registered, Ranked, Chained
  <2>4. QED
    BY <2>1, <2>2, <2>3 DEF ListInv
<1>4. QED
  BY <1>1, <1>2, <1>3 DEF Next, Step

LEMMA ListInit == Init => ListInv
BY DEF Init, ListInv, NextType

(* AddModule never loses a module, whatever the names: an initialised       *)
(* analyser has all of them, each once, and no record is analysed before.   *)
THEOREM NoModuleLost == Spec => []Complete
<1>1. ListInv => Complete
  <2> SUFFICES ASSUME ListInv, isinit \/ called # <<>> PROVE Complete
    BY DEF Complete
  <2>1. PICK s : /\ Chained(s, next) /\ Len(s) = 5
                 /\ \A x : Has(s, x) <=> \E j \in 1..5 : Mod(j) = x
    BY Lists DEF ListInv, Registered
  <2>2. ModuleList(next) = s
    BY <2>1, ListFound
  <2>3. \A m \in Module : Has(s, m)
    BY <2>1, Calls
  <2>4. DOMAIN s = 1..Len(s)
    BY <2>1 DEF Chained
  <2>5. QED
    BY <2>1, <2>2, <2>3, <2>4, Modules DEF Complete, Has
<1>2. QED
  BY <1>1, ListInit, ListStep, PTL DEF Spec

-----------------------------------------------------------------------------
(* The verdict.  Modules are asked along Order, the list of all of them; a   *)
(* module that Analyser_Analyse has passed cannot explain the record, so     *)
(* that at the end of the list no module can, and that is so for an          *)
(* exception without overflow only.                                          *)
Order == Listed(5)

LEMMA OrderIs ==
    /\ Order \in Seq(Module) /\ Len(Order) = 5
    /\ Order[1] = "normal" /\ Order[2] = "exc" /\ Order[3] = "stackoverflow"
    /\ Order[4] = "deadloop" /\ Order[5] = "deadlock"
<1>1. 5 \in 1..5
  OBVIOUS
<1>2. Order \in Seq(Module) /\ Len(Order) = 5
  BY <1>1, Lists DEF Order
<1>3. QED
  BY <1>2 DEF Order, Listed

Passed(m) ==
    /\ m = "deadloop" => rec.errtype # "deadloop"
    /\ m = "deadlock" => rec.errtype # "deadlock"
    /\ m = "stackoverflow" => rec.errtype # "exc" \/ Overflow = "none"

(* Who has reported when the walk comes to the k-th module. *)
Said(k) ==
    IF k = 1 THEN <<>>
    ELSE IF k > 2 /\ rec.errtype = "exc" THEN <<"normal", "exc">> ELSE <<"normal">>

(* The walk is at the k-th module. *)
WalkAt(k) ==
    /\ k \in 1..5 /\ item = Order[k] /\ Len(called) = k - 1
    /\ \A j \in 1..(k-1) : Passed(Order[j])
    /\ Tellers = Said(k)

(* The modules called are the first of the list. *)
CalledInv ==
    /\ called \in Seq(Module) /\ Len(called) <= 5
    /\ \A j \in 1..Len(called) : called[j] = Order[j]

(* The order of the list is the one the priorities give it. *)
LEMMA OrderAsked ==
    ASSUME NEW i \in 1..5, NEW j \in 1..5, i < j
    PROVE  AskedBefore(Order[i], Order[j])
<1> DEFINE At(n) == IF n = 1 THEN 1 ELSE IF n = 2 THEN 5 ELSE IF n = 3 THEN 4
                      ELSE IF n = 4 THEN 2 ELSE 3
<1>1. \A n \in 1..5 : At(n) \in 1..5 /\ Order[n] = Mod(At(n))
  <2>1. \A n \in 1..5 : n = 1 \/ n = 2 \/ n = 3 \/ n = 4 \/ n = 5
    OBVIOUS
  <2>2. QED
    BY <2>1, OrderIs, Prios
<1>2. Prio(1) = 99 /\ Prio(2) = 80 /\ Prio(3) = 80 /\ Prio(4) = 79 /\ Prio(5) = 1
  BY Prios
<1>3. \A k \in 1..5 : k = 1 \/ k = 2 \/ k = 3 \/ k = 4 \/ k = 5
  OBVIOUS
<1>4. \A k \in 1..5 : Top(k) <=> k = 1
  <2>1. \A k \in 1..5 : Top(k) <=> \A l \in 1..5 : Prio(l) <= Prio(k)
    BY Prios DEF Top, Prio
  <2>2. QED
    BY <1>2, <1>3, <2>1
<1>5. \/ At(i) = 1
      \/ Prio(At(i)) < Prio(At(j))
      \/ Prio(At(i)) = Prio(At(j)) /\ At(i) < At(j)
  <2>1. CASE i = 1
    BY <2>1
  <2>2. CASE i = 2
    BY <1>2, <1>3, <2>2
  <2>3. CASE i = 3
    BY <1>2, <1>3, <2>3
  <2>4. CASE i = 4
    BY <1>2, <1>3, <2>4
  <2>5. QED
    BY <1>3, <2>1, <2>2, <2>3, <2>4
<1>6. At(j) # 1
  BY <1>3
<1> HIDE DEF At
<1>7. /\ At(i) \in DOMAIN Registration /\ At(j) \in DOMAIN Registration
      /\ Registration[At(i)].mod = Order[i] /\ Registration[At(j)].mod = Order[j]
      /\ \/ Top(At(i))
         \/ Registration[At(i)].priority < Registration[At(j)].priority
         \/ Registration[At(i)].priority = Registration[At(j)].priority /\ At(i) < At(j)
      /\ ~Top(At(j))
  BY <1>1, <1>4, <1>5, <1>6, Prios DEF Prio, Mod
<1>8. QED
  BY <1>7 DEF AskedBefore

LEMMA CalledOrder == CalledInv => AskedInOrder
<1> SUFFICES ASSUME CalledInv, NEW i \in DOMAIN called, NEW j \in DOMAIN called, i < j
             PROVE  AskedBefore(called[i], called[j])
  BY DEF AskedInOrder
<1>1. i \in 1..Len(called) /\ j \in 1..Len(called) /\ Len(called) <= 5 /\ Len(called) \in Nat
  BY DEF CalledInv
<1>2. i \in 1..5 /\ j \in 1..5 /\ called[i] = Order[i] /\ called[j] = Order[j]
  BY <1>1 DEF CalledInv
<1>3. QED
  BY <1>2, OrderAsked

(* The frames analyse_deadlock has left behind: no signal handler, then no  *)
(* frame that waits since the one the search began at.                      *)
Handlers(bt) == {j \in DOMAIN bt : "SignalHandler" \in bt[j]}
Start(bt) == IF Handlers(bt) = {} THEN 1 ELSE First(Handlers(bt)) + 1

BehindInv ==
    /\ pc = "handler" => \A j \in 1..(btitem-1) : "SignalHandler" \notin rec.btfunc[j]
    /\ pc \in {"handler", "frames"} => btitem >= 1
    /\ pc = "frames" =>
          /\ Start(rec.btfunc) \in 1..btitem
          /\ \A j \in Start(rec.btfunc)..(btitem-1) : ~Waits(rec.btfunc[j])

What == {"base", "exc", "deadloop", "task", "job", "deadlock", "waitpid", "read", "write",
         "multicast", "unknown"}
Report == [mod : Module, what : What, frame : Int]

WalkInv ==
    /\ CalledInv /\ reports \in Seq(Report)
    /\ pc = "walk" => ret = 0 /\ \E k : WalkAt(k)
    /\ pc \in {"handler", "frames"} =>
          item = "deadlock" /\ rec.errtype = "deadlock" /\ Tellers = <<"normal", "deadlock">>

EndInv == Outcome /\ DeadlockCause

(* One report more. *)
LEMMA SameSeq ==
    ASSUME NEW S, NEW s \in Seq(S), NEW t \in Seq(S), Len(s) = Len(t),
           \A i \in 1..Len(s) : s[i] = t[i]
    PROVE  s = t
OBVIOUS

LEMMA AppendTwo ==
    ASSUME NEW S, NEW a \in S, NEW b \in S
    PROVE  Append(<<a>>, b) = <<a, b>>
<1> DEFINE s == Append(<<a>>, b)
           t == <<a, b>>
<1>1. s \in Seq(S) /\ Len(s) = 2 /\ s[1] = a /\ s[2] = b
  OBVIOUS
<1>2. t \in Seq(S) /\ Len(t) = 2 /\ t[1] = a /\ t[2] = b
  OBVIOUS
<1>3. \A i \in 1..2 : s[i] = t[i]
  BY <1>1, <1>2
<1> HIDE DEF s, t
<1>4. s = t
  BY <1>1, <1>2, <1>3, SameSeq
<1>5. QED
  BY <1>4 DEF s, t

LEMMA AppendThree ==
    ASSUME NEW S, NEW a \in S, NEW b \in S, NEW c \in S
    PROVE  Append(<<a, b>>, c) = <<a, b, c>>
<1> DEFINE s == Append(<<a, b>>, c)
           t == <<a, b, c>>
<1>1. s \in Seq(S) /\ Len(s) = 3 /\ s[1] = a /\ s[2] = b /\ s[3] = c
  OBVIOUS
<1>2. t \in Seq(S) /\ Len(t) = 3 /\ t[1] = a /\ t[2] = b /\ t[3] = c
  OBVIOUS
<1>3. \A i \in 1..3 : s[i] = t[i]
  BY <1>1, <1>2
<1> HIDE DEF s, t
<1>4. s = t
  BY <1>1, <1>2, <1>3, SameSeq
<1>5. QED
  BY <1>4 DEF s, t

LEMMA Appended ==
    /\ Append(<<>>, "normal") = <<"normal">>
    /\ \A m \in Module : Append(<<"normal">>, m) = <<"normal", m>>
    /\ \A m, n \in Module : Append(<<"normal", m>>, n) = <<"normal", m, n>>
<1>1. "normal" \in Module
  BY DEF Module
<1>2. Append(<<>>, "normal") = <<"normal">>
  OBVIOUS
<1>3. QED
  BY <1>1, <1>2, AppendTwo, AppendThree

LEMMA OneTeller ==
    ASSUME NEW rs \in Seq(Report), NEW r \in Report
    PROVE  [i \in DOMAIN Append(rs, r) |-> Append(rs, r)[i].mod] =
           Append([i \in DOMAIN rs |-> rs[i].mod], r.mod)
<1> PICK n \in Nat : n = Len(rs)
  OBVIOUS
<1> DEFINE ms == [i \in DOMAIN rs |-> rs[i].mod]
           qs == Append(rs, r)
           L  == [i \in DOMAIN qs |-> qs[i].mod]
           R  == Append(ms, r.mod)
<1>1. DOMAIN rs = 1..n /\ \A i \in 1..n : rs[i] \in Report
  OBVIOUS
<1>2. ms \in [1..n -> Module]
  BY <1>1 DEF Report
<1>3. ms \in Seq(Module) /\ Len(ms) = n
  BY <1>2, SeqLen
<1>4. DOMAIN qs = 1..(n+1) /\ qs[n+1] = r /\ \A i \in 1..n : qs[i] = rs[i]
  OBVIOUS
<1> HIDE DEF qs
<1>5. R \in Seq(Module) /\ Len(R) = n + 1 /\ R[n+1] = r.mod /\ \A i \in 1..n : R[i] = ms[i]
  <2>1. r.mod \in Module
    BY DEF Report
  <2> HIDE DEF ms
  <2>2. QED
    BY <1>3, <2>1
<1>6. \A i \in 1..n : ms[i] = rs[i].mod
  BY <1>1
<1> HIDE DEF R, ms
<1>7. R = [i \in 1..(n+1) |-> R[i]]
  BY <1>5
<1>8. \A i \in 1..(n+1) : R[i] = qs[i].mod
  <2>1. \A i \in 1..(n+1) : i \in 1..n \/ i = n + 1
    OBVIOUS
  <2>2. QED
    BY <1>4, <1>5, <1>6, <2>1
<1>9. L = [i \in 1..(n+1) |-> R[i]]
  BY <1>4, <1>8
<1>10. QED
  BY <1>7, <1>9 DEF R, ms, qs

(* The last report is the one analyser_callback has made. *)
LEMMA LastReport ==
    ASSUME reports \in Seq(Report), item \in Module, NEW what \in What, NEW f \in Int,
           analyser_callback(what, f)
    PROVE  /\ reports' \in Seq(Report)
           /\ reports'[Len(reports')] = [mod |-> item, what |-> what, frame |-> f]
           /\ Tellers' = Append(Tellers, item)
<1> DEFINE r == [mod |-> item, what |-> what, frame |-> f]
<1>1. r \in Report /\ r.mod = item
  BY DEF Report
<1>2. reports' = Append(reports, r)
  BY DEF analyser_callback
<1>3. Tellers' = Append(Tellers, item)
  BY <1>1, <1>2, OneTeller DEF Tellers
<1>4. QED
  BY <1>1, <1>2, <1>3

(* A module that is passed: the next one, or the end with no module that    *)
(* explains the record.                                                     *)
LEMMA WalkOn ==
    ASSUME NEW k, WalkAt(k), Passed(item), Chained(Order, next), GoOn, ret = 0, rec \in Record,
           UNCHANGED rec, Len(called') = k, Tellers' = Said(k+1)
    PROVE  /\ ret' = 0
           /\ pc' = "walk" => \E l : WalkAt(l)'
           /\ pc' = "idle" => EndInv'
           /\ pc' \in {"walk", "idle"}
<1>1. k \in 1..5 /\ item = Order[k]
  BY DEF WalkAt
<1>2. next[item] = IF k = 5 THEN NONE ELSE Order[k+1]
  BY <1>1, OrderIs DEF Chained
<1>3. \A j \in 1..k : Passed(Order[j])
  <2>1. \A j \in 1..k : j \in 1..(k-1) \/ j = k
    BY <1>1
  <2>2. QED
    BY <1>1, <2>1 DEF WalkAt
<1>4. \A m : Passed(m)' = Passed(m)
  BY DEF Passed, Overflow
<1>5. CASE k = 5
  <2>1. pc' = "idle" /\ ret' = 0
    BY <1>2, <1>5 DEF GoOn
  <2>2. Passed("stackoverflow") /\ Passed("deadloop") /\ Passed("deadlock")
    BY <1>3, <1>5, OrderIs
  <2>3. rec.errtype \in {"exc", "deadlock", "deadloop"}
    BY DEF Record
  <2>4. rec.errtype = "exc" /\ Overflow = "none"
    BY <2>2, <2>3 DEF Passed
  <2>5. ~rec.taskover /\ ~rec.jobover
    BY <2>4 DEF Overflow
  <2>6. Outcome'
    <3>1. Tellers' = <<"normal", "exc">>
      BY <1>5, <2>4 DEF Said
    <3>2. QED
      BY <2>1, <2>4, <2>5, <3>1 DEF Outcome
  <2>7. DeadlockCause'
    BY <2>4 DEF DeadlockCause
  <2>8. QED
    BY <2>1, <2>6, <2>7 DEF EndInv
<1>6. CASE k # 5
  <2>1. next[item] = Order[k+1] /\ k + 1 \in 1..5 /\ Order[k+1] \in Module
    BY <1>1, <1>2, <1>6, OrderIs
  <2>2. Order[k+1] # NONE
    BY <2>1, AnalyserAssumption
  <2>3. pc' = "walk" /\ ret' = 0 /\ item' = Order[k+1]
    BY <2>1, <2>2 DEF GoOn
  <2>4. \A j \in 1..((k+1)-1) : Passed(Order[j])'
    BY <1>1, <1>3, <1>4
  <2>5. Said(k+1)' = Said(k+1) /\ (k + 1) - 1 = k
    BY <1>1 DEF Said
  <2>6. WalkAt(k+1)'
    BY <2>1, <2>3, <2>4, <2>5 DEF WalkAt
  <2>7. QED
    BY <2>3, <2>6
<1>7. QED
  BY <1>5, <1>6

LEMMA NoTellers == ASSUME reports' = <<>> PROVE Tellers' = <<>>
BY DEF Tellers

LEMMA WalkBegins ==
    ASSUME Registered(5)', item' = s_ModuleList', called' = <<>>, reports' = <<>>
    PROVE  \E l : WalkAt(l)'
<1>1. item' = Order[1]
  BY DEF Registered, Chained, Order
<1>2. Tellers' = Said(1)'
  BY NoTellers DEF Said
<1>3. WalkAt(1)'
  BY <1>1, <1>2 DEF WalkAt
<1>4. QED
  BY <1>3

(* The least of some numbers is the one First chooses. *)
LEMMA FirstIs ==
    ASSUME NEW S, S \subseteq Int, NEW i \in S, \A j \in S : i <= j
    PROVE  First(S) = i
<1> DEFINE F == CHOOSE l \in S : \A j \in S : l <= j
<1>1. F \in S /\ \A j \in S : F <= j
  OBVIOUS
<1>2. F \in Int /\ i \in Int /\ F <= i /\ i <= F
  BY <1>1
<1> HIDE DEF F
<1>3. F = i
  BY <1>2
<1>4. QED
  BY <1>3 DEF First, F

(* Where the search begins, once the first loop knows it. *)
LEMMA StartAfter ==
    ASSUME NEW r \in Record, NEW i \in 1..Len(r.btfunc), "SignalHandler" \in r.btfunc[i],
           \A j \in 1..(i-1) : "SignalHandler" \notin r.btfunc[j]
    PROVE  Start(r.btfunc) = i + 1
<1> DEFINE H == Handlers(r.btfunc)
<1>1. Len(r.btfunc) \in Nat /\ DOMAIN r.btfunc = 1..Len(r.btfunc)
  BY Backtrace
<1>2. H \subseteq Int /\ i \in H
  BY <1>1 DEF Handlers
<1>3. \A j \in H : i <= j
  <2> SUFFICES ASSUME NEW j \in H, j < i PROVE FALSE
    BY <1>1 DEF Handlers
  <2>1. j \in 1..Len(r.btfunc) /\ "SignalHandler" \in r.btfunc[j]
    BY <1>1 DEF Handlers
  <2>2. j \in 1..(i-1)
    BY <1>1, <2>1
  <2>3. QED
    BY <2>1, <2>2
<1> HIDE DEF H
<1>4. First(H) = i /\ H # {}
  BY <1>2, <1>3, FirstIs
<1>5. QED
  BY <1>4 DEF Start, H

LEMMA StartOfAll ==
    ASSUME NEW r \in Record, \A j \in 1..Len(r.btfunc) : "SignalHandler" \notin r.btfunc[j]
    PROVE  Start(r.btfunc) = 1
BY Backtrace DEF Start, Handlers

(* The cause is told by the first frame that waits. *)
LEMMA NoCause ==
    ASSUME NEW bt, \A j \in Start(bt)..Len(bt) : ~Waits(bt[j])
    PROVE  Cause(bt) = [mod |-> "deadlock", what |-> "unknown", frame |-> 0]
<1>1. {j \in Start(bt)..Len(bt) : Waits(bt[j])} = {}
  OBVIOUS
<1>2. QED
  BY <1>1 DEF Cause, Start, Handlers

CauseAt(bt, i) ==
    IF "waitpid" \in bt[i] THEN [mod |-> "deadlock", what |-> "waitpid", frame |-> i]
    ELSE IF "read" \in bt[i] THEN [mod |-> "deadlock", what |-> "read", frame |-> i]
    ELSE IF i < Len(bt) /\ "XOS_MulticastMsg" \in bt[i+1]
         THEN [mod |-> "deadlock", what |-> "multicast", frame |-> i + 1]
    ELSE [mod |-> "deadlock", what |-> "write", frame |-> i]

LEMMA CauseOf ==
    ASSUME NEW bt, Start(bt) \in Int, Len(bt) \in Int, NEW i \in Start(bt)..Len(bt), Waits(bt[i]),
           \A j \in Start(bt)..(i-1) : ~Waits(bt[j])
    PROVE  Cause(bt) = CauseAt(bt, i)
<1> DEFINE W == {j \in Start(bt)..Len(bt) : Waits(bt[j])}
<1>1. W \subseteq Int /\ i \in W
  OBVIOUS
<1>2. \A j \in W : i <= j
  <2> SUFFICES ASSUME NEW j \in W, j < i PROVE FALSE
    OBVIOUS
  <2>1. j \in Start(bt)..(i-1) /\ Waits(bt[j])
    OBVIOUS
  <2>2. QED
    BY <2>1
<1>3. Cause(bt) = IF W = {} THEN [mod |-> "deadlock", what |-> "unknown", frame |-> 0]
                  ELSE CauseAt(bt, First(W))
  BY DEF Cause, Start, Handlers, CauseAt
<1> HIDE DEF W
<1>4. First(W) = i /\ W # {}
  BY <1>1, <1>2, FirstIs
<1>5. QED
  BY <1>3, <1>4

(* A search that has come to its end ends the analysis. *)
LEMMA Concluded ==
    ASSUME rec \in Record, reports \in Seq(Report), item = "deadlock", rec.errtype = "deadlock",
           Tellers = <<"normal", "deadlock">>,
           NEW what \in What, NEW f \in Int, analyser_callback(what, f), Conclude, rec' = rec,
           Cause(rec.btfunc) = [mod |-> "deadlock", what |-> what, frame |-> f]
    PROVE  reports' \in Seq(Report) /\ EndInv'
<1>1. item \in Module
  BY DEF Module
<1>2. /\ reports' \in Seq(Report) /\ reports'[Len(reports')] = [mod |-> item, what |-> what, frame |-> f]
      /\ Tellers' = <<"normal", "deadlock", "deadlock">>
  BY <1>1, LastReport, Appended
<1>3. Outcome'
  BY <1>2 DEF Outcome, Conclude
<1>4. DeadlockCause'
  BY <1>2 DEF DeadlockCause
<1>5. QED
  BY <1>2, <1>3, <1>4 DEF EndInv

FullInv == RecordInv /\ SearchInv /\ FramesInBounds /\ ListInv /\ WalkInv /\ BehindInv /\ EndInv

(* What a call of a module keeps of the list and the record. *)
LEMMA CallKeeps ==
    ASSUME FullInv, NEW m, Call(m)
    PROVE  /\ pc = "walk" /\ item = m /\ ret = 0 /\ rec \in Record /\ CalledInv'
           /\ UNCHANGED rec /\ m \in Module /\ Chained(Order, next)
           /\ \E k : WalkAt(k) /\ Len(called') = k
<1>1. pc = "walk" /\ item = m /\ called' = Append(called, m) /\ UNCHANGED <<rec, isinit>>
  BY DEF Call, list
<1>2. rec \in Record /\ ret = 0 /\ CalledInv
  BY <1>1 DEF FullInv, RecordInv, WalkInv
<1>3. PICK k : WalkAt(k)
  BY <1>1 DEF FullInv, WalkInv
<1>4. k \in 1..5 /\ Len(called) = k - 1 /\ m = Order[k] /\ m \in Module
  BY <1>1, <1>3, OrderIs DEF WalkAt
<1>5. called \in Seq(Module) /\ \A j \in 1..(k-1) : called[j] = Order[j]
  BY <1>2, <1>4 DEF CalledInv
<1>6. /\ called' \in Seq(Module) /\ Len(called') = k /\ called'[k] = m
      /\ \A j \in 1..(k-1) : called'[j] = called[j]
  BY <1>1, <1>4, <1>5
<1>7. CalledInv'
  <2>1. \A j \in 1..k : j \in 1..(k-1) \/ j = k
    BY <1>4
  <2>2. QED
    BY <1>4, <1>5, <1>6, <2>1 DEF CalledInv
<1>8. Chained(Order, next)
  BY <1>1 DEF FullInv, ListInv, Registered, Order
<1>9. QED
  BY <1>1, <1>2, <1>3, <1>4, <1>6, <1>7, <1>8

(* Which of the list a module is. *)
LEMMA WhereItIs ==
    ASSUME NEW k, WalkAt(k)
    PROVE  /\ k \in 1..5 /\ Tellers = Said(k)
           /\ item = "normal" => k = 1
           /\ item = "exc" => k = 2
           /\ item = "stackoverflow" => k = 3
           /\ item = "deadloop" => k = 4
           /\ item = "deadlock" => k = 5
<1>1. k \in 1..5 /\ Tellers = Said(k) /\ item = Order[k]
  BY DEF WalkAt
<1>2. k = 1 \/ k = 2 \/ k = 3 \/ k = 4 \/ k = 5
  BY <1>1
<1>3. QED
  BY <1>1, <1>2, OrderIs

(* A module of which the record is passed on. *)
LEMMA PassedOn ==
    ASSUME FullInv, NEW m, Call(m), Passed(m), GoOn, reports' \in Seq(Report),
           \A k : WalkAt(k) => Tellers' = Said(k+1)
    PROVE  WalkInv' /\ BehindInv' /\ EndInv'
<1>1. /\ pc = "walk" /\ item = m /\ ret = 0 /\ rec \in Record /\ CalledInv'
      /\ UNCHANGED rec /\ Chained(Order, next)
  BY CallKeeps
<1>2. PICK k : WalkAt(k) /\ Len(called') = k
  BY CallKeeps
<1>3. /\ ret' = 0 /\ pc' \in {"walk", "idle"}
      /\ pc' = "walk" => \E l : WalkAt(l)'
      /\ pc' = "idle" => EndInv'
  BY <1>1, <1>2, WalkOn
<1>4. pc' # "idle" => EndInv'
  BY DEF EndInv, Outcome, DeadlockCause
<1>5. QED
  BY <1>1, <1>3, <1>4 DEF WalkInv, BehindInv

(* A module that explains the record. *)
LEMMA Explained ==
    ASSUME FullInv, NEW m, Call(m), Conclude, NEW what \in What, analyser_callback(what, 0),
           IF rec.errtype = "exc" THEN m = "stackoverflow" /\ (rec.taskover \/ rec.jobover)
                                  ELSE rec.errtype = "deadloop" /\ m = "deadloop"
    PROVE  WalkInv' /\ BehindInv' /\ EndInv'
<1>1. /\ item = m /\ rec \in Record /\ CalledInv' /\ m \in Module /\ rec' = rec
  BY CallKeeps
<1>2. reports \in Seq(Report)
  BY DEF FullInv, WalkInv
<1>3. reports' \in Seq(Report) /\ Tellers' = Append(Tellers, m)
  <2>1. 0 \in Int
    OBVIOUS
  <2>2. QED
    BY <1>1, <1>2, <2>1, LastReport
<1>4. ret' = 1 /\ pc' = "idle"
  BY DEF Conclude
<1>5. PICK k : WalkAt(k)
  BY CallKeeps
<1>6. Outcome'
  <2>1. CASE rec.errtype = "exc"
    <3>1. Tellers = <<"normal", "exc">>
      BY <1>1, <1>5, <2>1, WhereItIs DEF Said
    <3>2. Tellers' = <<"normal", "exc", "stackoverflow">>
      BY <1>3, <2>1, <3>1, Appended DEF Module
    <3>3. QED
      BY <1>1, <1>4, <2>1, <3>2 DEF Outcome
  <2>2. CASE rec.errtype = "deadloop"
    <3>1. Tellers = <<"normal">>
      BY <1>1, <1>5, <2>2, WhereItIs DEF Said
    <3>2. Tellers' = <<"normal", "deadloop">>
      BY <1>3, <2>2, <3>1, Appended DEF Module
    <3>3. QED
      BY <1>1, <1>4, <2>2, <3>2 DEF Outcome
  <2>3. QED
    BY <2>1, <2>2
<1>7. DeadlockCause'
  BY <1>1 DEF DeadlockCause
<1>8. QED
  BY <1>1, <1>3, <1>4, <1>6, <1>7 DEF WalkInv, BehindInv, EndInv

LEMMA Search == ASSUME FullInv, SkipHandler \/ SearchFrames
    PROVE  /\ rec \in Record /\ rec' = rec /\ item = "deadlock" /\ rec.errtype = "deadlock"
           /\ CalledInv /\ called' = called /\ reports \in Seq(Report)
           /\ Tellers = <<"normal", "deadlock">> /\ (reports' = reports => Tellers' = Tellers)
           /\ Len(rec.btfunc) \in Nat /\ btnum \in Nat /\ btitem \in Nat
           /\ btitem + btnum = Len(rec.btfunc) + 1 /\ btitem >= 1
<1>1. pc \in {"handler", "frames"} /\ rec' = rec /\ called' = called
  BY DEF SkipHandler, SearchFrames, output
<1>2. rec \in Record /\ Len(rec.btfunc) \in Nat
  BY <1>1, Backtrace DEF FullInv, RecordInv
<1>3. QED
  BY <1>1, <1>2 DEF Tellers, FullInv, WalkInv, BehindInv, SearchInv, FramesInBounds

(* The first loop of analyse_deadlock. *)
LEMMA HandlerStep ==
    ASSUME FullInv, SkipHandler
    PROVE  WalkInv' /\ BehindInv' /\ EndInv'
<1> DEFINE bt == rec.btfunc
<1>1. /\ rec \in Record /\ rec' = rec /\ item = "deadlock" /\ rec.errtype = "deadlock"
      /\ CalledInv' /\ reports \in Seq(Report)
      /\ Tellers = <<"normal", "deadlock">> /\ (reports' = reports => Tellers' = Tellers)
      /\ Len(bt) \in Nat /\ btnum \in Nat /\ btitem \in Nat
      /\ btitem + btnum = Len(bt) + 1 /\ btitem >= 1
  BY Search DEF CalledInv
<1>2. pc = "handler" /\ \A j \in 1..(btitem-1) : "SignalHandler" \notin bt[j]
  BY DEF SkipHandler, FullInv, BehindInv
<1> HIDE DEF bt
<1>3. CASE btnum > 0 /\ "SignalHandler" \notin rec.btfunc[btitem] /\ Skip /\ UNCHANGED <<pc, item, ret, output>>
  <2>1. btitem' = btitem + 1 /\ pc' = "handler" /\ item' = item /\ reports' = reports
    BY <1>2, <1>3 DEF Skip, output
  <2>2. \A j \in 1..(btitem'-1) : j \in 1..(btitem-1) \/ j = btitem
    BY <1>1, <2>1
  <2>3. \A j \in 1..(btitem'-1) : "SignalHandler" \notin bt[j]
    BY <1>2, <1>3, <2>2 DEF bt
  <2>4. BehindInv'
    BY <1>1, <2>1, <2>3 DEF BehindInv, bt
  <2>5. QED
    BY <1>1, <2>1, <2>4 DEF WalkInv, EndInv, Outcome, DeadlockCause
<1>4. CASE btnum > 0 /\ "SignalHandler" \in rec.btfunc[btitem] /\ Skip
  <2>1. btitem \in 1..Len(bt)
    BY <1>1, <1>4
  <2>2. Start(bt) = btitem + 1
    BY <1>1, <1>2, <1>4, <2>1, StartAfter DEF bt
  <2>3. CASE pc' = "frames" /\ UNCHANGED <<item, ret, output>>
    <3>1. btitem' = btitem + 1 /\ btitem' \in Nat
      BY <1>1, <1>4 DEF Skip
    <3>2. BehindInv'
      BY <1>1, <2>2, <2>3, <3>1 DEF BehindInv, bt
    <3>3. QED
      BY <1>1, <2>3, <3>2 DEF WalkInv, EndInv, Outcome, DeadlockCause, output
  <2>4. CASE btnum = 1 /\ analyser_callback("unknown", 0) /\ Conclude
    <3>1. Cause(bt) = [mod |-> "deadlock", what |-> "unknown", frame |-> 0]
      <4>1. Start(bt)..Len(bt) = {}
        BY <1>1, <2>2, <2>4
      <4>2. QED
        BY <4>1, NoCause
    <3>2. reports' \in Seq(Report) /\ EndInv'
      BY <1>1, <2>4, <3>1, Concluded DEF bt, What
    <3>3. QED
      BY <1>1, <2>4, <3>2 DEF Conclude, WalkInv, BehindInv
  <2>5. QED
    BY <1>4, <2>3, <2>4, <1>1 DEF SkipHandler
<1>5. CASE btnum = 0 /\ Restart /\ pc' = "frames" /\ UNCHANGED <<item, ret, output>>
  <2>1. \A j \in 1..Len(bt) : "SignalHandler" \notin bt[j]
    BY <1>1, <1>2, <1>5
  <2>2. Start(bt) = 1
    BY <1>1, <2>1, StartOfAll DEF bt
  <2>3. BehindInv'
    BY <1>1, <1>5, <2>2 DEF BehindInv, Restart, bt
  <2>4. QED
    BY <1>1, <1>5, <2>3 DEF WalkInv, EndInv, Outcome, DeadlockCause, output
<1>6. QED
  BY <1>1, <1>3, <1>4, <1>5 DEF SkipHandler

(* The second loop. *)
LEMMA FramesStep ==
    ASSUME FullInv, SearchFrames
    PROVE  WalkInv' /\ BehindInv' /\ EndInv'
<1> DEFINE bt == rec.btfunc
           i  == btitem
<1>1. /\ rec \in Record /\ rec' = rec /\ item = "deadlock" /\ rec.errtype = "deadlock"
      /\ CalledInv' /\ reports \in Seq(Report)
      /\ Tellers = <<"normal", "deadlock">> /\ (reports' = reports => Tellers' = Tellers)
      /\ Len(bt) \in Nat /\ btnum \in Nat /\ i \in Nat
      /\ i + btnum = Len(bt) + 1 /\ i >= 1
  BY Search DEF CalledInv
<1>2. pc = "frames" /\ Start(bt) \in 1..i /\ \A j \in Start(bt)..(i-1) : ~Waits(bt[j])
  BY DEF SearchFrames, FullInv, BehindInv
<1> HIDE DEF bt
<1>3. CASE btnum > 0 /\ ~Waits(rec.btfunc[i]) /\ Skip /\ UNCHANGED <<pc, item, ret, output>>
  <2>1. btitem' = i + 1 /\ pc' = "frames" /\ item' = item /\ reports' = reports
    BY <1>2, <1>3 DEF Skip, output
  <2>2. \A j \in Start(bt)..(btitem'-1) : j \in Start(bt)..(i-1) \/ j = i
    BY <1>1, <1>2, <2>1
  <2>3. \A j \in Start(bt)..(btitem'-1) : ~Waits(bt[j])
    BY <1>2, <1>3, <2>2 DEF bt
  <2>4. BehindInv'
    BY <1>1, <1>2, <2>1, <2>3 DEF BehindInv, bt
  <2>5. QED
    BY <1>1, <2>1, <2>4 DEF WalkInv, EndInv, Outcome, DeadlockCause
<1>4. ASSUME NEW what \in What, NEW f \in Int, analyser_callback(what, f), Conclude,
             Cause(rec.btfunc) = [mod |-> "deadlock", what |-> what, frame |-> f]
      PROVE  WalkInv' /\ BehindInv' /\ EndInv'
  <2>1. reports' \in Seq(Report) /\ EndInv'
    BY <1>1, <1>4, Concluded
  <2>2. QED
    BY <1>1, <1>4, <2>1 DEF Conclude, WalkInv, BehindInv
<1>5. CASE btnum = 0 /\ analyser_callback("unknown", 0) /\ Conclude
  <2>1. \A j \in Start(bt)..Len(bt) : ~Waits(bt[j])
    BY <1>1, <1>2, <1>5
  <2>2. QED
    BY <1>4, <1>5, <2>1, NoCause DEF bt, What
<1>6. CASE btnum > 0 /\ Waits(rec.btfunc[i]) /\ Conclude
  <2>1. i \in Start(bt)..Len(bt) /\ Start(bt) \in Int
    BY <1>1, <1>2, <1>6
  <2>2. Cause(bt) = CauseAt(bt, i)
    BY <1>1, <1>2, <1>6, <2>1, CauseOf DEF bt
  <2>3. i < Len(bt) <=> btnum > 1
    BY <1>1
  <2>4. CASE "waitpid" \in rec.btfunc[i] /\ analyser_callback("waitpid", i)
    BY <1>1, <1>4, <1>6, <2>2, <2>4 DEF CauseAt, bt, What
  <2>5. CASE "read" \in rec.btfunc[i] /\ "waitpid" \notin rec.btfunc[i] /\ analyser_callback("read", i)
    BY <1>1, <1>4, <1>6, <2>2, <2>5 DEF CauseAt, bt, What
  <2>6. CASE WriteNow(i) /\ btnum > 1 /\ "XOS_MulticastMsg" \in rec.btfunc[i+1]
             /\ analyser_callback("multicast", i + 1)
    <3>1. Cause(rec.btfunc) = [mod |-> "deadlock", what |-> "multicast", frame |-> i + 1]
      BY <2>2, <2>3, <2>6 DEF CauseAt, WriteNow, bt
    <3>2. i + 1 \in Int
      BY <1>1
    <3>3. QED
      BY <1>4, <1>6, <2>6, <3>1, <3>2 DEF What
  <2>7. CASE WriteNow(i) /\ (btnum > 1 => "XOS_MulticastMsg" \notin rec.btfunc[i+1])
             /\ analyser_callback("write", i)
    <3>1. Cause(rec.btfunc) = [mod |-> "deadlock", what |-> "write", frame |-> i]
      BY <2>2, <2>3, <2>7 DEF CauseAt, WriteNow, bt
    <3>2. QED
      BY <1>1, <1>4, <1>6, <2>7, <3>1 DEF What
  <2>8. QED
    BY <1>1, <1>6, <2>4, <2>5, <2>6, <2>7 DEF SearchFrames
<1>7. QED
  BY <1>1, <1>3, <1>5, <1>6 DEF SearchFrames, Waits, WriteNow

LEMMA WalkStep == FullInv /\ [Next]_vars => WalkInv' /\ BehindInv' /\ EndInv'
<1> SUFFICES ASSUME FullInv, [Next]_vars PROVE WalkInv' /\ BehindInv' /\ EndInv'
  OBVIOUS
<1>0. CalledInv /\ reports \in Seq(Report)
  BY DEF FullInv, WalkInv
<1>1. CASE Analyse
  <2>1. /\ called' = <<>> /\ reports' = <<>> /\ ret' = 0 /\ pc' \in {"walk", "init"}
        /\ UNCHANGED <<s_ModuleList, next, priority>>
        /\ pc' = "walk" => isinit /\ item' = s_ModuleList
    BY <1>1 DEF Analyse
  <2>2. pc' = "walk" => \E k : WalkAt(k)'
    <3>1. ASSUME isinit PROVE Registered(5)'
      BY <2>1, <3>1 DEF FullInv, ListInv, Registered, Ranked, Chained
    <3>2. QED
      BY <2>1, <3>1, WalkBegins
  <2>3. EndInv'
    BY <2>1 DEF EndInv, Outcome, DeadlockCause
  <2>4. QED
    BY <2>1, <2>2, <2>3 DEF WalkInv, CalledInv, BehindInv
<1>2. CASE Analyser_Init
  <2>1. pc = "init" /\ UNCHANGED <<called, reports, rec>> /\ called = <<>> /\ reports = <<>>
    BY <1>2 DEF Analyser_Init, output, FullInv, ListInv
  <2>2. \/ pc' \in {"idle", "init"}
        \/ ret' = 0 /\ reg = 5 /\ pc' = "walk" /\ item' = s_ModuleList'
    BY <1>2, <2>1, Calls DEF Analyser_Init, Fails
  <2>3. pc' = "walk" => \E k : WalkAt(k)'
    <3>1. ret' = 0 => \E k \in 1..5 : k = reg /\ Registered(k)'
      BY <1>2, OneCall DEF FullInv
    <3>2. pc' = "walk" => Registered(5)' /\ item' = s_ModuleList'
      BY <2>2, <3>1
    <3>3. QED
      BY <2>1, <3>2, WalkBegins
  <2>4. EndInv'
    BY <2>1 DEF EndInv, Outcome, DeadlockCause
  <2>5. QED
    BY <1>0, <2>1, <2>2, <2>3, <2>4 DEF WalkInv, CalledInv, BehindInv
<1>3. CASE analyse_baseinfo
  <2>1. Call("normal") /\ GoOn /\ analyser_callback("base", 0) /\ Passed("normal")
    BY <1>3 DEF analyse_baseinfo, Passed
  <2>2. reports' \in Seq(Report) /\ Tellers' = Append(Tellers, "normal")
    <3>1. item = "normal" /\ item \in Module /\ "base" \in What /\ 0 \in Int
      BY <2>1, CallKeeps DEF What
    <3>2. QED
      BY <1>0, <2>1, <3>1, LastReport
  <2>3. ASSUME NEW k, WalkAt(k) PROVE Tellers' = Said(k+1)
    <3>1. k = 1 /\ Tellers = <<>>
      BY <2>1, <2>3, CallKeeps, WhereItIs DEF Said
    <3>2. QED
      BY <2>2, <3>1, Appended DEF Said
  <2>4. QED
    BY <2>1, <2>2, <2>3, PassedOn
<1>4. CASE analyse_exc
  <2>1. /\ Call("exc") /\ GoOn /\ Passed("exc")
        /\ \/ rec.errtype = "exc" /\ analyser_callback("exc", 0)
           \/ rec.errtype # "exc" /\ UNCHANGED reports
    BY <1>4 DEF analyse_exc, Passed
  <2>2. /\ reports' \in Seq(Report)
        /\ Tellers' = IF rec.errtype = "exc" THEN Append(Tellers, "exc") ELSE Tellers
    <3>1. item = "exc" /\ item \in Module /\ "exc" \in What /\ 0 \in Int
      BY <2>1, CallKeeps DEF What
    <3>2. CASE rec.errtype = "exc" /\ analyser_callback("exc", 0)
      BY <1>0, <3>1, <3>2, LastReport
    <3>3. CASE rec.errtype # "exc" /\ UNCHANGED reports
      BY <1>0, <3>3 DEF Tellers
    <3>4. QED
      BY <2>1, <3>2, <3>3
  <2>3. ASSUME NEW k, WalkAt(k) PROVE Tellers' = Said(k+1)
    <3>1. k = 2 /\ Tellers = <<"normal">>
      BY <2>1, <2>3, CallKeeps, WhereItIs DEF Said
    <3>2. Append(Tellers, "exc") = <<"normal", "exc">>
      BY <3>1, Appended DEF Module
    <3>3. Said(k+1) = IF rec.errtype = "exc" THEN <<"normal", "exc">> ELSE <<"normal">>
      BY <3>1 DEF Said
    <3>4. QED
      BY <2>2, <3>1, <3>2, <3>3
  <2>4. QED
    BY <2>1, <2>2, <2>3, PassedOn
<1> DEFINE LateOn == \A k : WalkAt(k) => Tellers' = Said(k+1)
<1>12. ASSUME UNCHANGED reports, item \in {"stackoverflow", "deadloop", "deadlock"}
       PROVE  LateOn
  <2> SUFFICES ASSUME NEW k, WalkAt(k) PROVE Tellers' = Said(k+1)
    OBVIOUS
  <2>1. k > 2 /\ k \in 1..5 /\ Tellers = Said(k)
    BY <1>12, WhereItIs
  <2>2. QED
    BY <1>12, <2>1 DEF Said, Tellers
<1>5. CASE analyse_deadloop
  <2>1. CASE rec.errtype = "deadloop" /\ analyser_callback("deadloop", 0) /\ Conclude
    BY <1>5, <2>1, Explained DEF analyse_deadloop, What
  <2>2. CASE rec.errtype # "deadloop" /\ GoOn /\ UNCHANGED <<reports, last, num>>
    <3>1. Call("deadloop") /\ Passed("deadloop") /\ reports' \in Seq(Report) /\ LateOn
      BY <1>0, <1>12, <1>5, <2>2, CallKeeps DEF analyse_deadloop, Passed
    <3>2. QED
      BY <2>2, <3>1, PassedOn
  <2>3. QED
    BY <1>5, <2>1, <2>2 DEF analyse_deadloop
<1>6. CASE analyse_stackoverflow
  <2>1. CASE rec.errtype = "exc" /\ Overflow # "none" /\ analyser_callback(Overflow, 0) /\ Conclude
    <3>1. Overflow \in What /\ (rec.taskover \/ rec.jobover)
      BY <2>1 DEF Overflow, What
    <3>2. QED
      BY <1>6, <2>1, <3>1, Explained DEF analyse_stackoverflow
  <2>2. CASE (rec.errtype # "exc" \/ Overflow = "none") /\ GoOn /\ UNCHANGED <<reports, last, num>>
    <3>1. Call("stackoverflow") /\ Passed("stackoverflow") /\ reports' \in Seq(Report) /\ LateOn
      BY <1>0, <1>12, <1>6, <2>2, CallKeeps DEF analyse_stackoverflow, Passed
    <3>2. QED
      BY <2>2, <3>1, PassedOn
  <2>3. QED
    BY <1>6, <2>1, <2>2 DEF analyse_stackoverflow
<1>7. CASE analyse_deadlock
  <2>1. CASE rec.errtype # "deadlock" /\ GoOn /\ UNCHANGED <<search, reports, last, num>>
    <3>1. Call("deadlock") /\ Passed("deadlock") /\ reports' \in Seq(Report) /\ LateOn
      BY <1>0, <1>12, <1>7, <2>1, CallKeeps DEF analyse_deadlock, Passed
    <3>2. QED
      BY <2>1, <3>1, PassedOn
  <2>2. CASE /\ rec.errtype = "deadlock" /\ analyser_callback("deadlock", 0)
             /\ btitem' = 1 /\ item' = item
             /\ pc' = IF rec.btfunc = <<>> THEN "frames" ELSE "handler"
    <3>1. Call("deadlock") /\ item = "deadlock" /\ rec \in Record /\ rec' = rec
          /\ CalledInv' /\ item \in Module
      BY <1>7, CallKeeps DEF analyse_deadlock
    <3>2. reports' \in Seq(Report) /\ Tellers' = <<"normal", "deadlock">>
      <4>1. PICK k : WalkAt(k)
        BY <3>1, CallKeeps
      <4>2. Tellers = <<"normal">>
        BY <2>2, <3>1, <4>1, WhereItIs DEF Said
      <4>3. "deadlock" \in What /\ 0 \in Int
        BY DEF What
      <4>4. QED
        BY <1>0, <2>2, <3>1, <4>2, <4>3, LastReport, Appended
    <3>3. rec.btfunc = <<>> => Start(rec.btfunc) = 1
      BY <3>1, Backtrace, StartOfAll
    <3>4. BehindInv'
      BY <2>2, <3>1, <3>3 DEF BehindInv
    <3>5. QED
      BY <2>2, <3>1, <3>2, <3>4 DEF WalkInv, EndInv, Outcome, DeadlockCause
  <2>3. QED
    BY <1>7, <2>1, <2>2 DEF analyse_deadlock
<1>8. CASE SkipHandler
  BY <1>8, HandlerStep
<1>9. CASE SearchFrames
  BY <1>9, FramesStep
<1>10. CASE UNCHANGED vars
  <2>1. UNCHANGED <<s_ModuleList, next, pc, rec, item, btnum, btitem, ret, called, reports>>
    BY <1>10 DEF vars, list, search, output
  <2>2. /\ \A k : WalkAt(k)' = WalkAt(k) /\ CalledInv' = CalledInv /\ Tellers' = Tellers
        /\ Start(rec.btfunc)' = Start(rec.btfunc)
    BY <2>1 DEF WalkAt, CalledInv, Said, Tellers, Passed, Overflow
  <2>3. WalkInv'
    BY <1>0, <2>1, <2>2 DEF FullInv, WalkInv
  <2>4. BehindInv'
    BY <2>1, <2>2 DEF FullInv, BehindInv
  <2>5. EndInv'
    BY <2>1, <2>2 DEF FullInv, EndInv, Outcome, DeadlockCause
  <2>6. QED
    BY <2>3, <2>4, <2>5
<1>11. QED
  BY <1>1, <1>2, <1>3, <1>4, <1>5, <1>6, <1>7, <1>8, <1>9, <1>10 DEF Next, Step

LEMMA WalkAlways == Spec => []FullInv
<1>1. Init => FullInv
  <2> SUFFICES ASSUME Init PROVE FullInv
    OBVIOUS
  <2>1. RecordInv /\ SearchInv /\ FramesInBounds
    BY InitInv DEF IInv
  <2>2. ListInv
    BY ListInit
  <2>3. WalkInv /\ BehindInv /\ EndInv
    BY DEF Init, WalkInv, CalledInv, BehindInv, EndInv, Outcome, DeadlockCause
  <2>4. QED
    BY <2>1, <2>2, <2>3 DEF FullInv
<1>2. FullInv /\ [Next]_vars => FullInv'
  BY StepInv, ListStep, WalkStep DEF FullInv, IInv
<1>3. QED
  BY <1>1, <1>2, PTL DEF Spec

(* The modules of every record are asked in the order the priorities give   *)
(* them, from the one that has the highest and then upwards, and the record *)
(* ends with the report of the module of its error, an exception also with  *)
(* the one of a stack that overflowed.                                      *)
THEOREM VerdictOfTheRecord == Spec => []Verdict
<1>1. FullInv => Verdict
  BY CalledOrder DEF FullInv, WalkInv, EndInv, Verdict
<1>2. QED
  BY <1>1, WalkAlways, PTL

(* The cause analyse_deadlock names is the one the backtrace shows, for     *)
(* every backtrace.                                                         *)
THEOREM CauseOfTheDeadlock == Spec => []DeadlockCause
<1>1. FullInv => DeadlockCause
  BY DEF FullInv, EndInv
<1>2. QED
  BY <1>1, WalkAlways, PTL
=============================================================================
