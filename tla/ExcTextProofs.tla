----------------------------- MODULE ExcTextProofs ----------------------------
(***************************************************************************)
(* Theorems about ExcText, for every set of texts and every size of the    *)
(* array of sections.                                                      *)
(***************************************************************************)
EXTENDS ExcText, FiniteSetTheorems, TLAPS

(* A set of line numbers that is not empty has a first, and a last when     *)
(* there is a bound.                                                        *)
LEMMA LeastOf ==
    ASSUME NEW S, S \subseteq Nat, S # {}
    PROVE  \E x \in S : \A y \in S : x <= y
<1>1. PICK x \in S : \A y \in S : ~ (<<y, x>> \in OpToRel(<, Nat))
  BY NatLessThanWellFounded, WFMin
<1>2. \A y \in S : ~ (y < x)
  BY <1>1 DEF OpToRel
<1>3. QED
  BY <1>2

LEMMA FirstIs ==
    ASSUME NEW S, S \subseteq Nat, S # {}
    PROVE  /\ Min(S) \in S /\ Min(S) \in Nat /\ \A y \in S : Min(S) <= y
           /\ First(S) = Min(S)
BY LeastOf DEF Min, First

LEMMA LastIs ==
    ASSUME NEW m \in Nat, NEW S, S \subseteq 1..m, S # {}
    PROVE  Max(S) \in S /\ \A y \in S : y <= Max(S)
<1> DEFINE T == {m - x : x \in S}
<1>1. T \subseteq Nat /\ T # {}
  OBVIOUS
<1>2. PICK t \in T : \A y \in T : t <= y
  BY <1>1, LeastOf
<1>3. PICK x \in S : t = m - x
  BY <1>2
<1>4. \A y \in S : y <= x
  <2> SUFFICES ASSUME NEW y \in S PROVE y <= x
    OBVIOUS
  <2>1. m - y \in T
    OBVIOUS
  <2>2. QED
    BY <1>2, <1>3, <2>1
<1>5. \E z \in S : \A y \in S : z >= y
  BY <1>3, <1>4
<1>6. QED
  BY <1>5 DEF Max

(* The least element of a set is what its only lower bound in it is. *)
LEMMA MinIs ==
    ASSUME NEW S, S \subseteq Nat, NEW x \in S, \A y \in S : x <= y
    PROVE  Min(S) = x
<1>1. Min(S) \in S /\ Min(S) \in Nat /\ \A y \in S : Min(S) <= y
  BY FirstIs
<1>2. Min(S) <= x /\ x <= Min(S) /\ x \in Nat
  BY <1>1
<1>3. QED
  BY <1>1, <1>2

-----------------------------------------------------------------------------
(* Where the parsers are. *)
PlaceInv ==
    /\ text \in Texts
    /\ next \in Nat \ {0}
    /\ block.first \in Nat \ {0} /\ block.last \in Nat
    /\ str \in Nat \ {0} /\ pstr \in Nat /\ rest \in Nat
    /\ pc \in {"record", "exception", "section", "other"}
    /\ pstr # 0 /\ pc = "section" => pstr <= block.last /\ text[pstr] \in Dashes

(* What SectionsApart says of one record of text t. *)
Apart(t, p, what) ==
    \A j \in 2..Len(p) :
        /\ p[j] # {}
        /\ \A q \in p[j-1] : q < Min(p[j])
        /\ t[Min(p[j])] \in Dashes \cup {"track"}
        /\ \A q \in p[j] \ {Min(p[j])} : t[q] \notin Dashes
        /\ what \in {"deadlock", "deadloop"} /\ t[Min(p[j])] = "regend" =>
              "track" \notin {t[q] : q \in p[j]}

(* The sections of the exception in hand are before the one str2phases is   *)
(* to look at.                                                              *)
PhasesInv ==
    /\ phases \in Seq(SUBSET Nat)
    /\ pc = "section" =>
          /\ Apart(text, phases, type)
          /\ pstr # 0 => \A j \in 1..Len(phases) : \A q \in phases[j] : q < pstr

(* A string is a set of line numbers from its first on. *)
LEMMA StrIs ==
    ASSUME NEW p \in Nat, block.last \in Nat
    PROVE  /\ Str(p) \subseteq Nat
           /\ \A q \in Str(p) : p <= q /\ q <= block.last
           /\ p <= block.last => p \in Str(p)
BY DEF Str

LEMMA LinesIs ==
    ASSUME NEW S, NEW T
    PROVE  Lines(S, T) \subseteq S /\ \A q \in Lines(S, T) : text[q] \in T
BY DEF Lines

(* The line of dashes str2phases goes on at. *)
LEMMA NextDashIs ==
    ASSUME PlaceInv, pc = "section", pstr # 0
    PROVE  /\ NextDash \subseteq Nat
           /\ \A d \in NextDash : pstr < d /\ d <= block.last /\ text[d] \in Dashes
           /\ NextDash # {} => /\ First(NextDash) \in NextDash
                               /\ \A d \in NextDash : First(NextDash) <= d
<1>1. Str(pstr) \subseteq Nat /\ \A q \in Str(pstr) : pstr <= q /\ q <= block.last
  BY StrIs DEF PlaceInv
<1>2. NextDash \subseteq Nat /\ \A d \in NextDash : pstr < d /\ d <= block.last /\ text[d] \in Dashes
  <2>1. Lines(Str(pstr), Dashes) \subseteq Str(pstr) /\ \A q \in Lines(Str(pstr), Dashes) : text[q] \in Dashes
    BY LinesIs
  <2>2. ASSUME NEW d \in NextDash PROVE d \in Nat /\ pstr < d /\ d <= block.last /\ text[d] \in Dashes
    <3>1. d \in Lines(Str(pstr), Dashes) /\ d # pstr
      BY DEF NextDash
    <3>2. QED
      BY <1>1, <2>1, <3>1 DEF PlaceInv
  <2>3. QED
    BY <2>2
<1>3. QED
  BY <1>2, FirstIs

(* The section there: it begins with its line of dashes, has no other, and  *)
(* is before the next.                                                      *)
LEMMA SectionIs ==
    ASSUME PlaceInv, pc = "section", pstr # 0
    PROVE  /\ Section \subseteq Nat /\ pstr \in Section
           /\ \A q \in Section : pstr <= q /\ \A d \in NextDash : q < d
           /\ \A q \in Section : text[q] \in Dashes => q = pstr
<1>1. Str(pstr) \subseteq Nat /\ pstr \in Str(pstr) /\ \A q \in Str(pstr) : pstr <= q /\ q <= block.last
  BY StrIs DEF PlaceInv
<1>2. \A d \in NextDash : pstr < d
  BY NextDashIs
<1>3. ASSUME NEW q \in Section, text[q] \in Dashes, q # pstr PROVE FALSE
  <2>1. q \in NextDash /\ q \in Nat /\ q < q
    BY <1>1, <1>3 DEF Section, NextDash, Lines
  <2>2. QED
    BY <2>1
<1>4. QED
  BY <1>1, <1>2, <1>3 DEF Section

LEMMA PlaceStep == PlaceInv /\ [Next]_vars => PlaceInv'
<1> SUFFICES ASSUME PlaceInv, [Next]_vars PROVE PlaceInv'
  OBVIOUS
<1>1. CASE exclist_parse
  <2> DEFINE B == Lines(next..Len(text), Begins)
             begin == IF B = {} THEN Len(text) + 1 ELSE First(B)
             S == BeforeEnd(next..begin-1)
             kept == S \ Lines(S, {"blank"})
  <2>1. text \in Seq(Kind) /\ Len(text) \in Nat /\ next \in Nat \ {0} /\ next <= Len(text) /\ text' = text
    BY <1>1, TextAssumption DEF PlaceInv, exclist_parse
  <2>2. B \subseteq next..Len(text)
    BY LinesIs
  <2>3. begin \in Nat /\ next <= begin /\ begin <= Len(text) + 1
    <3>1. CASE B = {}
      BY <2>1, <3>1
    <3>2. CASE B # {}
      <4>1. First(B) \in B
        BY <2>1, <2>2, <3>2, FirstIs
      <4>2. QED
        BY <2>1, <2>2, <3>2, <4>1
    <3>3. QED
      BY <3>1, <3>2
  <2> HIDE DEF begin, B
  <2>4. kept \subseteq 1..Len(text)
    BY <2>1, <2>3 DEF BeforeEnd
  <2> HIDE DEF kept
  <2>5. next' \in {begin + 1, Len(text) + 1} /\ pstr' = pstr /\ rest' = rest
    BY <1>1 DEF exclist_parse, Behind, begin, B
  <2>6. \/ UNCHANGED <<pc, block, cut, str>>
        \/ /\ kept # {} /\ block' = [first |-> First(kept), last |-> Max(kept)]
           /\ str' = First(kept) /\ pc' \in {"exception", "other"}
    BY <1>1 DEF exclist_parse, begin, B, kept
  <2>7. kept # {} => First(kept) \in Nat \ {0} /\ Max(kept) \in Nat
    <3>1. PICK m \in Nat : m = Len(text)
      BY <2>1
    <3>2. kept \subseteq 1..m /\ kept \subseteq Nat
      BY <2>4, <3>1
    <3>3. kept # {} => First(kept) \in kept /\ Max(kept) \in kept
      BY <3>2, FirstIs, LastIs
    <3> DEFINE f == First(kept)
               l == Max(kept)
    <3>4. kept # {} => f \in kept /\ l \in kept
      BY <3>3
    <3> HIDE DEF f, l
    <3>5. ASSUME NEW q \in kept PROVE q \in Nat \ {0}
      BY <3>2
    <3>6. kept # {} => f \in Nat \ {0} /\ l \in Nat \ {0}
      BY <3>4, <3>5, Zenon
    <3> HIDE DEF f, l
    <3>7. QED
      BY <3>6 DEF f, l
  <2>8. pc = "record"
    BY <1>1 DEF exclist_parse
  <2>9. QED
    BY <2>1, <2>3, <2>5, <2>6, <2>7, <2>8 DEF PlaceInv
<1>2. CASE str2phases
  <2> DEFINE D == Lines(Str(str), Dashes)
  <2>1. /\ UNCHANGED <<text, next, block, str>> /\ rest' = 0 /\ pc' = "section"
        /\ (D = {} /\ pstr' = 0) \/ (D # {} /\ pstr' = First(D))
    BY <1>2 DEF str2phases
  <2>2. Str(str) \subseteq Nat /\ \A q \in Str(str) : q <= block.last
    BY StrIs DEF PlaceInv
  <2>3. D \subseteq Nat /\ \A q \in D : q <= block.last /\ text[q] \in Dashes
    BY <2>2, LinesIs
  <2> HIDE DEF D
  <2>4. pstr' = 0 \/ pstr' \in D
    BY <2>1, <2>3, FirstIs
  <2>5. pstr' \in Nat /\ (pstr' # 0 => pstr' <= block.last /\ text[pstr'] \in Dashes)
    <3>1. CASE pstr' = 0
      BY <3>1
    <3>2. ASSUME NEW q \in D PROVE q \in Nat /\ q <= block.last /\ text[q] \in Dashes
      BY <2>3
    <3>3. QED
      BY <2>4, <3>1, <3>2, Zenon
  <2>6. QED
    BY <2>1, <2>5 DEF PlaceInv
<1>3. CASE SeekTitle \/ NextTitle \/ AddSection
  <2>1. pc = "section" /\ pstr # 0 /\ UNCHANGED <<text, next, block, str, pc>>
    BY <1>3 DEF SeekTitle, NextTitle, AddSection, InSection
  <2>2. pstr' = 0 \/ (NextDash # {} /\ pstr' = First(NextDash))
    BY <1>3 DEF SeekTitle, NextTitle, AddSection, Goto
  <2>3. rest' \in Nat
    <3>1. CASE rest' = rest \/ rest' = pstr
      BY <3>1 DEF PlaceInv
    <3>2. CASE AddSection /\ Lines(Section, {"stars"}) # {} /\ rest' = First(Lines(Section, {"stars"}))
      <4>1. Lines(Section, {"stars"}) \subseteq Nat
        BY <2>1, SectionIs, LinesIs
      <4>2. QED
        BY <3>2, <4>1, FirstIs
    <3>3. QED
      BY <1>3, <3>1, <3>2 DEF SeekTitle, NextTitle, AddSection, RestHere
  <2>4. pstr' \in Nat /\ (pstr' # 0 => pstr' <= block.last /\ text[pstr'] \in Dashes)
    BY <2>1, <2>2, NextDashIs
  <2>5. QED
    BY <2>1, <2>3, <2>4 DEF PlaceInv
<1>4. CASE AppRecord
  <2>1. rest # 0 => rest \in Nat \ {0}
    BY DEF PlaceInv
  <2>2. /\ UNCHANGED <<text, next, block, pstr, rest>> /\ pc' \in {"record", "exception"}
        /\ str' = str \/ (rest # 0 /\ str' = rest)
    BY <1>4 DEF AppRecord
  <2>3. QED
    BY <2>1, <2>2 DEF PlaceInv
<1>5. CASE NotFound \/ excblock_parse_otherexc
  BY <1>5 DEF NotFound, excblock_parse_otherexc, cursor, PlaceInv
<1>6. CASE UNCHANGED vars
  BY <1>6 DEF vars, cursor, PlaceInv
<1>7. QED
  BY <1>1, <1>2, <1>3, <1>4, <1>5, <1>6 DEF Next

-----------------------------------------------------------------------------
(* A section that begins with its line of dashes at x and has no other, cut *)
(* in two before the callback list of a dead lock or a dead loop.           *)
LEMMA SplitIs ==
    ASSUME NEW S, S \subseteq Nat, NEW x \in S, \A q \in S : x <= q, text[x] \in Dashes,
           \A q \in S : text[q] \in Dashes => q = x
    PROVE  /\ \/ Split(S) = <<S>>
              \/ \E t \in S : /\ x < t /\ text[t] = "track"
                             /\ Split(S) = <<{q \in S : q < t}, {q \in S : q >= t}>>
                             /\ \A q \in S : q < t /\ x < q /\ text[x] = "regend" => text[q] # "track"
           /\ Split(S) = <<S>> /\ type \in {"deadlock", "deadloop"} /\ text[x] = "regend" =>
                  \A q \in S : text[q] # "track"
<1> DEFINE R == Lines(S, {"regend"})
           T == {t \in Lines(S, {"track"}) : \E r \in R : r < t}
<1>1. Split(S) = IF type \in {"deadlock", "deadloop"} /\ T # {}
                 THEN <<{q \in S : q < First(T)}, {q \in S : q >= First(T)}>> ELSE <<S>>
  BY DEF Split, SplitTrack
<1>2. T \subseteq S /\ T \subseteq Nat
  BY DEF Lines
<1>3. ASSUME text[x] = "regend", NEW q \in S, text[q] = "track"
      PROVE  q \in T /\ T # {}
  <2>1. x # q /\ x <= q /\ q \in Nat /\ x \in Nat
    BY <1>3
  <2>2. x < q
    BY <2>1
  <2>3. x \in R
    BY <1>3 DEF Lines
  <2>4. q \in Lines(S, {"track"})
    BY <1>3 DEF Lines
  <2>5. QED
    BY <2>2, <2>3, <2>4
<1>4. CASE type \in {"deadlock", "deadloop"} /\ T # {}
  <2> DEFINE f == First(T)
  <2>1. f \in T /\ \A y \in T : f <= y
    BY <1>2, <1>4, FirstIs
  <2>2. f \in S /\ f \in Nat /\ text[f] = "track" /\ \E r \in S : r < f
    BY <1>2, <2>1 DEF Lines
  <2>3. x < f
    BY <2>2
  <2>4. Split(S) = <<{q \in S : q < f}, {q \in S : q >= f}>>
    BY <1>1, <1>4
  <2>5. \A q \in S : q < f /\ x < q /\ text[x] = "regend" => text[q] # "track"
    <3> SUFFICES ASSUME NEW q \in S, q < f, text[x] = "regend", text[q] = "track" PROVE FALSE
      OBVIOUS
    <3>1. f <= q /\ q \in Nat
      BY <1>3, <2>1
    <3>2. QED
      BY <2>2, <3>1
  <2> HIDE DEF f
  <2>6. Split(S) # <<S>>
    BY <2>4
  <2>7. QED
    BY <2>2, <2>3, <2>4, <2>5, <2>6
<1>5. CASE ~ (type \in {"deadlock", "deadloop"} /\ T # {})
  <2>1. Split(S) = <<S>>
    BY <1>1, <1>5
  <2>2. QED
    BY <1>3, <1>5, <2>1
<1>6. QED
  BY <1>4, <1>5

(* Sequences with one and with two more elements. *)
LEMMA Single ==
    ASSUME NEW T, NEW a \in T
    PROVE  <<a>> \in Seq(T) /\ Len(<<a>>) = 1 /\ <<a>>[1] = a
OBVIOUS

LEMMA TwoMore ==
    ASSUME NEW T, NEW p \in Seq(T), NEW n \in Nat, n = Len(p), NEW a \in T, NEW b \in T
    PROVE  /\ p \o <<a, b>> \in Seq(T) /\ Len(p \o <<a, b>>) = n + 2
           /\ (p \o <<a, b>>)[n + 1] = a /\ (p \o <<a, b>>)[n + 2] = b
           /\ \A j \in 1..n : (p \o <<a, b>>)[j] = p[j]
<1>1. <<a, b>> \in Seq(T) /\ Len(<<a, b>>) = 2 /\ <<a, b>>[1] = a /\ <<a, b>>[2] = b
  OBVIOUS
<1>2. QED
  BY <1>1

(* The first section of an exception is among the lines it is looked for    *)
(* in.                                                                      *)
LEMMA HeadIs ==
    ASSUME NEW S, S \subseteq Nat
    PROVE  /\ HeadPhase(S) \in Seq(SUBSET Nat) /\ Len(HeadPhase(S)) \in 0..1
           /\ \A j \in 1..Len(HeadPhase(S)) : HeadPhase(S)[j] \subseteq S
           /\ TypeOf(S) \in Markers \cup {"unknown"}
<1>1. get_exctype(S) \subseteq S
  BY DEF get_exctype
<1>2. TypeOf(S) \in Markers \cup {"unknown"}
  BY DEF TypeOf, Markers
<1>3. HeadPhase(S) = <<>> \/ HeadPhase(S) = <<get_exctype(S)>>
  BY DEF HeadPhase
<1> DEFINE h == get_exctype(S)
<1> HIDE DEF h
<1>4. CASE HeadPhase(S) = <<>>
  BY <1>2, <1>4
<1>5. CASE HeadPhase(S) = <<h>>
  <2>1. h \in SUBSET Nat /\ h \subseteq S
    BY <1>1 DEF h
  <2>2. <<h>> \in Seq(SUBSET Nat) /\ Len(<<h>>) = 1 /\ <<h>>[1] = h
    BY <2>1, Single
  <2>3. ASSUME NEW j \in 1..1 PROVE <<h>>[j] \subseteq S
    <3>1. j = 1
      OBVIOUS
    <3>2. QED
      BY <2>1, <2>2, <3>1, Zenon
  <2>4. /\ <<h>> \in Seq(SUBSET Nat) /\ Len(<<h>>) \in 0..1
        /\ \A j \in 1..Len(<<h>>) : <<h>>[j] \subseteq S
    BY <2>2, <2>3
  <2>5. QED
    BY <1>2, <1>5, <2>4, Zenon
<1>6. QED
  BY <1>3, <1>4, <1>5 DEF h

(* One section, or none, has nothing to be apart from. *)
LEMMA ApartAlone ==
    ASSUME NEW p, NEW what, Len(p) \in 0..1
    PROVE  Apart(text, p, what)
<1>1. PICK c \in 0..1 : c = Len(p)
  OBVIOUS
<1>2. 2..c = {}
  OBVIOUS
<1>3. QED
  BY <1>1, <1>2 DEF Apart

(* The sections AddSection appends are apart from each other and from those *)
(* before pstr.                                                             *)
LEMMA SectionAdded ==
    ASSUME NEW p \in Seq(SUBSET Nat), Apart(text, p, type),
           NEW S, S \subseteq Nat, NEW x \in S, \A q \in S : x <= q,
           \A j \in 1..Len(p) : \A q \in p[j] : q < x,
           text[x] \in Dashes, \A q \in S : text[q] \in Dashes => q = x
    PROVE  /\ p \o Split(S) \in Seq(SUBSET Nat)
           /\ Apart(text, p \o Split(S), type)
           /\ \A j \in 1..Len(p \o Split(S)) : \A q \in (p \o Split(S))[j] : q < x \/ q \in S
<1>1. PICK n \in Nat : n = Len(p)
  OBVIOUS
<1>2. \A j \in 1..n : p[j] \subseteq Nat /\ \A q \in p[j] : q < x
  BY <1>1
<1>3. x \in Nat
  OBVIOUS
<1>4. ASSUME NEW j \in 2..n
      PROVE  /\ p[j] # {}
             /\ \A q \in p[j-1] : q < Min(p[j])
             /\ text[Min(p[j])] \in Dashes \cup {"track"}
             /\ \A q \in p[j] \ {Min(p[j])} : text[q] \notin Dashes
             /\ type \in {"deadlock", "deadloop"} /\ text[Min(p[j])] = "regend" =>
                   "track" \notin {text[q] : q \in p[j]}
  BY <1>1 DEF Apart
<1>5. CASE Split(S) = <<S>>
  <2> DEFINE r == p \o Split(S)
  <2>1. r \in Seq(SUBSET Nat) /\ Len(r) = n + 1 /\ r[n + 1] = S
        /\ \A j \in 1..n : r[j] = p[j]
    BY <1>1, <1>5
  <2>2. Min(S) = x
    BY MinIs
  <2> HIDE DEF r
  <2>3. type \in {"deadlock", "deadloop"} /\ text[x] = "regend" => \A q \in S : text[q] # "track"
    BY <1>5, SplitIs
  <2>4. Apart(text, r, type)
    <3> SUFFICES ASSUME NEW j \in 2..Len(r)
                 PROVE  /\ r[j] # {}
                        /\ \A q \in r[j-1] : q < Min(r[j])
                        /\ text[Min(r[j])] \in Dashes \cup {"track"}
                        /\ \A q \in r[j] \ {Min(r[j])} : text[q] \notin Dashes
                        /\ type \in {"deadlock", "deadloop"} /\ text[Min(r[j])] = "regend" =>
                              "track" \notin {text[q] : q \in r[j]}
      BY DEF Apart
    <3>1. CASE j \in 2..n
      <4>1. r[j] = p[j] /\ r[j-1] = p[j-1]
        BY <2>1, <3>1
      <4>2. QED
        BY <1>4, <3>1, <4>1
    <3>2. CASE j = n + 1
      <4>1. r[j] = S /\ r[j-1] = p[n] /\ n \in 1..n
        BY <2>1, <3>2
      <4>2. QED
        BY <1>2, <2>2, <2>3, <4>1
    <3>3. QED
      BY <2>1, <3>1, <3>2
  <2>5. \A j \in 1..Len(r) : \A q \in r[j] : q < x \/ q \in S
    <3> SUFFICES ASSUME NEW j \in 1..(n + 1), NEW q \in r[j] PROVE q < x \/ q \in S
      BY <2>1
    <3>1. j \in 1..n \/ j = n + 1
      OBVIOUS
    <3>2. QED
      BY <1>2, <2>1, <3>1
  <2>6. QED
    BY <2>1, <2>4, <2>5 DEF r
<1>6. CASE Split(S) # <<S>>
  <2>0. \/ Split(S) = <<S>>
        \/ \E t \in S : /\ x < t /\ text[t] = "track"
                       /\ Split(S) = <<{q \in S : q < t}, {q \in S : q >= t}>>
                       /\ \A q \in S : q < t /\ x < q /\ text[x] = "regend" => text[q] # "track"
    BY SplitIs
  <2>1. PICK t \in S : /\ x < t /\ text[t] = "track"
                       /\ Split(S) = <<{q \in S : q < t}, {q \in S : q >= t}>>
                       /\ \A q \in S : q < t /\ x < q /\ text[x] = "regend" => text[q] # "track"
    BY <1>6, <2>0, Zenon
  <2> DEFINE r == p \o Split(S)
             one == {q \in S : q < t}
             two == {q \in S : q >= t}
  <2>2. r \in Seq(SUBSET Nat) /\ Len(r) = n + 2 /\ r[n + 1] = one /\ r[n + 2] = two
        /\ \A j \in 1..n : r[j] = p[j]
    <3>1. one \in SUBSET Nat /\ two \in SUBSET Nat /\ Split(S) = <<one, two>>
      BY <2>1
    <3> HIDE DEF one, two
    <3>2. QED
      BY <1>1, <3>1, TwoMore
  <2>3. Min(one) = x /\ x \in one
    <3>1. one \subseteq Nat /\ x \in one /\ \A y \in one : x <= y
      BY <2>1
    <3>2. QED
      BY <3>1, MinIs
  <2>4. Min(two) = t /\ t \in two
    <3>0. t \in Nat /\ t >= t
      OBVIOUS
    <3>1. two \subseteq Nat /\ t \in two
      <4>1. two \subseteq S
        OBVIOUS
      <4>2. t \in two
        BY <3>0, Zenon
      <4>3. QED
        BY <4>1, <4>2, Zenon
    <3>2. ASSUME NEW y \in two PROVE t <= y
      <4>1. y \in S /\ y >= t
        OBVIOUS
      <4>2. y \in Nat
        BY <4>1
      <4>3. QED
        BY <3>0, <4>1, <4>2
    <3>3. QED
      BY <3>1, <3>2, MinIs
  <2>5. /\ \A q \in one : q \in S /\ q < t /\ (text[q] \in Dashes => q = x)
        /\ text[x] = "regend" => \A q \in one : text[q] # "track"
        /\ \A q \in two : q \in S /\ text[q] \notin Dashes
    <3>1. ASSUME NEW q \in two PROVE text[q] \notin Dashes
      <4>1. q \in S /\ q >= t /\ q \in Nat /\ t \in Nat
        OBVIOUS
      <4>2. q # x
        BY <1>3, <2>1, <4>1
      <4>3. QED
        BY <4>1, <4>2
    <3>2. ASSUME text[x] = "regend", NEW q \in one PROVE text[q] # "track"
      <4>1. q \in Nat /\ (x < q \/ x = q) /\ q < t /\ q \in S
        BY <1>3
      <4>2. QED
        BY <2>1, <3>2, <4>1
    <3>3. \A q \in one : q \in S /\ q < t /\ (text[q] \in Dashes => q = x)
      OBVIOUS
    <3>4. QED
      BY <3>1, <3>2, <3>3
  <2>6. text[t] = "track" /\ "track" \notin Dashes /\ text[t] # "regend"
    BY <2>1 DEF Dashes
  <2> HIDE DEF r, one, two
  <2>7. Apart(text, r, type)
    <3> SUFFICES ASSUME NEW j \in 2..Len(r)
                 PROVE  /\ r[j] # {}
                        /\ \A q \in r[j-1] : q < Min(r[j])
                        /\ text[Min(r[j])] \in Dashes \cup {"track"}
                        /\ \A q \in r[j] \ {Min(r[j])} : text[q] \notin Dashes
                        /\ type \in {"deadlock", "deadloop"} /\ text[Min(r[j])] = "regend" =>
                              "track" \notin {text[q] : q \in r[j]}
      BY DEF Apart
    <3>1. CASE j \in 2..n
      <4>1. r[j] = p[j] /\ r[j-1] = p[j-1]
        BY <2>2, <3>1
      <4>2. QED
        BY <1>4, <3>1, <4>1
    <3>2. CASE j = n + 1
      <4>1. r[j] = one /\ r[j-1] = p[n] /\ n \in 1..n
        BY <2>2, <3>2
      <4>2. \A q \in p[n] : q < Min(one)
        BY <1>2, <2>3, <4>1
      <4>3. /\ one # {} /\ text[Min(one)] \in Dashes
            /\ \A q \in one \ {Min(one)} : text[q] \notin Dashes
            /\ text[Min(one)] = "regend" => "track" \notin {text[q] : q \in one}
        BY <2>3, <2>5
      <4>4. \A q \in r[j-1] : q < Min(r[j])
        BY <4>1, <4>2, Zenon
      <4>5. /\ r[j] # {} /\ text[Min(r[j])] \in Dashes
            /\ \A q \in r[j] \ {Min(r[j])} : text[q] \notin Dashes
            /\ text[Min(r[j])] = "regend" => "track" \notin {text[q] : q \in r[j]}
        BY <4>1, <4>3, Zenon
      <4>6. text[Min(r[j])] \in Dashes \cup {"track"}
        BY <4>5
      <4>7. QED
        BY <4>4, <4>5, <4>6
    <3>3. CASE j = n + 2
      <4>1. r[j] = two /\ r[j-1] = one
        BY <2>2, <3>3
      <4>2. \A q \in one : q < Min(two)
        BY <2>4, <2>5
      <4>3. /\ two # {} /\ text[Min(two)] = "track" /\ text[Min(two)] # "regend"
            /\ \A q \in two \ {Min(two)} : text[q] \notin Dashes
        BY <2>4, <2>5, <2>6
      <4>4. QED
        BY <4>1, <4>2, <4>3
    <3>4. j \in 2..n \/ j = n + 1 \/ j = n + 2
      BY <2>2
    <3>5. QED
      BY <3>1, <3>2, <3>3, <3>4, Zenon
  <2>8. \A j \in 1..Len(r) : \A q \in r[j] : q < x \/ q \in S
    <3> SUFFICES ASSUME NEW j \in 1..(n + 2), NEW q \in r[j] PROVE q < x \/ q \in S
      BY <2>2
    <3>1. j \in 1..n \/ j = n + 1 \/ j = n + 2
      OBVIOUS
    <3>2. QED
      BY <1>2, <2>2, <2>5, <3>1
  <2>9. QED
    BY <2>2, <2>7, <2>8 DEF r
<1>7. QED
  BY <1>5, <1>6

LEMMA PhasesStep == PlaceInv /\ PhasesInv /\ [Next]_vars => PhasesInv'
<1> SUFFICES ASSUME PlaceInv, PhasesInv, [Next]_vars PROVE PhasesInv'
  OBVIOUS
<1>1. CASE exclist_parse
  BY <1>1 DEF exclist_parse, PhasesInv
<1>2. CASE str2phases
  <2> DEFINE D == Lines(Str(str), Dashes)
             head == {q \in Str(str) : \A d \in D : q < d}
  <2>1. /\ text' = text /\ phases' = HeadPhase(head) /\ pc' = "section"
        /\ pstr' # 0 => D # {} /\ pstr' = First(D)
    BY <1>2 DEF str2phases
  <2>2. Str(str) \subseteq Nat
    BY StrIs DEF PlaceInv
  <2>3. head \subseteq Nat /\ D \subseteq Nat /\ \A q \in head : \A d \in D : q < d
    BY <2>2, LinesIs
  <2>4. D # {} => First(D) \in D
    BY <2>3, FirstIs
  <2> HIDE DEF D, head
  <2>5. /\ phases' \in Seq(SUBSET Nat) /\ Len(phases') \in 0..1
        /\ \A j \in 1..Len(phases') : phases'[j] \subseteq head
    BY <2>1, <2>3, HeadIs
  <2>6. pstr' # 0 => \A q \in head : q < pstr'
    BY <2>1, <2>3, <2>4
  <2>7. Apart(text, phases, type)'
    BY <2>5 DEF Apart
  <2>8. QED
    BY <2>5, <2>6, <2>7 DEF PhasesInv
<1>3. CASE SeekTitle
  <2>1. /\ pc = "section" /\ pc' = pc /\ pstr # 0 /\ phases' = HeadPhase(Section)
        /\ pstr' # 0 => NextDash # {} /\ pstr' = First(NextDash)
    BY <1>3 DEF SeekTitle, InSection, Goto
  <2>2. Section \subseteq Nat /\ \A q \in Section : \A d \in NextDash : q < d
    BY <2>1, SectionIs
  <2>3. NextDash # {} => First(NextDash) \in NextDash
    BY <2>1, NextDashIs
  <2>4. /\ phases' \in Seq(SUBSET Nat) /\ Len(phases') \in 0..1
        /\ \A j \in 1..Len(phases') : phases'[j] \subseteq Section
    BY <2>1, <2>2, HeadIs
  <2>5. pstr' # 0 => \A q \in Section : q < pstr'
    BY <2>1, <2>2, <2>3
  <2>6. Apart(text, phases, type)'
    BY <2>4 DEF Apart
  <2>7. QED
    BY <2>1, <2>4, <2>5, <2>6 DEF PhasesInv
<1>4. CASE NextTitle
  BY <1>4 DEF NextTitle, InSection, PhasesInv
<1>5. CASE AddSection
  <2> DEFINE E == Lines(Section, {"stars"})
             S == {q \in Section : \A e \in E : q < e}
  <2>1. /\ pc = "section" /\ pc' = pc /\ pstr # 0 /\ phases' = phases \o Split(S)
        /\ UNCHANGED <<text, type>>
        /\ pstr' # 0 => NextDash # {} /\ pstr' = First(NextDash)
    BY <1>5 DEF AddSection, InSection, Goto
  <2>2. /\ Section \subseteq Nat /\ pstr \in Section
        /\ \A q \in Section : pstr <= q /\ \A d \in NextDash : q < d
        /\ \A q \in Section : text[q] \in Dashes => q = pstr
    BY <2>1, SectionIs
  <2>3. /\ NextDash # {} => First(NextDash) \in NextDash
        /\ \A d \in NextDash : pstr < d
    BY <2>1, NextDashIs
  <2>4. pstr \in S
    <3> SUFFICES ASSUME NEW e \in E PROVE pstr < e
      BY <2>2
    <3>1. e \in Section /\ text[e] = "stars"
      BY LinesIs
    <3>2. text[pstr] \in Dashes /\ "stars" \notin Dashes /\ pstr \in Nat
      BY <2>1 DEF PlaceInv, Dashes
    <3>3. e # pstr /\ e \in Nat /\ pstr <= e
      BY <2>2, <3>1, <3>2
    <3>4. QED
      BY <3>2, <3>3
  <2>5. S \subseteq Nat /\ (\A q \in S : pstr <= q) /\ (\A q \in S : text[q] \in Dashes => q = pstr)
        /\ \A q \in S : q \in Section
    BY <2>2
  <2>6. /\ phases \in Seq(SUBSET Nat) /\ Apart(text, phases, type)
        /\ \A j \in 1..Len(phases) : \A q \in phases[j] : q < pstr
    BY <2>1 DEF PhasesInv
  <2>7. text[pstr] \in Dashes /\ pstr \in Nat
    BY <2>1 DEF PlaceInv
  <2> HIDE DEF S, E
  <2>8. /\ phases' \in Seq(SUBSET Nat) /\ Apart(text, phases', type)
        /\ \A j \in 1..Len(phases') : \A q \in phases'[j] : q < pstr \/ q \in S
    BY <2>1, <2>4, <2>5, <2>6, <2>7, SectionAdded
  <2>9. Apart(text, phases, type)'
    BY <2>1, <2>8
  <2>10. ASSUME pstr' # 0, NEW j \in 1..Len(phases'), NEW q \in phases'[j] PROVE q < pstr'
    <3>1. pstr' \in NextDash /\ pstr < pstr'
      BY <2>1, <2>3, <2>10
    <3>2. CASE q \in S
      BY <2>2, <2>5, <3>1, <3>2
    <3>3. CASE q < pstr
      <4>1. pstr' \in Nat /\ q \in Nat
        BY <2>1, <2>8, NextDashIs, <3>1
      <4>2. QED
        BY <2>7, <3>1, <3>3, <4>1
    <3>4. QED
      BY <2>8, <3>2, <3>3
  <2>11. QED
    BY <2>8, <2>9, <2>10 DEF PhasesInv
<1>6. CASE AppRecord
  BY <1>6 DEF AppRecord, PhasesInv
<1>7. CASE NotFound \/ excblock_parse_otherexc
  BY <1>7 DEF NotFound, excblock_parse_otherexc, cursor, PhasesInv
<1>8. CASE UNCHANGED vars
  BY <1>8 DEF vars, cursor, PhasesInv
<1>9. QED
  BY <1>1, <1>2, <1>3, <1>4, <1>5, <1>6, <1>7, <1>8 DEF Next

(* The records keep what they were given: AppRecord and                    *)
(* excblock_parse_otherexc add one, the first with the sections in hand,    *)
(* the second with one section.                                             *)
Written == [what : Markers \cup {"unknown", "other"}, phases : Seq(SUBSET Nat), detail : BOOLEAN]
ApartRecords == \A i \in 1..Len(records) : Apart(text, records[i].phases, records[i].what)
RecordsInv ==
    /\ type \in Markers \cup {"unknown"}
    /\ records \in Seq(Written)
    /\ ApartRecords

LEMMA Appended ==
    ASSUME NEW r \in Written, records \in Seq(Written), ApartRecords, Apart(text, r.phases, r.what),
           records' = Append(records, r), text' = text
    PROVE  records' \in Seq(Written) /\ ApartRecords'
<1>1. PICK n \in Nat : n = Len(records)
  OBVIOUS
<1>2. /\ records' \in Seq(Written) /\ Len(records') = n + 1 /\ records'[n + 1] = r
      /\ \A i \in 1..n : records'[i] = records[i]
  BY <1>1
<1>3. ASSUME NEW i \in 1..(n + 1)
      PROVE  Apart(text, records'[i].phases, records'[i].what)
  <2>1. CASE i = n + 1
    BY <1>2, <2>1
  <2>2. CASE i # n + 1
    <3>1. i \in 1..n
      BY <2>2
    <3>2. QED
      BY <1>1, <1>2, <3>1 DEF ApartRecords
  <2>3. QED
    BY <2>1, <2>2
<1>4. ASSUME NEW i \in 1..(n + 1), Apart(text, records'[i].phases, records'[i].what)
      PROVE  Apart(text, records[i].phases, records[i].what)'
  BY <1>4
<1>5. QED
  BY <1>2, <1>3, <1>4 DEF ApartRecords

LEMMA RecordsStep == PlaceInv /\ PhasesInv /\ RecordsInv /\ [Next]_vars => RecordsInv'
<1> SUFFICES ASSUME PlaceInv, PhasesInv, RecordsInv, [Next]_vars PROVE RecordsInv'
  OBVIOUS
<1>0. type \in Markers \cup {"unknown"} /\ records \in Seq(Written) /\ ApartRecords
  BY DEF RecordsInv
<1>1. CASE exclist_parse \/ NextTitle \/ AddSection \/ NotFound \/ UNCHANGED vars
  BY <1>1 DEF exclist_parse, NextTitle, AddSection, NotFound, vars, cursor, RecordsInv, ApartRecords
<1>2. CASE str2phases
  <2>1. PICK S \in SUBSET Nat : type' = TypeOf(S)
    <3>1. Str(str) \subseteq Nat
      BY StrIs DEF PlaceInv
    <3>2. QED
      BY <1>2, <3>1 DEF str2phases
  <2>2. type' \in Markers \cup {"unknown"}
    BY <2>1, HeadIs
  <2>3. UNCHANGED <<text, records>>
    BY <1>2 DEF str2phases
  <2>4. QED
    BY <2>2, <2>3 DEF RecordsInv, ApartRecords
<1>3. CASE SeekTitle
  <2>1. type' = TypeOf(Section) /\ UNCHANGED <<text, records>> /\ pc = "section" /\ pstr # 0
    BY <1>3 DEF SeekTitle, InSection
  <2>2. type' \in Markers \cup {"unknown"}
    BY <2>1, SectionIs, HeadIs
  <2>3. QED
    BY <2>1, <2>2 DEF RecordsInv, ApartRecords
<1>4. CASE AppRecord
  <2> DEFINE r == [what |-> type, phases |-> phases, detail |-> TRUE]
  <2>1. records' = Append(records, r) /\ UNCHANGED <<text, type>> /\ pc = "section"
    BY <1>4 DEF AppRecord, EndOfSections
  <2>2. r \in Written /\ Apart(text, r.phases, r.what)
    BY <1>0, <2>1 DEF Written, PhasesInv
  <2>3. records' \in Seq(Written) /\ ApartRecords'
    BY <1>0, <2>1, <2>2, Appended
  <2>4. QED
    BY <2>1, <2>3 DEF RecordsInv
<1>5. CASE excblock_parse_otherexc
  <2> DEFINE S == Str(block.first)
  <2>1. PICK long \in BOOLEAN :
           records' = Append(records, [what |-> "other", phases |-> <<S>>, detail |-> long])
    BY <1>5 DEF excblock_parse_otherexc
  <2> DEFINE r == [what |-> "other", phases |-> <<S>>, detail |-> long]
  <2>2. S \in SUBSET Nat
    BY StrIs DEF PlaceInv
  <2> HIDE DEF S
  <2>3. <<S>> \in Seq(SUBSET Nat) /\ Len(<<S>>) \in 0..1
    BY <2>2, Single
  <2>4. r \in Written /\ r.phases = <<S>>
    BY <2>3 DEF Written
  <2>5. Apart(text, r.phases, r.what)
    BY <2>3, <2>4, ApartAlone
  <2>6. UNCHANGED <<text, type>>
    BY <1>5 DEF excblock_parse_otherexc, cursor
  <2>7. records' = Append(records, r)
    BY <2>1
  <2> HIDE DEF r
  <2>8. records' \in Seq(Written) /\ ApartRecords'
    BY <1>0, <2>4, <2>5, <2>6, <2>7, Appended
  <2>9. QED
    BY <2>6, <2>8 DEF RecordsInv
<1>6. QED
  BY <1>1, <1>2, <1>3, <1>4, <1>5 DEF Next

LEMMA ParserStarts == Init => PlaceInv /\ PhasesInv /\ RecordsInv
<1> SUFFICES ASSUME Init PROVE PlaceInv /\ PhasesInv /\ RecordsInv
  OBVIOUS
<1>1. PlaceInv
  BY DEF Init, PlaceInv
<1>2. PhasesInv
  BY DEF Init, PhasesInv
<1>3. RecordsInv
  BY DEF Init, RecordsInv, ApartRecords
<1>4. QED
  BY <1>1, <1>2, <1>3

(* The sections of the exceptions str2phases gives to phases2val are        *)
(* disjoint and in order, each begins with its line of dashes or with the   *)
(* title of the callback list, has no other line of dashes, and the         *)
(* callback list of a dead lock or a dead loop is not with the registers:   *)
(* for every text, with any number of titles, dashes, stars and ends of     *)
(* exceptions anywhere, and every size of the array of sections.            *)
THEOREM SectionsStayApart == Spec => []SectionsApart
<1>1. PlaceInv /\ PhasesInv /\ RecordsInv /\ [Next]_vars => (PlaceInv /\ PhasesInv /\ RecordsInv)'
  BY PlaceStep, PhasesStep, RecordsStep
<1>2. RecordsInv => SectionsApart
  <2> SUFFICES ASSUME RecordsInv PROVE SectionsApart
    OBVIOUS
  <2>1. DOMAIN records = 1..Len(records)
    BY DEF RecordsInv
  <2>2. QED
    BY <2>1 DEF RecordsInv, ApartRecords, Apart, SectionsApart
<1>3. QED
  BY <1>1, <1>2, ParserStarts, PTL DEF Spec

-----------------------------------------------------------------------------
(* The division of a text t into blocks, sections and exceptions that       *)
(* RecordsAsWritten states of text.                                         *)
Marks(t, S, T) == {q \in S : t[q] \in T}
KindIn(t, S) ==
    IF Marks(t, S, {"deadloop"}) # {} THEN "deadloop"
    ELSE IF Marks(t, S, {"deadlock"}) # {} THEN "deadlock"
    ELSE IF Marks(t, S, {"exc"}) # {} THEN "exc"
    ELSE "unknown"

KeptIn(t, c) ==
    {q \in DOMAIN t : /\ c < q /\ t[q] # "blank"
                      /\ \A p \in c+1..q : t[p] \notin Begins \cup {"endrec"}}
BlockIn(t, c) == [first |-> Min(KeptIn(t, c)), last |-> Max(KeptIn(t, c))]
(* The marks of a beginning that are read, and the blocks behind them.      *)
LosesIn(t, q) == t[q] = "bare" /\ (q = 1 \/ t[q - 1] \in Begins)
ReadIn(t)     == {c \in {0} \cup Marks(t, DOMAIN t, Begins) : \A q \in 1..c : ~ LosesIn(t, q)}
BlocksIn(t)   == {BlockIn(t, c) : c \in {d \in ReadIn(t) : KeptIn(t, d) # {}}}

StartsIn(t, b)     == {b.first} \cup Marks(t, b.first..b.last, Dashes)
SectionIn(t, b, s) == {q \in s..b.last : \A u \in StartsIn(t, b) : s < u => q < u}
TitlesIn(t, b)     == {s \in StartsIn(t, b) : Marks(t, SectionIn(t, b, s), Markers) # {}}

(* The kind and the title of the section at s, the lines of its exception   *)
(* before line x.                                                           *)
KindAt(t, b, s)    == KindIn(t, SectionIn(t, b, s))
TitleAt(t, b, s)   == Min({q \in SectionIn(t, b, s) : t[q] = KindAt(t, b, s)})
PartIn(t, b, s, x) == {q \in s..x-1 : \A e \in s..TitleAt(t, b, s) : t[e] = "end" => e < q}

ExceptionIn(t, b, s) ==
    [what  |-> KindAt(t, b, s),
     lines |-> {q \in s..b.last :
                  /\ \A u \in TitlesIn(t, b) : s < u => q < u
                  /\ \A e \in s..TitleAt(t, b, s) : t[e] = "end" => e < q}]
WantedIn(t, b) ==
    IF TitlesIn(t, b) = {} THEN {[what |-> "other", lines |-> b.first..b.last]}
                           ELSE {ExceptionIn(t, b, s) : s \in TitlesIn(t, b)}

(* The records of the blocks, and of the exceptions of block b, before line *)
(* x.                                                                       *)
BlocksBefore(t, x)    == {b \in BlocksIn(t) : b.first < x}
WantedBefore(t, x)    == UNION {WantedIn(t, b) : b \in BlocksBefore(t, x)}
ExceptionsTo(t, b, x) == {ExceptionIn(t, b, s) : s \in {u \in TitlesIn(t, b) : u < x}}

(* What RecordsAsWritten supposes. *)
NoStars == Marks(text, DOMAIN text, {"stars"}) = {}

(* exclist_parse is after a mark of a beginning that is read, or at the end *)
(* of the text; the block in hand is the last before it.                    *)
BlockInv ==
    /\ next <= Len(text) => next - 1 \in ReadIn(text)
    /\ pc # "record" =>
          /\ block \in BlocksIn(text)
          /\ block.last < next
          /\ BlocksBefore(text, next) = BlocksBefore(text, block.first) \cup {block}

(* Where the next section to look at is, the end of the exception in hand   *)
(* when there is none.                                                      *)
Bound(p, r, b) == IF p # 0 THEN p ELSE IF r # 0 THEN r ELSE b.last + 1

(* The sections ps are those up to line x of the exception whose title is   *)
(* in section s: the first exception from section f on.                     *)
InHand(t, b, f, s, x, k, ps) ==
    /\ s \in TitlesIn(t, b)
    /\ f <= s /\ s < x
    /\ \A u \in TitlesIn(t, b) : u < f \/ u = s \/ x <= u
    /\ k = KindAt(t, b, s)
    /\ UNION {ps[j] : j \in DOMAIN ps} = PartIn(t, b, s, x)

(* str2phases goes on at p: it has found no title from f on, or is in the   *)
(* first exception from there, and *rest is the title after it.             *)
InSections(t, b, f, p, r, k, ps) ==
    /\ p # 0 => r = 0 /\ f <= p /\ p \in StartsIn(t, b)
    /\ ps = <<>> => p # 0 /\ \A s \in TitlesIn(t, b) : s < f \/ p <= s
    /\ ps # <<>> =>
          /\ \E s \in TitlesIn(t, b) : InHand(t, b, f, s, Bound(p, r, b), k, ps)
          /\ p = 0 /\ r # 0 => r \in TitlesIn(t, b)

(* Every call of str2phases has a title before it; the block is cut before  *)
(* the line to go on at, not after.                                         *)
CutTo(x) == \A c \in cut : c \in Nat /\ c <= x
SectionInv ==
    /\ pc \in {"exception", "section"} =>
          /\ str \in StartsIn(text, block)
          /\ \E s \in TitlesIn(text, block) : str <= s
    /\ pc = "exception" => CutTo(str)
    /\ pc = "section" =>
          /\ CutTo(Bound(pstr, rest, block))
          /\ InSections(text, block, str, pstr, rest, type, phases)
    /\ pc = "other" => TitlesIn(text, block) = {} /\ cut = {} /\ str = block.first

(* The records are those of the text before the exception in hand, in       *)
(* order.                                                                   *)
Recorded(rs) == {Given(rs[i]) : i \in DOMAIN rs}
InOrder(rs, x) ==
    /\ \A i \in DOMAIN rs : /\ Given(rs[i]).lines # {}
                            /\ \A q \in Given(rs[i]).lines : q \in Nat /\ q < x
    /\ \A i, j \in DOMAIN rs : i < j => Min(Given(rs[i]).lines) < Min(Given(rs[j]).lines)
DoneInv ==
    /\ pc = "record" => Recorded(records) = WantedBefore(text, next) /\ InOrder(records, next)
    /\ pc # "record" =>
          /\ Recorded(records) = WantedBefore(text, block.first) \cup ExceptionsTo(text, block, str)
          /\ InOrder(records, str)

DivisionInv == NoStars /\ Room => SectionInv /\ DoneInv

(* It is the division of RecordsAsWritten. *)
LEMMA SameKind ==
    ASSUME NEW S, NEW T
    PROVE  Lines(S, T) = Marks(text, S, T) /\ TypeOf(S) = KindIn(text, S)
BY DEF Lines, Marks, TypeOf, KindIn

LEMMA SameStarts ==
    ASSUME NEW b, NEW s
    PROVE  /\ Starts(b) = StartsIn(text, b)
           /\ SectionOf(b, s) = SectionIn(text, b, s)
           /\ Titles(b) = TitlesIn(text, b)
<1>1. Starts(b) = StartsIn(text, b)
  BY SameKind DEF Starts, StartsIn
<1>2. \A x : SectionOf(b, x) = SectionIn(text, b, x)
  BY <1>1 DEF SectionOf, SectionIn
<1>3. \A x : Lines(SectionOf(b, x), Markers) = Marks(text, SectionIn(text, b, x), Markers)
  BY <1>2 DEF Lines, Marks
<1>4. Titles(b) = TitlesIn(text, b)
  BY <1>1, <1>3 DEF Titles, TitlesIn
<1>5. QED
  BY <1>1, <1>2, <1>4

LEMMA SameException ==
    ASSUME NEW b, NEW s
    PROVE  Exception(b, s) = ExceptionIn(text, b, s)
<1> DEFINE S == SectionIn(text, b, s)
<1>1. SectionOf(b, s) = S /\ Titles(b) = TitlesIn(text, b) /\ TypeOf(S) = KindIn(text, S)
  BY SameStarts, SameKind
<1> HIDE DEF S
<1>2. Exception(b, s) =
        [what  |-> KindIn(text, S),
         lines |-> {q \in s..b.last :
                      /\ \A t \in TitlesIn(text, b) : s < t => q < t
                      /\ \A e \in s..Min({q1 \in S : text[q1] = KindIn(text, S)}) :
                            text[e] = "end" => e < q}]
  BY <1>1 DEF Exception
<1>3. QED
  BY <1>2 DEF ExceptionIn, KindAt, TitleAt, S

LEMMA SameBlocks == Blocks(Read) = BlocksIn(text)
<1>1. Beginnings = {0} \cup Marks(text, DOMAIN text, Begins)
  BY DEF Beginnings, Lines, Marks
<1>2. Read = ReadIn(text)
  BY <1>1 DEF Read, ReadIn, Loses, LosesIn
<1>3. QED
  BY <1>2 DEF Blocks, BlocksIn, BlockIn, KeptIn

LEMMA SameWanted ==
    Wanted(Read) = UNION {WantedIn(text, b) : b \in BlocksIn(text)}
<1>1. \A b : Titles(b) = TitlesIn(text, b)
  BY SameStarts
<1>2. \A b, s : Exception(b, s) = ExceptionIn(text, b, s)
  BY SameException
<1>3. \A b : WantedIn(text, b) =
                IF Titles(b) = {} THEN {[what |-> "other", lines |-> b.first..b.last]}
                                  ELSE {Exception(b, s) : s \in Titles(b)}
  BY <1>1, <1>2 DEF WantedIn
<1>4. QED
  BY <1>3, SameBlocks DEF Wanted

-----------------------------------------------------------------------------
(* A block is lines in a row, a section of it those from its start to the   *)
(* next.                                                                    *)
IsBlock(b) == b.first \in Nat \ {0} /\ b.last \in Nat /\ b.first <= b.last

LEMMA StartIs ==
    ASSUME NEW t, NEW b, IsBlock(b), NEW s \in StartsIn(t, b)
    PROVE  s \in Nat \ {0} /\ b.first <= s /\ s <= b.last /\ (s # b.first => t[s] \in Dashes)
BY DEF IsBlock, StartsIn, Marks

NextOf(D, l) == IF D = {} THEN l + 1 ELSE First(D)

LEMMA NextAfter ==
    ASSUME NEW s \in Nat, NEW l \in Nat, s <= l, NEW D, D \subseteq s..l, s \notin D
    PROVE  /\ NextOf(D, l) \in Nat /\ s < NextOf(D, l) /\ NextOf(D, l) <= l + 1
           /\ \A d \in D : NextOf(D, l) <= d
           /\ (D = {} /\ NextOf(D, l) = l + 1) \/ (NextOf(D, l) \in D /\ NextOf(D, l) <= l)
<1>1. CASE D = {}
  BY <1>1 DEF NextOf
<1>2. CASE D # {}
  <2> DEFINE n == NextOf(D, l)
  <2>0. D \subseteq Nat
    OBVIOUS
  <2>1. n = First(D)
    BY <1>2, Zenon DEF NextOf
  <2> HIDE DEF n
  <2>2. n \in D /\ \A d \in D : n <= d
    BY <1>2, <2>0, <2>1, FirstIs
  <2>3. n \in s..l
    BY <2>2
  <2>4. n \in Nat /\ s <= n /\ n <= l
    BY <2>3
  <2>5. n # s
    BY <2>2
  <2>6. s < n /\ n <= l + 1
    BY <2>4, <2>5
  <2>7. QED
    BY <2>2, <2>4, <2>6 DEF n
<1>3. QED
  BY <1>1, <1>2

(* The lines of dashes after start s, and where the section ends.           *)
DashesFrom(t, b, s) == Marks(t, s..b.last, Dashes) \ {s}
EndAt(t, b, s)      == NextOf(DashesFrom(t, b, s), b.last)

LEMMA NextStart ==
    ASSUME NEW t, NEW b, IsBlock(b), NEW s \in StartsIn(t, b)
    PROVE  /\ EndAt(t, b, s) \in Nat /\ s < EndAt(t, b, s) /\ EndAt(t, b, s) <= b.last + 1
           /\ SectionIn(t, b, s) = s..EndAt(t, b, s) - 1
           /\ \A u \in StartsIn(t, b) : u <= s \/ EndAt(t, b, s) <= u
           /\ DashesFrom(t, b, s) = {} => EndAt(t, b, s) = b.last + 1
           /\ DashesFrom(t, b, s) # {} => /\ EndAt(t, b, s) \in StartsIn(t, b)
                                          /\ t[EndAt(t, b, s)] \in Dashes
                                          /\ EndAt(t, b, s) <= b.last
                                          /\ EndAt(t, b, s) = First(DashesFrom(t, b, s))
<1> DEFINE D == DashesFrom(t, b, s)
           n == EndAt(t, b, s)
<1>1. PICK l \in Nat : l = b.last
  BY DEF IsBlock
<1>2. s \in Nat /\ s <= l
  BY <1>1, StartIs
<1>3. D \subseteq s..l /\ \A d \in D : t[d] \in Dashes /\ d # s
  BY <1>1 DEF Marks, DashesFrom
<1>4. \A u \in StartsIn(t, b) : u \in Nat /\ u <= l /\ (u <= s \/ u \in D)
  <2> SUFFICES ASSUME NEW u \in StartsIn(t, b) PROVE u \in Nat /\ u <= l /\ (u <= s \/ u \in D)
    OBVIOUS
  <2>1. u \in Nat /\ u <= l /\ b.first \in Nat /\ b.first <= s /\ (u # b.first => t[u] \in Dashes)
    BY <1>1, StartIs DEF IsBlock
  <2>2. CASE u <= s
    BY <2>1, <2>2
  <2>3. CASE s < u
    BY <1>1, <1>2, <2>1, <2>3 DEF Marks, DashesFrom
  <2>4. QED
    BY <1>2, <2>1, <2>2, <2>3
<1> HIDE DEF D, n
<1>5. \A d \in D : d \in StartsIn(t, b)
  <2> SUFFICES ASSUME NEW d \in D PROVE d \in StartsIn(t, b)
    OBVIOUS
  <2>1. d \in Nat /\ s <= d /\ d <= l /\ t[d] \in Dashes
    BY <1>2, <1>3
  <2>2. b.first \in Nat /\ b.first <= s
    BY StartIs DEF IsBlock
  <2>3. QED
    BY <1>1, <1>2, <2>1, <2>2 DEF StartsIn, Marks
<1>6. /\ n \in Nat /\ s < n /\ n <= l + 1
      /\ \A d \in D : n <= d
      /\ (D = {} /\ n = l + 1) \/ (n \in D /\ n <= l)
  <2>1. D \subseteq s..l /\ s \notin D /\ s <= l
    BY <1>2, <1>3
  <2>2. n = NextOf(D, l)
    BY <1>1 DEF D, n, EndAt
  <2>3. QED
    BY <1>2, <2>1, <2>2, NextAfter, Zenon
<1>7. \A u \in StartsIn(t, b) : u <= s \/ n <= u
  BY <1>4, <1>6
<1>8. ASSUME NEW q PROVE q \in SectionIn(t, b, s) <=> q \in s..n-1
  <2>1. ASSUME q \in SectionIn(t, b, s) PROVE q \in s..n-1
    <3>1. q \in Nat /\ s <= q /\ q <= l /\ (n \in D => q < n)
      BY <1>1, <1>2, <1>5, <1>6, <2>1 DEF SectionIn
    <3>2. QED
      BY <1>2, <1>6, <3>1
  <2>2. ASSUME q \in s..n-1 PROVE q \in SectionIn(t, b, s)
    <3>1. q \in Nat /\ q < n /\ q \in s..l
      BY <1>2, <1>6, <2>2
    <3>2. ASSUME NEW u \in StartsIn(t, b), s < u PROVE q < u
      <4>0. u \in Nat /\ ~ (u <= s)
        BY <1>2, <1>4, <3>2
      <4>1. u \in Nat /\ n <= u
        BY <1>7, <4>0
      <4>2. QED
        BY <1>6, <3>1, <4>1
    <3>3. QED
      BY <1>1, <3>1, <3>2 DEF SectionIn
  <2>3. QED
    BY <2>1, <2>2
<1>9. SectionIn(t, b, s) = s..n-1
  BY <1>8
<1>10. D # {} => n \in D
  BY <1>6
<1>11. D # {} => n \in StartsIn(t, b) /\ t[n] \in Dashes /\ n <= b.last
  BY <1>1, <1>3, <1>5, <1>6, <1>10
<1>12. D # {} => n = First(D)
  BY DEF D, n, EndAt, NextOf
<1>13. D = {} => n = b.last + 1
  BY <1>1, <1>6
<1>14. QED
  BY <1>1, <1>6, <1>7, <1>9, <1>11, <1>12, <1>13 DEF D, n

(* A section with a title has a kind and its first title is a line of it;   *)
(* any other is "unknown".                                                  *)
LEMMA KindIs ==
    ASSUME NEW t, NEW S
    PROVE  /\ Marks(t, S, Markers) = {} => KindIn(t, S) = "unknown"
           /\ Marks(t, S, Markers) # {} => /\ KindIn(t, S) \in Markers
                                           /\ \E q \in S : t[q] = KindIn(t, S)
           /\ "unknown" \notin Markers
BY DEF KindIn, Marks, Markers

LEMMA TitleIs ==
    ASSUME NEW t, NEW b, IsBlock(b), NEW s \in TitlesIn(t, b)
    PROVE  /\ KindAt(t, b, s) \in Markers
           /\ TitleAt(t, b, s) \in SectionIn(t, b, s) /\ t[TitleAt(t, b, s)] = KindAt(t, b, s)
           /\ TitleAt(t, b, s) \in Nat /\ s <= TitleAt(t, b, s) /\ TitleAt(t, b, s) <= b.last
<1>1. s \in StartsIn(t, b) /\ Marks(t, SectionIn(t, b, s), Markers) # {}
  BY DEF TitlesIn
<1>2. s \in Nat /\ b.last \in Nat
  BY <1>1, StartIs DEF IsBlock
<1>3. SectionIn(t, b, s) \subseteq s..b.last
  BY DEF SectionIn
<1> DEFINE Q == {q \in SectionIn(t, b, s) : t[q] = KindAt(t, b, s)}
<1>4. KindAt(t, b, s) \in Markers /\ Q # {}
  BY <1>1, KindIs DEF KindAt
<1>5. Q \subseteq Nat
  BY <1>2, <1>3
<1>6. Min(Q) \in Q
  BY <1>4, <1>5, FirstIs
<1>7. TitleAt(t, b, s) = Min(Q)
  BY DEF TitleAt
<1> DEFINE m == Min(Q)
<1> HIDE DEF m
<1>8. m \in SectionIn(t, b, s) /\ t[m] = KindAt(t, b, s)
  BY <1>6 DEF m
<1>9. m \in Nat /\ s <= m /\ m <= b.last
  BY <1>2, <1>3, <1>8
<1>10. QED
  BY <1>4, <1>7, <1>8, <1>9 DEF m

LEMMA TitleOrNot ==
    ASSUME NEW t, NEW b, NEW s \in StartsIn(t, b)
    PROVE  KindAt(t, b, s) # "unknown" <=> s \in TitlesIn(t, b)
BY KindIs DEF KindAt, TitlesIn

(* get_exctype keeps what belongs to the exception of the title.            *)
LEMMA KeptLines ==
    ASSUME NEW b, IsBlock(b), NEW s \in TitlesIn(text, b),
           NEW n \in Nat, SectionIn(text, b, s) = s..n-1
    PROVE  /\ HeadPhase(SectionIn(text, b, s)) = <<PartIn(text, b, s, n)>>
           /\ TypeOf(SectionIn(text, b, s)) = KindAt(text, b, s)
<1> DEFINE S == SectionIn(text, b, s)
           k == KindAt(text, b, s)
           m == TitleAt(text, b, s)
<1>1. k \in Markers /\ m \in S /\ m \in Nat /\ s <= m /\ text[m] = k
  BY TitleIs
<1>2. TypeOf(S) = k
  BY SameKind DEF KindAt
<1>3. s \in Nat
  BY StartIs DEF TitlesIn
<1>4. First(Lines(S, {k})) = m
  <2>1. Lines(S, {k}) = {q \in S : text[q] = k}
    BY DEF Lines
  <2>2. QED
    BY <2>1 DEF First, TitleAt
<1> HIDE DEF k, m
<1>5. get_exctype(S) = {q \in S : \A e \in {d \in Lines(S, {"end"}) : d < m} : e < q}
  BY <1>2, <1>4 DEF get_exctype
<1>6. ASSUME NEW e PROVE e \in {d \in Lines(S, {"end"}) : d < m} <=> e \in s..m /\ text[e] = "end"
  <2>1. "end" # k
    BY <1>1 DEF Markers
  <2>2. e \in Lines(S, {"end"}) <=> e \in s..n-1 /\ text[e] = "end"
    BY DEF Lines
  <2>3. m \in s..n-1 /\ (e # m \/ text[e] # "end")
    BY <1>1, <2>1
  <2>4. QED
    BY <1>1, <1>3, <2>2, <2>3
<1>7. get_exctype(S) = {q \in S : \A e \in s..m : text[e] = "end" => e < q}
  BY <1>5, <1>6
<1>8. S = s..n-1
  OBVIOUS
<1>9. get_exctype(S) = PartIn(text, b, s, n)
  BY <1>7, <1>8 DEF PartIn, m
<1>10. k # "unknown"
  BY <1>1 DEF Markers
<1>11. QED
  BY <1>2, <1>9, <1>10 DEF HeadPhase, k

-----------------------------------------------------------------------------
(* The strings of the parsers, when nothing is cut after their first line.  *)
LEMMA StrWhole ==
    ASSUME NEW p \in Nat, CutTo(p)
    PROVE  Str(p) = p..block.last
BY DEF Str, CutTo

LEMMA SectionWhole ==
    ASSUME IsBlock(block), pstr \in StartsIn(text, block), CutTo(pstr)
    PROVE  /\ NextDash = DashesFrom(text, block, pstr)
           /\ Section = SectionIn(text, block, pstr)
<1>1. pstr \in Nat /\ block.first \in Nat /\ block.first <= pstr /\ pstr <= block.last /\ block.last \in Nat
  BY StartIs DEF IsBlock
<1>2. Str(pstr) = pstr..block.last
  BY <1>1, StrWhole
<1>3. NextDash = Marks(text, pstr..block.last, Dashes) \ {pstr}
  BY <1>2 DEF NextDash, Lines, Marks
<1>4. ASSUME NEW u PROVE u \in NextDash <=> u \in StartsIn(text, block) /\ pstr < u
  BY <1>1, <1>3 DEF StartsIn, Marks
<1>5. Section = SectionIn(text, block, pstr)
  BY <1>2, <1>4 DEF Section, SectionIn
<1>6. QED
  BY <1>3, <1>5 DEF DashesFrom

(* The first title str2phases looks for is in the section at x, or further  *)
(* on.                                                                      *)
Onward(D) == IF D = {} THEN 0 ELSE First(D)

LEMMA Seek ==
    ASSUME IsBlock(block), NEW f, f \in StartsIn(text, block),
           NEW x \in StartsIn(text, block), f <= x,
           \A u \in TitlesIn(text, block) : u < f \/ x <= u,
           \E u \in TitlesIn(text, block) : f <= u
    PROVE  InSections(text, block, f, Onward(DashesFrom(text, block, x)), 0,
                      TypeOf(SectionIn(text, block, x)), HeadPhase(SectionIn(text, block, x)))
<1> DEFINE D == DashesFrom(text, block, x)
           n == EndAt(text, block, x)
           p == Onward(D)
           S == SectionIn(text, block, x)
<1> SUFFICES InSections(text, block, f, p, 0, TypeOf(S), HeadPhase(S))
  OBVIOUS
<1> HIDE DEF D, n, p, S
<1>1. /\ n \in Nat /\ x < n /\ n <= block.last + 1
      /\ S = x..n-1
      /\ \A u \in StartsIn(text, block) : u <= x \/ n <= u
      /\ D = {} => n = block.last + 1
      /\ D # {} => n \in StartsIn(text, block) /\ n <= block.last /\ n = First(D)
  BY NextStart DEF D, n, S
<1>2. f \in Nat /\ x \in Nat /\ block.last \in Nat
  BY StartIs DEF IsBlock
<1>3. \A u \in TitlesIn(text, block) : u \in StartsIn(text, block) /\ u \in Nat /\ u <= block.last
  BY StartIs DEF TitlesIn
<1>4. (D = {} => p = 0 /\ n = block.last + 1) /\ (D # {} => p = n)
  BY <1>1 DEF Onward, p
<1>5. (p # 0 => p = n /\ D # {}) /\ Bound(p, 0, block) = n
  BY <1>1, <1>2, <1>4 DEF Bound
<1>6. p # 0 => f <= p /\ p \in StartsIn(text, block)
  BY <1>1, <1>2, <1>5
<1>7. CASE x \in TitlesIn(text, block)
  <2>1. HeadPhase(S) = <<PartIn(text, block, x, n)>> /\ TypeOf(S) = KindAt(text, block, x)
    BY <1>1, <1>7, KeptLines DEF S
  <2> DEFINE P == PartIn(text, block, x, n)
  <2>2. <<P>> # <<>> /\ UNION {<<P>>[j] : j \in DOMAIN <<P>>} = P
    OBVIOUS
  <2> HIDE DEF P
  <2>3. \A u \in TitlesIn(text, block) : u < f \/ u = x \/ n <= u
    BY <1>1, <1>2, <1>3
  <2>4. InHand(text, block, f, x, n, TypeOf(S), <<P>>)
    BY <1>1, <1>7, <2>1, <2>2, <2>3 DEF InHand, P
  <2>5. HeadPhase(S) = <<P>>
    BY <2>1 DEF P
  <2>6. QED
    BY <1>5, <1>6, <1>7, <2>2, <2>4, <2>5 DEF InSections
<1>8. CASE x \notin TitlesIn(text, block)
  <2>1. HeadPhase(S) = <<>>
    <3>1. TypeOf(S) = KindAt(text, block, x)
      BY SameKind DEF KindAt, S
    <3>2. QED
      BY <1>8, <3>1, TitleOrNot DEF HeadPhase
  <2>2. \A u \in TitlesIn(text, block) : u < f \/ n <= u
    BY <1>1, <1>2, <1>3, <1>8
  <2>3. n <= block.last
    BY <1>1, <1>2, <1>3, <2>2
  <2>4. p = n /\ p # 0
    <3>1. D # {}
      BY <1>1, <1>2, <1>4, <2>3
    <3>2. QED
      BY <1>1, <1>2, <1>4, <3>1
  <2>5. QED
    BY <1>6, <2>1, <2>2, <2>4 DEF InSections
<1>9. QED
  BY <1>7, <1>8

-----------------------------------------------------------------------------
(* The blocks: the lines kept after c, and the first and the last of them.  *)
LEMMA KeptIs ==
    ASSUME NEW t, NEW m \in Nat, DOMAIN t = 1..m, NEW c \in Nat
    PROVE  /\ \A q \in KeptIn(t, c) : q \in 1..m /\ c < q
           /\ KeptIn(t, c) # {} =>
                 /\ IsBlock(BlockIn(t, c))
                 /\ BlockIn(t, c).first \in KeptIn(t, c) /\ BlockIn(t, c).last \in KeptIn(t, c)
                 /\ \A q \in KeptIn(t, c) : BlockIn(t, c).first <= q /\ q <= BlockIn(t, c).last
<1> DEFINE K == KeptIn(t, c)
<1>1. K \subseteq 1..m /\ K \subseteq Nat /\ \A q \in K : c < q
  BY DEF KeptIn
<1>2. BlockIn(t, c).first = Min(K) /\ BlockIn(t, c).last = Max(K)
  BY DEF BlockIn
<1> HIDE DEF K
<1>3. ASSUME K # {}
      PROVE  /\ Min(K) \in K /\ Max(K) \in K
             /\ \A q \in K : Min(K) <= q /\ q <= Max(K)
  BY <1>1, <1>3, FirstIs, LastIs
<1> DEFINE f == Min(K)
           l == Max(K)
<1>4. ASSUME K # {} PROVE f \in K /\ l \in K /\ \A q \in K : f <= q /\ q <= l
  BY <1>3, <1>4
<1> HIDE DEF f, l
<1>5. ASSUME K # {} PROVE f \in Nat \ {0} /\ l \in Nat \ {0} /\ f <= l
  <2>1. f \in 1..m /\ l \in 1..m
    BY <1>1, <1>4, <1>5, Zenon
  <2>2. f <= l
    BY <1>4, <1>5
  <2>3. QED
    BY <2>1, <2>2
<1>6. K # {} => IsBlock(BlockIn(t, c))
  BY <1>2, <1>5 DEF IsBlock, f, l
<1>7. QED
  BY <1>1, <1>2, <1>4, <1>6 DEF f, l, K

LEMMA BlockIs ==
    ASSUME NEW t, NEW m \in Nat, DOMAIN t = 1..m, NEW b \in BlocksIn(t)
    PROVE  IsBlock(b) /\ b.last <= m
<1>1. PICK c \in ReadIn(t) : KeptIn(t, c) # {} /\ b = BlockIn(t, c)
  BY DEF BlocksIn
<1>2. c \in Nat
  BY DEF ReadIn, Marks
<1>3. IsBlock(b) /\ b.last \in KeptIn(t, c)
  BY <1>1, <1>2, KeptIs
<1>4. b.last \in 1..m
  BY <1>2, <1>3, KeptIs
<1>5. QED
  BY <1>3, <1>4

(* Between two marks of a beginning, at x-1 and at y, there is one block at *)
(* most.                                                                    *)
LEMMA OneBlock ==
    ASSUME NEW t, NEW m \in Nat, DOMAIN t = 1..m,
           NEW x \in 1..m, x - 1 \in ReadIn(t),
           NEW y \in x..m+1, y = m + 1 \/ t[y] \in Begins,
           \A q \in x..y-1 : t[q] \notin Begins
    PROVE  /\ KeptIn(t, x - 1) = {q \in x..y-1 : t[q] # "blank" /\ \A p \in x..q : t[p] # "endrec"}
           /\ BlocksBefore(t, y + 1) =
                 BlocksBefore(t, x) \cup (IF KeptIn(t, x - 1) = {} THEN {} ELSE {BlockIn(t, x - 1)})
<1>1. x \in Nat \ {0} /\ y \in Nat /\ x <= m /\ x <= y /\ y <= m + 1 /\ x - 1 \in Nat
  OBVIOUS
<1>2. KeptIn(t, x - 1) = {q \in x..y-1 : t[q] # "blank" /\ \A p \in x..q : t[p] # "endrec"}
  <2>1. ASSUME NEW q \in KeptIn(t, x - 1)
        PROVE  q \in x..y-1 /\ t[q] # "blank" /\ \A p \in x..q : t[p] # "endrec"
    <3>1. q \in 1..m /\ x - 1 < q /\ t[q] # "blank" /\ \A p \in (x - 1)+1..q : t[p] \notin Begins \cup {"endrec"}
      BY DEF KeptIn
    <3>2. (x - 1) + 1 = x
      BY <1>1
    <3>3. ~ (y <= q)
      BY <1>1, <3>1, <3>2
    <3>4. q \in x..y-1
      BY <1>1, <3>1, <3>3
    <3>5. QED
      BY <3>1, <3>2, <3>4
  <2>2. ASSUME NEW q \in x..y-1, t[q] # "blank", \A p \in x..q : t[p] # "endrec"
        PROVE  q \in KeptIn(t, x - 1)
    <3>1. q \in 1..m /\ x - 1 < q /\ (x - 1) + 1 = x
      BY <1>1
    <3>2. ASSUME NEW p \in x..q PROVE t[p] \notin Begins \cup {"endrec"}
      <4>1. p \in x..y-1
        BY <1>1
      <4>2. QED
        BY <2>2, <4>1
    <3>3. QED
      BY <2>2, <3>1, <3>2 DEF KeptIn
  <2>3. QED
    BY <2>1, <2>2
<1>3. ASSUME NEW b \in BlocksIn(t)
      PROVE  \/ b.first < x \/ y + 1 <= b.first
             \/ KeptIn(t, x - 1) # {} /\ b = BlockIn(t, x - 1)
  <2>1. PICK c \in ReadIn(t) : KeptIn(t, c) # {} /\ b = BlockIn(t, c)
    BY DEF BlocksIn
  <2>2. c \in Nat /\ c <= m /\ (c = 0 \/ t[c] \in Begins)
    BY DEF ReadIn, Marks
  <2>3. b.first \in KeptIn(t, c)
    BY <2>1, <2>2, KeptIs
  <2>4. b.first \in 1..m /\ c < b.first /\ \A p \in c+1..b.first : t[p] \notin Begins
    BY <2>2, <2>3 DEF KeptIn
  <2>5. CASE c = x - 1
    BY <2>1, <2>5
  <2>6. CASE c < x - 1
    <3>1. x - 1 \in c+1..m /\ t[x - 1] \in Begins
      BY <1>1, <2>2, <2>6 DEF ReadIn, Marks
    <3>2. ~ (x - 1 <= b.first)
      BY <2>2, <2>4, <3>1
    <3>3. QED
      BY <1>1, <2>4, <3>2
  <2>7. CASE x - 1 < c
    <3>1. ~ (c \in x..y-1)
      BY <1>1, <2>2, <2>7
    <3>2. y <= c
      BY <1>1, <2>2, <2>7, <3>1
    <3>3. QED
      BY <1>1, <2>2, <2>4, <3>2
  <2>8. QED
    BY <1>1, <2>2, <2>5, <2>6, <2>7
<1>4. ASSUME KeptIn(t, x - 1) # {}
      PROVE  BlockIn(t, x - 1) \in BlocksIn(t) /\ BlockIn(t, x - 1).first < y + 1
  <2>1. x - 1 \in ReadIn(t)
    OBVIOUS
  <2>2. BlockIn(t, x - 1).first \in KeptIn(t, x - 1)
    BY <1>1, <1>4, KeptIs
  <2>3. BlockIn(t, x - 1).first \in x..y-1
    BY <1>2, <2>2
  <2>4. QED
    BY <1>1, <1>4, <2>1, <2>3 DEF BlocksIn
<1>5. \A b \in BlocksIn(t) : b.first \in Nat
  BY BlockIs DEF IsBlock
<1>6. QED
  <2>1. ASSUME NEW b \in BlocksIn(t), b.first < y + 1
        PROVE  b.first < x \/ (KeptIn(t, x - 1) # {} /\ b = BlockIn(t, x - 1))
    BY <1>1, <1>3, <1>5, <2>1
  <2>2. ASSUME NEW b \in BlocksIn(t), b.first < x PROVE b.first < y + 1
    BY <1>1, <1>5, <2>2
  <2>3. QED
    BY <1>2, <1>4, <2>1, <2>2 DEF BlocksBefore

(* Behind a mark that loses what follows there is no block.                 *)
LEMMA NoneBehind ==
    ASSUME NEW t, NEW m \in Nat, DOMAIN t = 1..m, NEW x \in 1..m, LosesIn(t, x)
    PROVE  BlocksBefore(t, m + 1) = BlocksBefore(t, x)
<1>1. ASSUME NEW b \in BlocksIn(t) PROVE b.first \in Nat /\ b.first < x
  <2>1. PICK c \in ReadIn(t) : KeptIn(t, c) # {} /\ b = BlockIn(t, c)
    BY DEF BlocksIn
  <2>2. c \in Nat /\ \A q \in 1..c : ~ LosesIn(t, q)
    BY DEF ReadIn, Marks
  <2>3. ~ (x <= c)
    BY <2>2
  <2>4. b.first \in KeptIn(t, c)
    BY <2>1, <2>2, KeptIs
  <2>5. b.first \in 1..m /\ \A p \in c+1..b.first : t[p] \notin Begins
    BY <2>4 DEF KeptIn
  <2>6. t[x] \in Begins
    BY DEF LosesIn, Begins
  <2>7. ~ (x <= b.first)
    BY <2>2, <2>3, <2>5, <2>6
  <2>8. QED
    BY <2>5, <2>7
<1>2. \A b \in BlocksIn(t) : b.first < m + 1 /\ b.first < x
  BY <1>1
<1>3. QED
  BY <1>2 DEF BlocksBefore

(* A block has a title in it when one of its lines has a marker.            *)
LEMMA TitlesOfBlock ==
    ASSUME NEW t, NEW m \in Nat, DOMAIN t = 1..m, NEW c \in Nat, KeptIn(t, c) # {},
           NEW b, b = BlockIn(t, c)
    PROVE  TitlesIn(t, b) # {} <=> Marks(t, KeptIn(t, c), Markers) # {}
<1>1. /\ IsBlock(b) /\ b.first \in KeptIn(t, c) /\ b.last \in KeptIn(t, c)
      /\ \A q \in KeptIn(t, c) : q \in 1..m /\ c < q /\ b.first <= q /\ q <= b.last
  BY KeptIs
<1>2. ASSUME NEW q \in KeptIn(t, c), t[q] \in Markers PROVE TitlesIn(t, b) # {}
  <2> DEFINE U == {u \in StartsIn(t, b) : u <= q}
  <2>1. q \in Nat /\ b.first <= q /\ q <= b.last /\ b.first \in Nat \ {0} /\ b.last \in Nat
    BY <1>1 DEF IsBlock
  <2>2. U \subseteq 1..q
    <3> SUFFICES ASSUME NEW u \in U PROVE u \in 1..q
      OBVIOUS
    <3>1. u \in Nat \ {0} /\ u <= q
      BY <1>1, StartIs
    <3>2. QED
      BY <2>1, <3>1
  <2>3. b.first \in U
    BY <2>1 DEF StartsIn
  <2>4. Max(U) \in U /\ \A u \in U : u <= Max(U)
    BY <2>1, <2>2, <2>3, LastIs
  <2>5. PICK s \in StartsIn(t, b) : s <= q /\ \A u \in StartsIn(t, b) : u <= q => u <= s
    BY <2>4
  <2>6. q \in SectionIn(t, b, s)
    <3>1. s \in Nat /\ q \in s..b.last
      BY <1>1, <2>1, <2>5, StartIs
    <3>2. ASSUME NEW u \in StartsIn(t, b), s < u PROVE q < u
      <4>1. u \in Nat /\ ~ (u <= s)
        BY <1>1, <3>1, <3>2, StartIs
      <4>2. ~ (u <= q)
        BY <2>5, <4>1
      <4>3. QED
        BY <2>1, <4>1, <4>2
    <3>3. QED
      BY <3>1, <3>2 DEF SectionIn
  <2>7. s \in TitlesIn(t, b)
    BY <1>2, <2>6 DEF TitlesIn, Marks
  <2>8. QED
    BY <2>7
<1>3. ASSUME NEW s \in TitlesIn(t, b) PROVE Marks(t, KeptIn(t, c), Markers) # {}
  <2>1. s \in StartsIn(t, b) /\ \E q \in SectionIn(t, b, s) : t[q] \in Markers
    BY DEF TitlesIn, Marks
  <2>2. PICK q \in SectionIn(t, b, s) : t[q] \in Markers
    BY <2>1
  <2>3. s \in Nat /\ b.first <= s /\ b.first \in Nat /\ b.last \in Nat
    BY <1>1, <2>1, StartIs DEF IsBlock
  <2>4. q \in Nat /\ s <= q /\ q <= b.last
    BY <2>3 DEF SectionIn
  <2>5. /\ c < b.first /\ b.last <= m
        /\ \A p \in c+1..b.last : t[p] \notin Begins \cup {"endrec"}
    BY <1>1 DEF KeptIn
  <2>6. q \in 1..m /\ c < q /\ \A p \in c+1..q : p \in c+1..b.last
    BY <2>3, <2>4, <2>5
  <2>7. t[q] # "blank"
    BY <2>2 DEF Markers
  <2>8. q \in KeptIn(t, c)
    BY <2>5, <2>6, <2>7 DEF KeptIn
  <2>9. QED
    BY <2>2, <2>8 DEF Marks
<1>4. QED
  BY <1>2, <1>3 DEF Marks

-----------------------------------------------------------------------------
(* The lines of a sequence of sections.                                     *)
LinesOf(ps) == UNION {ps[j] : j \in DOMAIN ps}

LEMMA LinesOfOne ==
    ASSUME NEW S
    PROVE  LinesOf(<<S>>) = S
<1>1. DOMAIN <<S>> = {1} /\ <<S>>[1] = S
  OBVIOUS
<1>2. QED
  BY <1>1 DEF LinesOf

LEMMA LinesOfTwo ==
    ASSUME NEW S, NEW T
    PROVE  LinesOf(<<S, T>>) = S \cup T
<1>1. DOMAIN <<S, T>> = {1, 2} /\ <<S, T>>[1] = S /\ <<S, T>>[2] = T
  OBVIOUS
<1>2. QED
  BY <1>1 DEF LinesOf

LEMMA LinesOfMore ==
    ASSUME NEW p \in Seq(SUBSET Nat), NEW r \in Seq(SUBSET Nat)
    PROVE  p \o r \in Seq(SUBSET Nat) /\ LinesOf(p \o r) = LinesOf(p) \cup LinesOf(r)
<1>1. PICK n \in Nat : n = Len(p)
  OBVIOUS
<1>2. PICK k \in Nat : k = Len(r)
  OBVIOUS
<1>3. /\ p \o r \in Seq(SUBSET Nat) /\ Len(p \o r) = n + k
      /\ \A j \in 1..n : (p \o r)[j] = p[j]
      /\ \A j \in 1..k : (p \o r)[n + j] = r[j]
  BY <1>1, <1>2
<1>4. DOMAIN p = 1..n /\ DOMAIN r = 1..k /\ DOMAIN (p \o r) = 1..(n + k)
  BY <1>1, <1>2, <1>3
<1> DEFINE w == p \o r
<1> HIDE DEF w
<1>5. DOMAIN w = 1..(n + k) /\ (\A j \in 1..n : w[j] = p[j]) /\ \A j \in 1..k : w[n + j] = r[j]
  BY <1>3, <1>4 DEF w
<1>6. \A j \in 1..(n + k) : j \in 1..n \/ \E i \in 1..k : j = n + i
  <2> SUFFICES ASSUME NEW j \in 1..(n + k), j \notin 1..n PROVE \E i \in 1..k : j = n + i
    OBVIOUS
  <2>1. j - n \in 1..k /\ j = n + (j - n)
    OBVIOUS
  <2>2. QED
    BY <2>1
<1>7. ASSUME NEW q PROVE q \in LinesOf(w) <=> q \in LinesOf(p) \/ q \in LinesOf(r)
  <2>1. (\E j \in 1..(n + k) : q \in w[j]) <=> (\E j \in 1..n : q \in p[j]) \/ (\E i \in 1..k : q \in r[i])
    <3>1. ASSUME NEW j \in 1..(n + k), q \in w[j]
          PROVE  (\E i \in 1..n : q \in p[i]) \/ (\E i \in 1..k : q \in r[i])
      BY <1>5, <1>6, <3>1
    <3>2. ASSUME NEW j \in 1..n, q \in p[j] PROVE \E i \in 1..(n + k) : q \in w[i]
      <4>1. j \in 1..(n + k)
        OBVIOUS
      <4>2. QED
        BY <1>5, <3>2, <4>1
    <3>3. ASSUME NEW j \in 1..k, q \in r[j] PROVE \E i \in 1..(n + k) : q \in w[i]
      <4>1. n + j \in 1..(n + k)
        OBVIOUS
      <4>2. QED
        BY <1>5, <3>3, <4>1
    <3>4. QED
      BY <3>1, <3>2, <3>3
  <2>2. QED
    BY <1>4, <1>5, <2>1 DEF LinesOf
<1>8. QED
  BY <1>3, <1>7 DEF w

LEMMA SplitWhole ==
    ASSUME NEW S, S \subseteq Nat
    PROVE  Split(S) \in Seq(SUBSET Nat) /\ LinesOf(Split(S)) = S
<1>1. \/ Split(S) = <<S>>
      \/ \E f : Split(S) = <<{q \in S : q < f}, {q \in S : q >= f}>>
            /\ f \in S
  <2> DEFINE T == {t \in Lines(S, {"track"}) : \E r \in Lines(S, {"regend"}) : r < t}
  <2>1. Split(S) = IF type \in {"deadlock", "deadloop"} /\ T # {}
                   THEN <<{q \in S : q < First(T)}, {q \in S : q >= First(T)}>> ELSE <<S>>
    BY DEF Split, SplitTrack
  <2>2. T \subseteq S
    BY DEF Lines
  <2>3. T # {} => First(T) \in S
    BY <2>2, FirstIs
  <2> HIDE DEF T
  <2>4. QED
    BY <2>1, <2>3
<1>2. CASE Split(S) = <<S>>
  <2>1. S \in SUBSET Nat
    OBVIOUS
  <2>2. <<S>> \in Seq(SUBSET Nat)
    BY <2>1, Single
  <2>3. QED
    BY <1>2, <2>2, LinesOfOne
<1>3. CASE Split(S) # <<S>>
  <2>1. PICK f \in S : Split(S) = <<{q \in S : q < f}, {q \in S : q >= f}>>
    BY <1>1, <1>3
  <2> DEFINE one == {q \in S : q < f}
             two == {q \in S : q >= f}
  <2>2. one \in SUBSET Nat /\ two \in SUBSET Nat
    OBVIOUS
  <2>3. one \cup two = S
    <3>1. \A q \in S : q \in Nat /\ f \in Nat
      OBVIOUS
    <3>2. \A q \in S : q < f \/ q >= f
      BY <3>1
    <3>3. QED
      BY <3>2
  <2> HIDE DEF one, two
  <2>4. <<one, two>> \in Seq(SUBSET Nat)
    BY <2>2
  <2>5. LinesOf(<<one, two>>) = S
    BY <2>3, LinesOfTwo
  <2>6. QED
    BY <2>1, <2>4, <2>5 DEF one, two
<1>4. QED
  BY <1>2, <1>3

-----------------------------------------------------------------------------
(* The exception in hand grows by a section without a title.                *)
LEMMA MoreLines ==
    ASSUME NEW t, NEW b, IsBlock(b), NEW f \in Nat, NEW s, NEW x \in StartsIn(t, b), NEW k, NEW ps, NEW w,
           InHand(t, b, f, s, x, k, ps), x \notin TitlesIn(t, b),
           LinesOf(w) = LinesOf(ps) \cup SectionIn(t, b, x)
    PROVE  InHand(t, b, f, s, EndAt(t, b, x), k, w)
<1> DEFINE n == EndAt(t, b, x)
           m == TitleAt(t, b, s)
<1>1. /\ n \in Nat /\ x < n
      /\ SectionIn(t, b, x) = x..n-1
      /\ \A u \in StartsIn(t, b) : u <= x \/ n <= u
  BY NextStart
<1>2. /\ s \in TitlesIn(t, b) /\ f <= s /\ s < x
      /\ \A u \in TitlesIn(t, b) : u < f \/ u = s \/ x <= u
      /\ k = KindAt(t, b, s)
      /\ LinesOf(ps) = PartIn(t, b, s, x)
  BY DEF InHand, LinesOf
<1>3. \A u \in TitlesIn(t, b) : u \in StartsIn(t, b) /\ u \in Nat
  BY StartIs DEF TitlesIn
<1>4. x \in Nat /\ s \in Nat
  BY <1>2, <1>3, StartIs
<1>5. m \in SectionIn(t, b, s) /\ m \in Nat
  BY <1>2, TitleIs
<1>6. m < x
  BY <1>2, <1>5 DEF SectionIn
<1> HIDE DEF n, m
<1>7. PartIn(t, b, s, n) = PartIn(t, b, s, x) \cup (x..n-1)
  <2>1. PartIn(t, b, s, x) = {q \in s..x-1 : \A e \in s..m : t[e] = "end" => e < q}
    BY DEF PartIn, m
  <2>2. PartIn(t, b, s, n) = {q \in s..n-1 : \A e \in s..m : t[e] = "end" => e < q}
    BY DEF PartIn, m
  <2>3. ASSUME NEW q \in x..n-1, NEW e \in s..m PROVE e < q
    BY <1>1, <1>4, <1>5, <1>6
  <2>4. ASSUME NEW q PROVE q \in s..n-1 <=> q \in s..x-1 \/ q \in x..n-1
    BY <1>1, <1>2, <1>4
  <2>5. QED
    BY <2>1, <2>2, <2>3, <2>4
<1>8. \A u \in TitlesIn(t, b) : u < f \/ u = s \/ n <= u
  <2> SUFFICES ASSUME NEW u \in TitlesIn(t, b), ~ (u < f), u # s PROVE n <= u
    OBVIOUS
  <2>1. u \in Nat /\ x <= u /\ u # x /\ (u <= x \/ n <= u)
    BY <1>1, <1>2, <1>3
  <2>2. QED
    BY <1>4, <2>1
<1>9. s < n
  BY <1>1, <1>2, <1>4
<1>10. LinesOf(w) = PartIn(t, b, s, n)
  BY <1>1, <1>2, <1>7 DEF n
<1>11. QED
  BY <1>2, <1>8, <1>9, <1>10 DEF InHand, LinesOf, n

(* It is the whole exception when the next title, or the end of the block,  *)
(* is there.                                                                *)
LEMMA WholeException ==
    ASSUME NEW t, NEW b, IsBlock(b), NEW f \in Nat, NEW s, NEW x \in Nat, NEW k, NEW ps,
           InHand(t, b, f, s, x, k, ps),
           x \in TitlesIn(t, b) \/ x = b.last + 1
    PROVE  /\ ExceptionIn(t, b, s) = [what |-> k, lines |-> LinesOf(ps)]
           /\ LinesOf(ps) # {} /\ \A q \in LinesOf(ps) : q \in Nat /\ f <= q /\ q < x
           /\ ExceptionsTo(t, b, x) = ExceptionsTo(t, b, f) \cup {ExceptionIn(t, b, s)}
<1> DEFINE m == TitleAt(t, b, s)
<1>1. /\ s \in TitlesIn(t, b) /\ f <= s /\ s < x
      /\ \A u \in TitlesIn(t, b) : u < f \/ u = s \/ x <= u
      /\ k = KindAt(t, b, s)
      /\ LinesOf(ps) = PartIn(t, b, s, x)
  BY DEF InHand, LinesOf
<1>2. \A u \in TitlesIn(t, b) : u \in StartsIn(t, b) /\ u \in Nat /\ u <= b.last
  BY StartIs DEF TitlesIn
<1>3. s \in Nat /\ b.last \in Nat /\ x <= b.last + 1
  BY <1>1, <1>2 DEF IsBlock
<1>4. m \in SectionIn(t, b, s) /\ m \in Nat /\ s <= m /\ m <= b.last /\ t[m] = k /\ k \in Markers
  BY <1>1, TitleIs
<1>5. m < x
  BY <1>1, <1>2, <1>3, <1>4 DEF SectionIn
<1> HIDE DEF m
<1>6. PartIn(t, b, s, x) = {q \in s..x-1 : \A e \in s..m : t[e] = "end" => e < q}
  BY DEF PartIn, m
<1>7. ASSUME NEW q \in s..b.last
      PROVE  (\A u \in TitlesIn(t, b) : s < u => q < u) <=> q \in s..x-1
  <2>1. q \in Nat /\ s <= q /\ q <= b.last
    BY <1>3
  <2>2. ASSUME q < x, NEW u \in TitlesIn(t, b), s < u PROVE q < u
    <3>1. u \in Nat /\ x <= u
      BY <1>1, <1>2, <1>3, <2>2
    <3>2. QED
      BY <2>1, <2>2, <3>1
  <2>3. ASSUME \A u \in TitlesIn(t, b) : s < u => q < u PROVE q < x
    BY <1>1, <1>3, <2>1, <2>3
  <2>4. QED
    BY <1>3, <2>1, <2>2, <2>3
<1>8. PartIn(t, b, s, x) = {q \in s..b.last :
                              /\ \A u \in TitlesIn(t, b) : s < u => q < u
                              /\ \A e \in s..m : t[e] = "end" => e < q}
  <2>1. \A q : q \in s..x-1 => q \in s..b.last
    BY <1>3
  <2>2. QED
    BY <1>6, <1>7, <2>1
<1>9. ExceptionIn(t, b, s) = [what |-> k, lines |-> LinesOf(ps)]
  BY <1>1, <1>8 DEF ExceptionIn, m
<1>10. m \in LinesOf(ps)
  <2>1. t[m] # "end"
    BY <1>4 DEF Markers
  <2>2. \A e \in s..m : t[e] = "end" => e < m
    BY <1>3, <1>4, <2>1
  <2>3. m \in s..x-1
    BY <1>3, <1>4, <1>5
  <2>4. QED
    BY <1>1, <1>6, <2>2, <2>3
<1>11. \A q \in LinesOf(ps) : q \in Nat /\ f <= q /\ q < x
  BY <1>1, <1>3, <1>6
<1>12. {u \in TitlesIn(t, b) : u < x} = {u \in TitlesIn(t, b) : u < f} \cup {s}
  <2>1. ASSUME NEW u \in TitlesIn(t, b), u < x PROVE u < f \/ u = s
    BY <1>1, <1>2, <2>1
  <2>2. ASSUME NEW u \in TitlesIn(t, b), u < f PROVE u < x
    BY <1>1, <1>2, <1>3, <2>2
  <2>3. QED
    BY <1>1, <2>1, <2>2
<1>13. ExceptionsTo(t, b, x) = ExceptionsTo(t, b, f) \cup {ExceptionIn(t, b, s)}
  BY <1>12 DEF ExceptionsTo
<1>14. QED
  BY <1>9, <1>10, <1>11, <1>13

(* All the exceptions of a block are the records it asks for.               *)
LEMMA WholeBlock ==
    ASSUME NEW t, NEW b, IsBlock(b), NEW y, NEW s \in TitlesIn(t, b),
           BlocksBefore(t, y) = BlocksBefore(t, b.first) \cup {b}
    PROVE  WantedBefore(t, y) = WantedBefore(t, b.first) \cup ExceptionsTo(t, b, b.last + 1)
<1>1. \A u \in TitlesIn(t, b) : u < b.last + 1
  <2> SUFFICES ASSUME NEW u \in TitlesIn(t, b) PROVE u < b.last + 1
    OBVIOUS
  <2>1. u \in Nat /\ u <= b.last /\ b.last \in Nat
    BY StartIs DEF TitlesIn, IsBlock
  <2>2. QED
    BY <2>1
<1>2. WantedIn(t, b) = ExceptionsTo(t, b, b.last + 1)
  BY <1>1 DEF WantedIn, ExceptionsTo
<1>3. QED
  BY <1>2 DEF WantedBefore

LEMMA OtherBlock ==
    ASSUME NEW t, NEW b, NEW y, TitlesIn(t, b) = {},
           BlocksBefore(t, y) = BlocksBefore(t, b.first) \cup {b}
    PROVE  /\ WantedBefore(t, y) =
                 WantedBefore(t, b.first) \cup {[what |-> "other", lines |-> b.first..b.last]}
           /\ \A x : ExceptionsTo(t, b, x) = {}
BY DEF WantedIn, WantedBefore, ExceptionsTo

(* One more record.                                                         *)
LEMMA Recording ==
    ASSUME NEW rs \in Seq(Written), NEW r \in Written, NEW x \in Nat, NEW y \in Nat, x <= y,
           InOrder(rs, x), NEW g, g = Given(r), g.lines # {},
           \A q \in g.lines : q \in Nat /\ x <= q /\ q < y
    PROVE  /\ Recorded(Append(rs, r)) = Recorded(rs) \cup {g}
           /\ InOrder(Append(rs, r), y)
<1>1. PICK n \in Nat : n = Len(rs)
  OBVIOUS
<1> DEFINE w == Append(rs, r)
<1>2. /\ DOMAIN rs = 1..n /\ DOMAIN w = 1..(n + 1) /\ w[n + 1] = r
      /\ \A i \in 1..n : w[i] = rs[i]
  BY <1>1
<1> HIDE DEF w
<1>3. \A i \in 1..(n + 1) : i \in 1..n \/ i = n + 1
  OBVIOUS
<1>4. 1..n \subseteq 1..(n + 1) /\ n + 1 \in 1..(n + 1)
  OBVIOUS
<1>5. /\ \A i \in 1..n : Given(w[i]) = Given(rs[i])
      /\ Given(w[n + 1]) = g
  BY <1>2
<1>6. Recorded(w) = Recorded(rs) \cup {g}
  BY <1>2, <1>3, <1>4, <1>5 DEF Recorded
<1>7. \A i \in 1..n : /\ Given(rs[i]).lines # {}
                      /\ \A q \in Given(rs[i]).lines : q \in Nat /\ q < x
  BY <1>2 DEF InOrder
<1>8. \A i \in 1..n : Min(Given(rs[i]).lines) \in Nat /\ Min(Given(rs[i]).lines) < x
  <2> SUFFICES ASSUME NEW i \in 1..n
               PROVE  Min(Given(rs[i]).lines) \in Nat /\ Min(Given(rs[i]).lines) < x
    OBVIOUS
  <2>1. Given(rs[i]).lines \subseteq Nat /\ Given(rs[i]).lines # {}
    BY <1>7
  <2>2. Min(Given(rs[i]).lines) \in Given(rs[i]).lines
    BY <2>1, FirstIs
  <2>3. QED
    BY <1>7, <2>2
<1>9. Min(g.lines) \in Nat /\ x <= Min(g.lines)
  <2>1. g.lines \subseteq Nat
    OBVIOUS
  <2>2. Min(g.lines) \in g.lines
    BY <2>1, FirstIs
  <2>3. QED
    BY <2>2
<1>10. \A i \in 1..(n + 1) : /\ Given(w[i]).lines # {}
                             /\ \A q \in Given(w[i]).lines : q \in Nat /\ q < y
  <2>1. ASSUME NEW i \in 1..n, NEW q \in Given(rs[i]).lines PROVE q \in Nat /\ q < y
    <3>1. q \in Nat /\ q < x
      BY <1>7
    <3>2. QED
      BY <3>1
  <2>2. QED
    BY <1>3, <1>5, <1>7, <2>1
<1>11. ASSUME NEW i \in 1..(n + 1), NEW j \in 1..(n + 1), i < j
       PROVE  Min(Given(w[i]).lines) < Min(Given(w[j]).lines)
  <2>1. i \in 1..n
    BY <1>11
  <2>2. CASE j \in 1..n
    <3>1. Min(Given(rs[i]).lines) < Min(Given(rs[j]).lines)
      BY <1>2, <1>11, <2>1, <2>2 DEF InOrder
    <3>2. QED
      BY <1>5, <2>1, <2>2, <3>1
  <2>3. CASE j = n + 1
    <3>1. Min(Given(rs[i]).lines) < Min(g.lines)
      BY <1>8, <1>9, <2>1
    <3>2. QED
      BY <1>5, <2>1, <2>3, <3>1
  <2>4. QED
    BY <1>3, <2>2, <2>3
<1>12. QED
  BY <1>2, <1>6, <1>10, <1>11 DEF InOrder, w

(* Nothing more is recorded, the bound goes up.                             *)
LEMMA StillInOrder ==
    ASSUME NEW rs, NEW x \in Nat, NEW y \in Nat, x <= y, InOrder(rs, x)
    PROVE  InOrder(rs, y)
BY DEF InOrder

-----------------------------------------------------------------------------
(* exclist_parse goes past the next mark of a beginning, and has the block  *)
(* before it when there is one.                                             *)
LEMMA ParseIs ==
    ASSUME PlaceInv, BlockInv, exclist_parse
    PROVE  /\ next' \in Nat /\ next <= next' /\ (next' <= Len(text) => next' - 1 \in ReadIn(text))
           /\ \/ /\ BlocksBefore(text, next') = BlocksBefore(text, next)
                 /\ UNCHANGED <<pc, block, cut, str>>
              \/ /\ block' \in BlocksIn(text)
                 /\ next <= block'.first /\ block'.last < next'
                 /\ BlocksBefore(text, next') = BlocksBefore(text, block'.first) \cup {block'}
                 /\ BlocksBefore(text, block'.first) = BlocksBefore(text, next)
                 /\ cut' = {} /\ str' = block'.first
                 /\ pc' = IF TitlesIn(text, block') # {} THEN "exception" ELSE "other"
<1> DEFINE B     == Lines(next..Len(text), Begins)
           begin == IF B = {} THEN Len(text) + 1 ELSE First(B)
           S     == BeforeEnd(next..begin-1)
           kept  == S \ Lines(S, {"blank"})
           K     == KeptIn(text, next - 1)
           b     == BlockIn(text, next - 1)
<1>1. PICK m \in Nat : m = Len(text) /\ DOMAIN text = 1..m
  BY TextAssumption DEF PlaceInv
<1>2. next \in 1..m /\ pc = "record" /\ text' = text
  BY <1>1 DEF PlaceInv, exclist_parse
<1>3. next - 1 \in ReadIn(text) /\ (next = 1 \/ text[next - 1] \in Begins)
  <2>1. next - 1 \in ReadIn(text)
    BY <1>1, <1>2 DEF BlockInv
  <2>2. QED
    BY <1>2, <2>1 DEF ReadIn, Marks
<1>4. B \subseteq next..m /\ \A q \in next..m : text[q] \in Begins <=> q \in B
  BY <1>1 DEF Lines
<1>5. /\ begin \in next..m+1
      /\ begin = m + 1 \/ text[begin] \in Begins
      /\ \A q \in next..begin-1 : text[q] \notin Begins
  <2>1. CASE B = {}
    <3>1. begin = m + 1
      BY <1>1, <2>1
    <3>2. (m + 1) - 1 = m
      OBVIOUS
    <3>3. QED
      BY <1>2, <1>4, <2>1, <3>1, <3>2
  <2>2. CASE B # {}
    <3>1. B \subseteq Nat /\ begin = First(B)
      BY <1>2, <1>4, <2>2
    <3> HIDE DEF B, begin
    <3>2. begin \in B /\ \A q \in B : begin <= q
      BY <2>2, <3>1, FirstIs
    <3>3. begin \in next..m /\ text[begin] \in Begins
      BY <1>4, <3>2
    <3>4. ASSUME NEW q \in next..begin-1 PROVE text[q] \notin Begins
      <4>1. q \in next..m /\ ~ (begin <= q)
        BY <1>2, <3>3
      <4>2. QED
        BY <1>4, <3>2, <4>1
    <3>5. QED
      BY <3>3, <3>4
  <2>3. QED
    BY <2>1, <2>2
<1> HIDE DEF B, begin, K, b
<1>6. K = {q \in next..begin-1 : text[q] # "blank" /\ \A p \in next..q : text[p] # "endrec"}
      /\ BlocksBefore(text, begin + 1) = BlocksBefore(text, next) \cup (IF K = {} THEN {} ELSE {b})
  BY <1>1, <1>2, <1>3, <1>5, OneBlock DEF K, b
<1>7. kept = K
  <2>1. S = {q \in next..begin-1 : \A e \in Lines(next..begin-1, {"endrec"}) : q < e}
    BY DEF BeforeEnd
  <2>2. ASSUME NEW q \in next..begin-1
        PROVE  (\A e \in Lines(next..begin-1, {"endrec"}) : q < e)
                  <=> \A p \in next..q : text[p] # "endrec"
    <3>1. q \in Nat /\ next \in Nat /\ begin \in Nat /\ q <= begin - 1
      BY <1>2, <1>5
    <3>2. ASSUME \A p \in next..q : text[p] # "endrec",
                 NEW e \in Lines(next..begin-1, {"endrec"})
          PROVE  q < e
      <4>1. e \in next..begin-1 /\ text[e] = "endrec"
        BY DEF Lines
      <4>2. ~ (e \in next..q)
        BY <3>2, <4>1
      <4>3. QED
        BY <3>1, <4>1, <4>2
    <3>3. ASSUME \A e \in Lines(next..begin-1, {"endrec"}) : q < e,
                 NEW p \in next..q, text[p] = "endrec"
          PROVE  FALSE
      <4>1. p \in next..begin-1 /\ p <= q /\ p \in Nat
        BY <3>1
      <4>2. p \in Lines(next..begin-1, {"endrec"})
        BY <3>3, <4>1 DEF Lines
      <4>3. QED
        BY <3>1, <3>3, <4>1, <4>2
    <3>4. QED
      BY <3>2, <3>3
  <2>3. QED
    BY <1>6, <2>1, <2>2 DEF Lines
<1> DEFINE lost == begin = next /\ text[begin] = "bare"
<1>8. next' = IF lost THEN m + 1 ELSE begin + 1
  BY <1>1, <1>2 DEF exclist_parse, Behind, begin, B
<1>9. \/ kept = {} /\ UNCHANGED <<pc, block, cut, str>>
      \/ /\ kept # {}
         /\ block' = [first |-> First(kept), last |-> Max(kept)]
         /\ cut' = {} /\ str' = First(kept)
         /\ pc' = IF Lines(kept, Markers) # {} THEN "exception" ELSE "other"
  BY DEF exclist_parse, begin, B
<1>10. CASE lost
  <2>1. LosesIn(text, next)
    BY <1>3, <1>10 DEF LosesIn
  <2>2. BlocksBefore(text, m + 1) = BlocksBefore(text, next)
    BY <1>1, <1>2, <2>1, NoneBehind
  <2>3. next..begin-1 = {}
    BY <1>2, <1>10
  <2>4. K = {}
    BY <1>6, <2>3
  <2>5. next' = m + 1 /\ next' \in Nat /\ next <= next' /\ ~ (next' <= Len(text))
    BY <1>1, <1>2, <1>8, <1>10
  <2>6. QED
    BY <1>7, <1>9, <2>2, <2>4, <2>5
<1>11. ASSUME ~ lost, begin <= m PROVE begin \in ReadIn(text)
  <2>1. begin \in 1..m /\ begin \in Nat /\ next \in Nat \ {0} /\ next <= begin /\ text[begin] \in Begins
    BY <1>2, <1>5, <1>11
  <2>2. ASSUME NEW q \in 1..begin PROVE ~ LosesIn(text, q)
    <3>1. CASE q <= next - 1
      BY <1>3, <2>1, <3>1 DEF ReadIn
    <3>2. CASE q \in next..begin-1
      BY <1>5, <3>2 DEF LosesIn, Begins
    <3>3. CASE q = begin
      <4> SUFFICES ASSUME text[begin] = "bare" PROVE begin # 1 /\ text[begin - 1] \notin Begins
        BY <3>3 DEF LosesIn
      <4>1. begin # next
        BY <1>11
      <4>2. begin # 1 /\ begin - 1 \in next..begin-1
        BY <2>1, <4>1
      <4>3. QED
        BY <1>5, <4>2
    <3>4. QED
      BY <2>1, <3>1, <3>2, <3>3
  <2>3. begin \in Marks(text, DOMAIN text, Begins)
    BY <1>1, <2>1 DEF Marks
  <2>4. QED
    BY <2>2, <2>3 DEF ReadIn
<1>12. ASSUME ~ lost
       PROVE  /\ next' \in Nat /\ next <= next' /\ next' = begin + 1
              /\ next' <= Len(text) => next' - 1 \in ReadIn(text)
  <2>1. begin \in Nat /\ next <= begin /\ next \in Nat /\ (begin + 1) - 1 = begin
    BY <1>2, <1>5
  <2>2. begin + 1 <= Len(text) => begin <= m
    BY <1>1, <2>1
  <2>3. QED
    BY <1>8, <1>11, <1>12, <2>1, <2>2
<1>13. CASE ~ lost /\ K = {}
  <2>1. BlocksBefore(text, next') = BlocksBefore(text, next)
    BY <1>6, <1>12, <1>13
  <2>2. QED
    BY <1>7, <1>9, <1>12, <1>13, <2>1
<1>14. CASE ~ lost /\ K # {}
  <2>1. block' = b /\ cut' = {} /\ str' = b.first
        /\ pc' = IF Lines(K, Markers) # {} THEN "exception" ELSE "other"
    <3>1. b = [first |-> First(K), last |-> Max(K)]
      BY DEF b, K, BlockIn, First
    <3>2. QED
      BY <1>7, <1>9, <1>14, <3>1
  <2>2. next - 1 \in Nat /\ next - 1 \in ReadIn(text)
    BY <1>2, <1>3
  <2>3. b \in BlocksIn(text)
    BY <1>14, <2>2 DEF BlocksIn, b, K
  <2>4. b.first \in K /\ b.last \in K /\ IsBlock(b)
    BY <1>1, <1>14, <2>2, KeptIs DEF b, K
  <2>5. b.first \in Nat /\ next <= b.first /\ b.first < next' /\ b.last < next'
    <3>1. b.first \in next..begin-1 /\ b.last \in next..begin-1
      BY <1>6, <2>4
    <3>2. QED
      BY <1>2, <1>5, <1>12, <1>14, <3>1
  <2>6. TitlesIn(text, b) # {} <=> Lines(K, Markers) # {}
    BY <1>1, <1>14, <2>2, TitlesOfBlock, SameKind DEF b, K
  <2>7. BlocksBefore(text, next') = BlocksBefore(text, next) \cup {b}
    BY <1>6, <1>12, <1>14
  <2>8. BlocksBefore(text, b.first) = BlocksBefore(text, next)
    <3>1. \A c \in BlocksIn(text) : c.first \in Nat
      BY <1>1, BlockIs DEF IsBlock
    <3>2. ASSUME NEW c \in BlocksIn(text), c.first < next PROVE c.first < b.first
      BY <1>2, <2>5, <3>1, <3>2
    <3>3. ASSUME NEW c \in BlocksIn(text), c.first < b.first PROVE c.first < next
      <4>1. c.first < next' /\ c # b
        BY <1>12, <1>14, <2>5, <3>1, <3>3
      <4>2. c \in BlocksBefore(text, next')
        BY <4>1 DEF BlocksBefore
      <4>3. QED
        BY <2>7, <4>1, <4>2 DEF BlocksBefore
    <3>4. QED
      BY <3>2, <3>3 DEF BlocksBefore
  <2>9. QED
    BY <1>12, <1>14, <2>1, <2>3, <2>5, <2>6, <2>7, <2>8
<1>15. QED
  BY <1>10, <1>13, <1>14

LEMMA BlockStep == PlaceInv /\ BlockInv /\ [Next]_vars => BlockInv'
<1> SUFFICES ASSUME PlaceInv, BlockInv, [Next]_vars PROVE BlockInv'
  OBVIOUS
<1>1. CASE exclist_parse
  <2>1. text' = text /\ pc = "record"
    BY <1>1 DEF exclist_parse
  <2>2. QED
    BY <1>1, <2>1, ParseIs DEF BlockInv
<1>2. CASE UNCHANGED <<text, next, block>> /\ (pc = "record" => pc' = "record")
  BY <1>2 DEF BlockInv
<1>3. QED
  BY <1>1, <1>2 DEF Next, vars, cursor, str2phases, SeekTitle, NextTitle, AddSection, InSection,
     AppRecord, NotFound, EndOfSections, excblock_parse_otherexc

(* The block in hand, within the text.                                      *)
LEMMA InHandIs ==
    ASSUME PlaceInv, BlockInv, pc # "record"
    PROVE  IsBlock(block) /\ \A q \in block.first..block.last : q \in DOMAIN text
<1>1. PICK m \in Nat : m = Len(text) /\ DOMAIN text = 1..m
  BY TextAssumption DEF PlaceInv
<1>2. IsBlock(block) /\ block.last <= m
  BY <1>1, BlockIs DEF BlockInv
<1>3. QED
  BY <1>1, <1>2 DEF IsBlock

-----------------------------------------------------------------------------
(* The steps keep the division.                                             *)
Reading == PlaceInv /\ PhasesInv /\ RecordsInv /\ BlockInv

LEMMA ParseDivides ==
    ASSUME Reading, SectionInv, DoneInv, exclist_parse
    PROVE  SectionInv' /\ DoneInv'
<1>1. /\ pc = "record" /\ UNCHANGED <<text, records>>
      /\ Recorded(records) = WantedBefore(text, next) /\ InOrder(records, next)
      /\ next \in Nat
  BY DEF exclist_parse, DoneInv, Reading, PlaceInv
<1>2. next' \in Nat /\ next <= next'
  BY ParseIs DEF Reading
<1>3. CASE /\ BlocksBefore(text, next') = BlocksBefore(text, next)
           /\ UNCHANGED <<pc, block, cut, str>>
  <2>1. WantedBefore(text, next') = WantedBefore(text, next)
    BY <1>3 DEF WantedBefore
  <2>2. InOrder(records, next')
    BY <1>1, <1>2, StillInOrder
  <2>3. DoneInv'
    BY <1>1, <1>3, <2>1, <2>2 DEF DoneInv
  <2>4. SectionInv'
    BY <1>1, <1>3 DEF SectionInv
  <2>5. QED
    BY <2>3, <2>4
<1>4. CASE /\ block' \in BlocksIn(text)
           /\ next <= block'.first /\ block'.last < next'
           /\ BlocksBefore(text, next') = BlocksBefore(text, block'.first) \cup {block'}
           /\ BlocksBefore(text, block'.first) = BlocksBefore(text, next)
           /\ cut' = {} /\ str' = block'.first
           /\ pc' = IF TitlesIn(text, block') # {} THEN "exception" ELSE "other"
  <2>1. PICK b : b = block'
    OBVIOUS
  <2>2. b \in BlocksIn(text) /\ str' = b.first /\ next <= b.first /\ cut' = {}
        /\ BlocksBefore(text, b.first) = BlocksBefore(text, next)
        /\ pc' = IF TitlesIn(text, b) # {} THEN "exception" ELSE "other"
    BY <1>4, <2>1
  <2>3. IsBlock(b)
    <3>1. PICK m \in Nat : m = Len(text) /\ DOMAIN text = 1..m
      BY TextAssumption DEF Reading, PlaceInv
    <3>2. QED
      BY <2>2, <3>1, BlockIs
  <2>4. b.first \in StartsIn(text, b) /\ b.first \in Nat
    BY <2>3 DEF StartsIn, IsBlock
  <2>5. \A s \in TitlesIn(text, b) : s \in Nat /\ b.first <= s
    BY <2>3, StartIs DEF TitlesIn
  <2>6. ExceptionsTo(text, b, b.first) = {}
    BY <2>4, <2>5 DEF ExceptionsTo
  <2>7. WantedBefore(text, b.first) = WantedBefore(text, next)
    BY <2>2 DEF WantedBefore
  <2>8. InOrder(records, b.first)
    BY <1>1, <2>2, <2>4, StillInOrder
  <2>9. DoneInv'
    <3>1. Recorded(records) = WantedBefore(text, b.first) \cup ExceptionsTo(text, b, b.first)
      BY <1>1, <2>6, <2>7
    <3>2. pc' # "record"
      BY <2>2
    <3>3. QED
      BY <1>1, <2>1, <2>2, <2>8, <3>1, <3>2 DEF DoneInv
  <2>10. SectionInv'
    <3>1. CASE TitlesIn(text, b) # {}
      <4>1. pc' = "exception"
        BY <2>2, <3>1
      <4>2. \E s \in TitlesIn(text, b) : b.first <= s
        BY <2>5, <3>1
      <4>3. CutTo(str)'
        BY <2>2 DEF CutTo
      <4>4. QED
        BY <1>1, <2>1, <2>2, <2>4, <4>1, <4>2, <4>3 DEF SectionInv
    <3>2. CASE TitlesIn(text, b) = {}
      <4>1. pc' = "other"
        BY <2>2, <3>2
      <4>2. QED
        BY <1>1, <2>1, <2>2, <3>2, <4>1 DEF SectionInv
    <3>3. QED
      BY <3>1, <3>2
  <2>11. QED
    BY <2>9, <2>10
<1>5. QED
  BY <1>3, <1>4, ParseIs DEF Reading

(* The records stay as long as an exception is read.                        *)
LEMMA DoneStays ==
    ASSUME DoneInv, pc # "record", pc' # "record", UNCHANGED <<text, block, str, records>>
    PROVE  DoneInv'
BY DEF DoneInv

LEMMA HeadDivides ==
    ASSUME Reading, SectionInv, str2phases
    PROVE  SectionInv'
<1>1. /\ pc = "exception" /\ pc' = "section" /\ rest' = 0
      /\ UNCHANGED <<text, block, str>>
      /\ str \in StartsIn(text, block)
      /\ \E s \in TitlesIn(text, block) : str <= s
      /\ CutTo(str)
  BY DEF str2phases, SectionInv
<1>2. IsBlock(block)
  BY <1>1, InHandIs DEF Reading
<1>3. str \in Nat \ {0} /\ str <= block.last /\ block.last \in Nat /\ (str # block.first => text[str] \in Dashes)
  BY <1>1, <1>2, StartIs DEF IsBlock
<1>4. Str(str) = str..block.last
  BY <1>1, <1>3, StrWhole
<1> DEFINE D    == Lines(str..block.last, Dashes)
           head == {q \in str..block.last : \A d \in D : q < d}
<1>5. /\ type' = TypeOf(head) /\ phases' = HeadPhase(head)
      /\ \/ D = {} /\ pstr' = 0 /\ UNCHANGED cut
         \/ D # {} /\ pstr' = First(D) /\ cut' = cut \cup ({First(D)} \ {str})
  BY <1>4 DEF str2phases
<1>6. D \subseteq Nat /\ D = Marks(text, str..block.last, Dashes)
  BY <1>3, SameKind DEF Lines
<1>7. CASE text[str] \in Dashes
  <2>1. str \in D /\ \A d \in D : str <= d
    BY <1>3, <1>7 DEF Lines
  <2>2. First(D) = str
    BY <1>6, <2>1, MinIs DEF First
  <2>3. head = {}
    <3> SUFFICES ASSUME NEW q \in head PROVE FALSE
      OBVIOUS
    <3>1. q \in Nat /\ str <= q /\ q < str
      BY <1>3, <2>1
    <3>2. QED
      BY <1>3, <3>1
  <2>4. HeadPhase(head) = <<>>
    <3>1. TypeOf({}) = "unknown"
      BY DEF TypeOf, Lines
    <3>2. QED
      BY <2>3, <3>1 DEF HeadPhase
  <2> HIDE DEF D, head
  <2>5. pstr' = str /\ cut' = cut /\ phases' = <<>>
    BY <1>5, <2>1, <2>2, <2>4
  <2>6. \A s \in TitlesIn(text, block) : s \in Nat
    BY <1>2, StartIs DEF TitlesIn
  <2>7. InSections(text, block, str, str, 0, type', <<>>)
    BY <1>1, <1>3, <2>6 DEF InSections
  <2>8. Bound(str, 0, block) = str
    BY <1>3 DEF Bound
  <2>9. CutTo(Bound(pstr, rest, block))'
    BY <1>1, <2>5, <2>8 DEF CutTo
  <2>10. InSections(text, block, str, pstr, rest, type, phases)'
    BY <1>1, <2>5, <2>7
  <2>11. QED
    BY <1>1, <2>9, <2>10 DEF SectionInv
<1>8. CASE text[str] \notin Dashes
  <2>1. D = DashesFrom(text, block, str)
    BY <1>6, <1>8 DEF Marks, DashesFrom
  <2>2. head = SectionIn(text, block, str)
    <3>1. str = block.first
      BY <1>3, <1>8
    <3>2. ASSUME NEW q \in str..block.last
          PROVE  (\A d \in D : q < d) <=> \A u \in StartsIn(text, block) : str < u => q < u
      <4>1. ASSUME NEW u PROVE u \in D <=> u \in StartsIn(text, block) /\ str < u
        BY <1>2, <1>3, <1>6, <1>8, <3>1 DEF StartsIn, Marks
      <4>2. QED
        BY <4>1
    <3>3. QED
      BY <3>2 DEF SectionIn
  <2> HIDE DEF D, head
  <2>3. pstr' = Onward(D)
    BY <1>5 DEF Onward
  <2>4. str <= str /\ \A u \in TitlesIn(text, block) : u < str \/ str <= u
    <3>1. \A u \in TitlesIn(text, block) : u \in Nat
      BY <1>2, StartIs DEF TitlesIn
    <3>2. QED
      BY <1>3, <3>1
  <2>5. InSections(text, block, str, Onward(DashesFrom(text, block, str)), 0,
                   TypeOf(SectionIn(text, block, str)), HeadPhase(SectionIn(text, block, str)))
    BY <1>1, <1>2, <2>4, Seek
  <2>6. InSections(text, block, str, pstr, rest, type, phases)'
    BY <1>1, <1>5, <2>1, <2>2, <2>3, <2>5
  <2>7. CutTo(Bound(pstr, rest, block))'
    <3> DEFINE n == EndAt(text, block, str)
    <3>1. /\ n \in Nat /\ str < n
          /\ D = {} => n = block.last + 1
          /\ D # {} => n = First(D) /\ n # 0
      BY <1>1, <1>2, <1>3, <2>1, NextStart
    <3> HIDE DEF n
    <3>2. Bound(pstr', 0, block) = n /\ \A c \in cut' : c \in cut \/ c = n
      BY <1>3, <1>5, <3>1 DEF Bound
    <3>3. \A c \in cut' : c \in Nat /\ c <= n
      BY <1>1, <1>3, <3>1, <3>2 DEF CutTo
    <3>4. QED
      BY <1>1, <3>2, <3>3 DEF CutTo
  <2>8. QED
    BY <1>1, <2>6, <2>7 DEF SectionInv
<1>9. QED
  BY <1>7, <1>8

(* str2phases has a section to look at: the one of the division.            *)
LEMMA InSectionIs ==
    ASSUME Reading, SectionInv, InSection
    PROVE  /\ pc = "section" /\ pstr # 0 /\ rest = 0 /\ IsBlock(block)
           /\ str \in Nat \ {0} /\ str <= pstr /\ pstr \in Nat
           /\ pstr \in StartsIn(text, block)
           /\ \A c \in cut : c \in Nat /\ c <= pstr
           /\ NextDash = DashesFrom(text, block, pstr)
           /\ Section = SectionIn(text, block, pstr)
<1>1. pc = "section" /\ pstr # 0
  BY DEF InSection
<1>2. IsBlock(block)
  BY <1>1, InHandIs DEF Reading
<1>3. /\ rest = 0 /\ str <= pstr /\ pstr \in StartsIn(text, block)
      /\ CutTo(pstr)
  BY <1>1 DEF SectionInv, InSections, Bound
<1>4. str \in Nat \ {0} /\ pstr \in Nat
  BY DEF Reading, PlaceInv
<1>5. NextDash = DashesFrom(text, block, pstr) /\ Section = SectionIn(text, block, pstr)
  BY <1>2, <1>3, SectionWhole
<1>6. QED
  BY <1>1, <1>2, <1>3, <1>4, <1>5 DEF CutTo

(* It goes on at the next line of dashes, and cuts the block there.         *)
LEMMA CutThere ==
    ASSUME Reading, SectionInv, InSection, UNCHANGED block, rest' = 0,
           pstr' = Onward(NextDash), cut' = cut \cup FirstOf(NextDash)
    PROVE  /\ Bound(pstr, rest, block)' = EndAt(text, block, pstr)
           /\ CutTo(Bound(pstr, rest, block))'
<1> DEFINE n == EndAt(text, block, pstr)
           D == NextDash
<1>1. /\ n \in Nat /\ pstr < n /\ pstr \in Nat
      /\ D = {} => n = block.last + 1
      /\ D # {} => n = First(D)
  BY InSectionIs, NextStart
<1>2. /\ pstr' = (IF D = {} THEN 0 ELSE First(D))
      /\ \A c \in cut' : c \in cut \/ (D # {} /\ c = First(D))
  BY DEF Onward, FirstOf
<1> HIDE DEF n, D
<1>3. Bound(pstr', rest', block') = n
  BY <1>1, <1>2 DEF Bound
<1>4. \A c \in cut : c \in Nat /\ c <= pstr
  BY InSectionIs
<1>5. \A c \in cut' : c \in Nat /\ c <= n
  <2> SUFFICES ASSUME NEW c \in cut' PROVE c \in Nat /\ c <= n
    OBVIOUS
  <2>1. CASE c \in cut
    <3>1. c \in Nat /\ c <= pstr
      BY <1>4, <2>1
    <3>2. QED
      BY <1>1, <3>1
  <2>2. CASE c = n
    BY <1>1, <2>2
  <2>3. QED
    BY <1>1, <1>2, <2>1, <2>2
<1>6. QED
  BY <1>3, <1>5 DEF CutTo, n

LEMMA SeekDivides ==
    ASSUME Reading, SectionInv, SeekTitle
    PROVE  SectionInv'
<1>1. /\ InSection /\ phases = <<>>
      /\ type' = TypeOf(Section) /\ phases' = HeadPhase(Section)
      /\ cut' = cut \cup FirstOf(NextDash)
      /\ pstr' = Onward(NextDash)
      /\ UNCHANGED <<text, pc, block, str, rest>>
  BY DEF SeekTitle, Goto, Onward
<1>2. /\ pc = "section" /\ IsBlock(block) /\ rest = 0 /\ str <= pstr
      /\ pstr \in StartsIn(text, block)
      /\ NextDash = DashesFrom(text, block, pstr) /\ Section = SectionIn(text, block, pstr)
  BY <1>1, InSectionIs
<1>3. /\ str \in StartsIn(text, block)
      /\ \E s \in TitlesIn(text, block) : str <= s
      /\ \A s \in TitlesIn(text, block) : s < str \/ pstr <= s
  BY <1>1, <1>2 DEF SectionInv, InSections
<1>4. InSections(text, block, str, Onward(DashesFrom(text, block, pstr)), 0,
                 TypeOf(SectionIn(text, block, pstr)), HeadPhase(SectionIn(text, block, pstr)))
  BY <1>2, <1>3, Seek
<1>5. InSections(text, block, str, pstr, rest, type, phases)'
  BY <1>1, <1>2, <1>4
<1>6. CutTo(Bound(pstr, rest, block))'
  BY <1>1, <1>2, CutThere
<1>7. QED
  BY <1>1, <1>2, <1>3, <1>5, <1>6 DEF SectionInv

LEMMA NextTitleDivides ==
    ASSUME Reading, SectionInv, NextTitle
    PROVE  SectionInv'
<1>1. /\ InSection /\ phases # <<>> /\ TypeOf(Section) # "unknown"
      /\ rest' = pstr /\ pstr' = 0
      /\ UNCHANGED <<text, pc, block, cut, str, type, phases>>
  BY DEF NextTitle, RestHere
<1>2. /\ pc = "section" /\ rest = 0 /\ pstr # 0 /\ pstr \in StartsIn(text, block)
      /\ Section = SectionIn(text, block, pstr)
  BY <1>1, InSectionIs
<1>3. pstr \in TitlesIn(text, block)
  BY <1>1, <1>2, SameKind, TitleOrNot DEF KindAt
<1>4. Bound(0, pstr, block) = pstr /\ Bound(pstr, 0, block) = pstr
  BY <1>2 DEF Bound
<1>5. /\ str \in StartsIn(text, block)
      /\ \E s \in TitlesIn(text, block) : str <= s
      /\ CutTo(pstr)
      /\ \E s \in TitlesIn(text, block) : InHand(text, block, str, s, pstr, type, phases)
  BY <1>1, <1>2, <1>4 DEF SectionInv, InSections
<1>6. InSections(text, block, str, 0, pstr, type, phases)
  BY <1>1, <1>3, <1>4, <1>5 DEF InSections
<1>7. InSections(text, block, str, pstr, rest, type, phases)'
  BY <1>1, <1>6
<1>8. CutTo(Bound(pstr, rest, block))'
  BY <1>1, <1>4, <1>5 DEF CutTo
<1>9. QED
  BY <1>1, <1>2, <1>5, <1>7, <1>8 DEF SectionInv

LEMMA AddDivides ==
    ASSUME Reading, NoStars, SectionInv, AddSection
    PROVE  SectionInv'
<1>1. InSection /\ phases # <<>> /\ TypeOf(Section) = "unknown"
      /\ UNCHANGED <<text, pc, block, str, type>>
  BY DEF AddSection
<1>2. /\ pc = "section" /\ IsBlock(block) /\ rest = 0 /\ pstr # 0 /\ pstr \in StartsIn(text, block)
      /\ str \in Nat /\ Section = SectionIn(text, block, pstr)
  BY <1>1, InSectionIs
<1>3. Lines(Section, {"stars"}) = {}
  <2> SUFFICES ASSUME NEW q \in Section, text[q] = "stars" PROVE FALSE
    BY DEF Lines
  <2>1. pstr \in Nat /\ block.first <= pstr /\ block.first \in Nat /\ block.last \in Nat
    BY <1>2, StartIs DEF IsBlock
  <2>2. q \in pstr..block.last
    BY <1>2 DEF SectionIn
  <2>3. q \in block.first..block.last
    BY <2>1, <2>2
  <2>4. q \in DOMAIN text
    BY <1>2, <2>3, InHandIs DEF Reading
  <2>5. QED
    BY <2>4 DEF NoStars, Marks
<1>4. /\ phases' = phases \o Split(Section) /\ pstr' = Onward(NextDash) /\ rest' = 0
      /\ cut' = cut \cup FirstOf(NextDash)
  <2>1. {q \in Section : \A e \in Lines(Section, {"stars"}) : q < e} = Section
    BY <1>3
  <2>2. FirstOf(Lines(Section, {"stars"})) = {}
    BY <1>3 DEF FirstOf
  <2>3. QED
    BY <1>2, <1>3, <2>1, <2>2 DEF AddSection, Goto, Onward
<1>5. pstr \notin TitlesIn(text, block)
  BY <1>1, <1>2, SameKind, TitleOrNot DEF KindAt
<1>6. /\ str \in StartsIn(text, block)
      /\ \E s \in TitlesIn(text, block) : str <= s
      /\ \E s \in TitlesIn(text, block) : InHand(text, block, str, s, pstr, type, phases)
  BY <1>1, <1>2 DEF SectionInv, InSections, Bound
<1>7. PICK s \in TitlesIn(text, block) : InHand(text, block, str, s, pstr, type, phases)
  BY <1>6
<1>8. /\ phases' \in Seq(SUBSET Nat) /\ LinesOf(phases') = LinesOf(phases) \cup Section
      /\ phases' # <<>>
  <2>1. phases \in Seq(SUBSET Nat) /\ Section \subseteq Nat
    <3>1. Section \subseteq pstr..block.last /\ pstr \in Nat
      BY <1>2, StartIs DEF SectionIn
    <3>2. QED
      BY <3>1 DEF Reading, PhasesInv
  <2>2. Split(Section) \in Seq(SUBSET Nat) /\ LinesOf(Split(Section)) = Section
    BY <2>1, SplitWhole
  <2> DEFINE w == Split(Section)
  <2> HIDE DEF w
  <2>3. phases \o w \in Seq(SUBSET Nat) /\ LinesOf(phases \o w) = LinesOf(phases) \cup Section
    BY <2>1, <2>2, LinesOfMore DEF w
  <2>4. phases \o w # <<>>
    BY <1>1, <2>1, <2>2 DEF w
  <2>5. QED
    BY <1>4, <2>3, <2>4 DEF w
<1>9. InHand(text, block, str, s, EndAt(text, block, pstr), type, phases')
  BY <1>2, <1>5, <1>7, <1>8, MoreLines
<1>10. /\ Bound(pstr, rest, block)' = EndAt(text, block, pstr)
       /\ CutTo(Bound(pstr, rest, block))'
  BY <1>1, <1>4, CutThere
<1>11. pstr' # 0 => str <= pstr' /\ pstr' \in StartsIn(text, block)
  <2>1. ASSUME NextDash # {}
        PROVE  First(NextDash) \in StartsIn(text, block) /\ str <= First(NextDash)
    <3>1. NextDash = DashesFrom(text, block, pstr) /\ str <= pstr /\ str \in Nat /\ pstr \in Nat
      BY <1>1, InSectionIs
    <3> DEFINE n == EndAt(text, block, pstr)
    <3>2. n = First(NextDash) /\ n \in StartsIn(text, block) /\ pstr < n /\ n \in Nat
      BY <1>2, <2>1, <3>1, NextStart
    <3> HIDE DEF n
    <3>3. str <= n
      BY <3>1, <3>2
    <3>4. QED
      BY <3>2, <3>3
  <2>2. QED
    BY <1>4, <2>1 DEF Onward
<1>12. InSections(text, block, str, pstr, rest, type, phases)'
  <2>1. InHand(text, block, str, s, Bound(pstr', rest', block'), type', phases')
    BY <1>1, <1>9, <1>10
  <2>2. /\ rest' = 0 /\ text' = text /\ block' = block /\ str' = str
        /\ \E u \in TitlesIn(text, block) :
              InHand(text, block, str, u, Bound(pstr', rest', block'), type', phases')
    BY <1>1, <1>4, <2>1
  <2>3. QED
    BY <1>8, <1>11, <2>2 DEF InSections
<1>13. QED
  BY <1>1, <1>2, <1>6, <1>10, <1>12 DEF SectionInv

(* A record that is not the last of a full array has all its exception.     *)
LEMMA RoomBefore ==
    ASSUME RecordsInv, NEW r \in Written, records' = Append(records, r), Room'
    PROVE  Room /\ Len(r.phases) < MaxPhases
<1>1. PICK n \in Nat : n = Len(records)
  BY DEF RecordsInv
<1>2. /\ DOMAIN records = 1..n /\ DOMAIN (records') = 1..(n + 1) /\ (records')[n + 1] = r
      /\ \A i \in 1..n : (records')[i] = records[i]
  BY <1>1 DEF RecordsInv
<1>3. \A i \in 1..(n + 1) : Len((records')[i].phases) < MaxPhases
  BY <1>2 DEF Room
<1>4. 1..n \subseteq 1..(n + 1) /\ n + 1 \in 1..(n + 1)
  OBVIOUS
<1>5. \A i \in 1..n : Len(records[i].phases) < MaxPhases
  BY <1>2, <1>3, <1>4
<1>6. QED
  BY <1>2, <1>3, <1>4, <1>5 DEF Room

LEMMA AppDivides ==
    ASSUME Reading, Room', SectionInv, DoneInv, AppRecord
    PROVE  SectionInv' /\ DoneInv'
<1> DEFINE r == [what |-> type, phases |-> phases, detail |-> TRUE]
           x == Bound(0, rest, block)
           L == LinesOf(phases)
<1>1. /\ pc = "section" /\ phases # <<>> /\ (pstr = 0 \/ Len(phases) >= MaxPhases)
      /\ records' = Append(records, r)
      /\ cut' = cut \cup phases[1]
      /\ UNCHANGED <<text, next, block>>
      /\ \/ rest = 0 /\ pc' = "record" /\ UNCHANGED str
         \/ rest # 0 /\ pc' = "exception" /\ str' = rest
  BY DEF AppRecord, EndOfSections
<1>2. IsBlock(block) /\ block.last \in Nat /\ str \in Nat /\ rest \in Nat /\ next \in Nat
  BY <1>1, InHandIs DEF Reading, PlaceInv
<1>3. r \in Written /\ records \in Seq(Written) /\ phases \in Seq(SUBSET Nat)
  BY DEF Reading, RecordsInv, PhasesInv, Written
<1>4. Given(r) = [what |-> type, lines |-> L]
  BY DEF Given, LinesOf
<1>5. pstr = 0
  <2>1. Len(phases) < MaxPhases
    <3> HIDE DEF r
    <3>1. Len(r.phases) < MaxPhases
      BY <1>1, <1>3, RoomBefore DEF Reading
    <3>2. QED
      BY <3>1 DEF r
  <2>2. Len(phases) \in Nat /\ MaxPhases \in Nat
    BY <1>3, TextAssumption
  <2>3. QED
    BY <1>1, <2>1, <2>2
<1>6. PICK s \in TitlesIn(text, block) : InHand(text, block, str, s, x, type, phases)
  BY <1>1, <1>5 DEF SectionInv, InSections
<1>7. /\ rest # 0 => rest \in TitlesIn(text, block) /\ x = rest
      /\ rest = 0 => x = block.last + 1
      /\ \A c \in cut : c \in Nat /\ c <= x
  BY <1>1, <1>5 DEF SectionInv, InSections, CutTo, Bound
<1>8. x \in Nat /\ (x \in TitlesIn(text, block) \/ x = block.last + 1)
  BY <1>2, <1>7
<1> HIDE DEF r, x, L
<1>9. /\ ExceptionIn(text, block, s) = [what |-> type, lines |-> L]
      /\ L # {} /\ \A q \in L : q \in Nat /\ str <= q /\ q < x
      /\ ExceptionsTo(text, block, x) = ExceptionsTo(text, block, str) \cup {ExceptionIn(text, block, s)}
  BY <1>2, <1>6, <1>8, WholeException DEF L
<1>10. /\ Recorded(records) = WantedBefore(text, block.first) \cup ExceptionsTo(text, block, str)
       /\ InOrder(records, str)
  BY <1>1 DEF DoneInv
<1>11. s \in Nat /\ s <= block.last /\ str <= s /\ s < x
  BY <1>2, <1>6, StartIs DEF TitlesIn, InHand
<1>12. PICK g : g = Given(r) /\ g = ExceptionIn(text, block, s) /\ g.lines = L
  BY <1>4, <1>9
<1>13. ASSUME NEW y \in Nat, x <= y
       PROVE  /\ Recorded(records') = WantedBefore(text, block.first) \cup ExceptionsTo(text, block, x)
              /\ InOrder(records', y)
  <2>1. str <= y /\ \A q \in g.lines : q \in Nat /\ str <= q /\ q < y
    <3>1. \A q \in g.lines : q \in Nat /\ str <= q /\ q < x
      BY <1>9, <1>12
    <3>2. ASSUME NEW q \in g.lines PROVE q < y
      BY <1>8, <1>13, <3>1
    <3>3. str <= y
      BY <1>2, <1>8, <1>11, <1>13
    <3>4. QED
      BY <3>1, <3>2, <3>3
  <2>2. /\ Recorded(Append(records, r)) = Recorded(records) \cup {g}
        /\ InOrder(Append(records, r), y)
    BY <1>2, <1>3, <1>9, <1>10, <1>12, <2>1, Recording
  <2>3. QED
    BY <1>1, <1>9, <1>10, <1>12, <2>2
<1>14. CASE rest = 0
  <2>1. x = block.last + 1 /\ pc' = "record"
    BY <1>1, <1>7, <1>14
  <2>2. x <= next /\ BlocksBefore(text, next) = BlocksBefore(text, block.first) \cup {block}
    BY <1>1, <1>2, <2>1 DEF Reading, BlockInv
  <2>3. WantedBefore(text, next) = WantedBefore(text, block.first) \cup ExceptionsTo(text, block, x)
    BY <1>2, <2>1, <2>2, WholeBlock
  <2>4. Recorded(records') = WantedBefore(text, next) /\ InOrder(records', next)
    BY <1>2, <1>13, <2>2, <2>3
  <2>5. DoneInv'
    BY <1>1, <2>1, <2>4 DEF DoneInv
  <2>6. SectionInv'
    BY <2>1 DEF SectionInv
  <2>7. QED
    BY <2>5, <2>6
<1>15. CASE rest # 0
  <2>1. x = rest /\ pc' = "exception" /\ str' = x /\ x \in TitlesIn(text, block)
    BY <1>1, <1>7, <1>15
  <2>2. Recorded(records') = WantedBefore(text, block.first) \cup ExceptionsTo(text, block, x)
        /\ InOrder(records', x)
    BY <1>8, <1>13
  <2>3. DoneInv'
    BY <1>1, <2>1, <2>2 DEF DoneInv
  <2>4. CutTo(str)'
    <3>1. phases[1] \subseteq L
      BY <1>1, <1>3 DEF L, LinesOf
    <3>2. ASSUME NEW c \in cut' PROVE c \in Nat /\ c <= x
      BY <1>1, <1>7, <1>8, <1>9, <3>1
    <3>3. QED
      BY <2>1, <3>2 DEF CutTo
  <2>5. x \in StartsIn(text, block) /\ \E u \in TitlesIn(text, block) : x <= u
    BY <1>8, <2>1 DEF TitlesIn
  <2>6. SectionInv'
    BY <1>1, <2>1, <2>4, <2>5 DEF SectionInv
  <2>7. QED
    BY <2>3, <2>6
<1>16. QED
  BY <1>14, <1>15

(* A call of str2phases always finds a title.                               *)
LEMMA AlwaysFound ==
    ASSUME Reading, SectionInv
    PROVE  ~ NotFound
<1> SUFFICES ASSUME NotFound PROVE FALSE
  OBVIOUS
<1>1. pc = "section" /\ phases = <<>> /\ (pstr = 0 \/ Len(phases) >= MaxPhases)
  BY DEF NotFound, EndOfSections
<1>2. pstr # 0
  BY <1>1 DEF SectionInv, InSections
<1>3. Len(phases) = 0 /\ MaxPhases \in Nat \ {0}
  BY <1>1, TextAssumption
<1>4. QED
  BY <1>1, <1>2, <1>3

LEMMA OtherDivides ==
    ASSUME Reading, SectionInv, DoneInv, excblock_parse_otherexc
    PROVE  SectionInv' /\ DoneInv'
<1> DEFINE S == Str(block.first)
<1>1. /\ pc = "other" /\ pc' = "record" /\ UNCHANGED <<text, next, block>>
      /\ \E d \in BOOLEAN : records' = Append(records, [what |-> "other", phases |-> <<S>>, detail |-> d])
  BY DEF excblock_parse_otherexc, cursor
<1>2. PICK d \in BOOLEAN : records' = Append(records, [what |-> "other", phases |-> <<S>>, detail |-> d])
  BY <1>1
<1> DEFINE r == [what |-> "other", phases |-> <<S>>, detail |-> d]
<1>3. IsBlock(block) /\ block.first \in Nat /\ block.last \in Nat /\ block.first <= block.last /\ next \in Nat
  BY <1>1, InHandIs DEF Reading, PlaceInv, IsBlock
<1>4. TitlesIn(text, block) = {} /\ cut = {} /\ str = block.first
  BY <1>1 DEF SectionInv
<1>5. S = block.first..block.last
  BY <1>3, <1>4, StrWhole DEF CutTo
<1> HIDE DEF S
<1>6. <<S>> \in Seq(SUBSET Nat) /\ LinesOf(<<S>>) = S
  <2>1. S \in SUBSET Nat
    BY <1>3, <1>5
  <2>2. QED
    BY <2>1, Single, LinesOfOne
<1>7. r \in Written /\ Given(r) = [what |-> "other", lines |-> S] /\ records' = Append(records, r)
  BY <1>2, <1>6 DEF Written, Given, LinesOf
<1> HIDE DEF r
<1>8. block.last < next /\ BlocksBefore(text, next) = BlocksBefore(text, block.first) \cup {block}
  BY <1>1 DEF Reading, BlockInv
<1>9. /\ WantedBefore(text, next) =
            WantedBefore(text, block.first) \cup {[what |-> "other", lines |-> block.first..block.last]}
      /\ ExceptionsTo(text, block, str) = {}
  BY <1>4, <1>8, OtherBlock
<1>10. Recorded(records) = WantedBefore(text, block.first) /\ InOrder(records, block.first)
  BY <1>1, <1>4, <1>9 DEF DoneInv
<1>11. PICK g : g = Given(r) /\ g = [what |-> "other", lines |-> block.first..block.last]
                /\ g.lines = block.first..block.last
  BY <1>5, <1>7
<1>12. g.lines # {} /\ \A q \in g.lines : q \in Nat /\ block.first <= q /\ q < next
  <2>1. block.first \in block.first..block.last
    BY <1>3
  <2>2. ASSUME NEW q \in block.first..block.last PROVE q \in Nat /\ block.first <= q /\ q < next
    BY <1>3, <1>8
  <2>3. QED
    BY <1>11, <2>1, <2>2
<1>13. block.first <= next /\ records \in Seq(Written)
  BY <1>3, <1>8 DEF Reading, RecordsInv
<1>14. /\ Recorded(Append(records, r)) = Recorded(records) \cup {g}
       /\ InOrder(Append(records, r), next)
  BY <1>3, <1>7, <1>10, <1>11, <1>12, <1>13, Recording
<1>15. Recorded(records') = WantedBefore(text, next) /\ InOrder(records', next)
  BY <1>7, <1>9, <1>10, <1>11, <1>14
<1>16. DoneInv'
  BY <1>1, <1>15 DEF DoneInv
<1>17. SectionInv'
  BY <1>1 DEF SectionInv
<1>18. QED
  BY <1>16, <1>17

(* NoStars is of the text, and the array of sections is never full again    *)
(* once it was not.                                                         *)
LEMMA StillRoom ==
    ASSUME Reading, [Next]_vars, NoStars', Room'
    PROVE  NoStars /\ Room
<1>1. text' = text
  BY DEF Next, exclist_parse, str2phases, SeekTitle, NextTitle, AddSection, AppRecord, NotFound,
     excblock_parse_otherexc, vars
<1>2. NoStars
  BY <1>1 DEF NoStars
<1>3. CASE records' = records
  BY <1>2, <1>3 DEF Room
<1>4. CASE AppRecord
  <2> DEFINE r == [what |-> type, phases |-> phases, detail |-> TRUE]
  <2>1. r \in Written /\ records' = Append(records, r)
    BY <1>4 DEF AppRecord, Reading, RecordsInv, PhasesInv, Written
  <2> HIDE DEF r
  <2>2. QED
    BY <1>2, <2>1, RoomBefore DEF Reading
<1>5. CASE excblock_parse_otherexc
  <2> DEFINE S == Str(block.first)
  <2>1. PICK d \in BOOLEAN :
           records' = Append(records, [what |-> "other", phases |-> <<S>>, detail |-> d])
    BY <1>5 DEF excblock_parse_otherexc
  <2> DEFINE r == [what |-> "other", phases |-> <<S>>, detail |-> d]
  <2>2. S \in SUBSET Nat
    BY StrIs DEF Reading, PlaceInv
  <2> HIDE DEF S
  <2>3. <<S>> \in Seq(SUBSET Nat)
    BY <2>2, Single
  <2>4. r \in Written /\ records' = Append(records, r)
    BY <2>1, <2>3 DEF Written
  <2> HIDE DEF r
  <2>5. QED
    BY <1>2, <2>4, RoomBefore DEF Reading
<1>6. QED
  BY <1>3, <1>4, <1>5 DEF Next, exclist_parse, str2phases, SeekTitle, NextTitle, AddSection, NotFound, vars

LEMMA DivisionStep == Reading /\ DivisionInv /\ [Next]_vars => DivisionInv'
<1> SUFFICES ASSUME Reading, DivisionInv, [Next]_vars, NoStars', Room' PROVE SectionInv' /\ DoneInv'
  BY DEF DivisionInv
<1>1. NoStars /\ Room /\ SectionInv /\ DoneInv
  BY StillRoom DEF DivisionInv
<1>2. CASE exclist_parse
  BY <1>1, <1>2, ParseDivides
<1>3. CASE str2phases
  <2>1. pc # "record" /\ pc' # "record" /\ UNCHANGED <<text, block, str, records>>
    BY <1>3 DEF str2phases
  <2>2. QED
    BY <1>1, <1>3, <2>1, HeadDivides, DoneStays
<1>4. CASE SeekTitle \/ NextTitle \/ AddSection
  <2>1. pc # "record" /\ pc' # "record" /\ UNCHANGED <<text, block, str, records>>
    BY <1>4 DEF SeekTitle, NextTitle, AddSection, InSection
  <2>2. QED
    BY <1>1, <1>4, <2>1, SeekDivides, NextTitleDivides, AddDivides, DoneStays
<1>5. CASE AppRecord
  BY <1>1, <1>5, AppDivides
<1>6. CASE NotFound
  BY <1>1, <1>6, AlwaysFound
<1>7. CASE excblock_parse_otherexc
  BY <1>1, <1>7, OtherDivides
<1>8. CASE UNCHANGED vars
  BY <1>1, <1>8 DEF vars, cursor, SectionInv, DoneInv, CutTo
<1>9. QED
  BY <1>2, <1>3, <1>4, <1>5, <1>6, <1>7, <1>8 DEF Next

LEMMA DivisionStarts == Init => BlockInv /\ DivisionInv
<1> SUFFICES ASSUME Init PROVE BlockInv /\ DivisionInv
  OBVIOUS
<1>1. pc = "record" /\ next = 1 /\ records = <<>> /\ text \in Texts
  BY DEF Init
<1>2. BlockInv /\ SectionInv
  <2>1. next - 1 = 0 /\ 0 \in ReadIn(text)
    BY <1>1 DEF ReadIn
  <2>2. QED
    BY <1>1, <2>1 DEF BlockInv, SectionInv
<1>3. WantedBefore(text, next) = {}
  <2>1. PICK m \in Nat : m = Len(text) /\ DOMAIN text = 1..m
    BY <1>1, TextAssumption
  <2>2. \A b \in BlocksIn(text) : b.first \in Nat \ {0}
    BY <2>1, BlockIs DEF IsBlock
  <2>3. BlocksBefore(text, 1) = {}
    <3> SUFFICES ASSUME NEW b \in BlocksIn(text), b.first < 1 PROVE FALSE
      BY DEF BlocksBefore
    <3>1. b.first \in Nat \ {0}
      BY <2>2
    <3>2. QED
      BY <3>1
  <2>4. QED
    BY <1>1, <2>3 DEF WantedBefore
<1>4. DOMAIN records = {}
  BY <1>1
<1>5. Recorded(records) = {} /\ InOrder(records, next)
  BY <1>4 DEF Recorded, InOrder
<1>6. DoneInv
  BY <1>1, <1>3, <1>5 DEF DoneInv
<1>7. QED
  BY <1>2, <1>6 DEF DivisionInv

(* Up to a bare mark of a beginning that nothing is before, every exception *)
(* of a text gives one record, of its kind, with all its lines and nobody   *)
(* else's, every block without an exception one, in the order of the text,  *)
(* and nothing behind that mark gives one: for every text without a line of *)
(* stars, as long as no exception fills the array of sections,              *)
(* exclist_parse, str2phases and get_exctype, which cut and mark the text   *)
(* as they go, compute the division into blocks, sections and exceptions    *)
(* that Wanted defines by the lines alone.                                  *)
THEOREM RecordsAreAsWritten == Spec => []RecordsAsWritten
<1>1. Init => Reading /\ DivisionInv
  BY ParserStarts, DivisionStarts DEF Reading
<1>2. Reading /\ DivisionInv /\ [Next]_vars => (Reading /\ DivisionInv)'
  BY PlaceStep, PhasesStep, RecordsStep, BlockStep, DivisionStep DEF Reading
<1>3. Reading /\ DivisionInv => RecordsAsWritten
  <2> SUFFICES ASSUME Reading, DivisionInv, Finished, Lines(DOMAIN text, {"stars"}) = {}, Room
               PROVE  /\ {Given(records[i]) : i \in DOMAIN records} = Wanted(Read)
                      /\ \A i, j \in DOMAIN records : i < j =>
                            Min(Given(records[i]).lines) < Min(Given(records[j]).lines)
    BY DEF RecordsAsWritten
  <2>1. NoStars /\ pc = "record"
    BY SameKind DEF NoStars, Finished
  <2>2. Recorded(records) = WantedBefore(text, next) /\ InOrder(records, next)
    BY <2>1 DEF DivisionInv, DoneInv
  <2>3. BlocksBefore(text, next) = BlocksIn(text)
    <3>1. PICK m \in Nat : m = Len(text) /\ DOMAIN text = 1..m
      BY TextAssumption DEF Reading, PlaceInv
    <3>2. \A b \in BlocksIn(text) : b.first \in Nat /\ b.first <= m
      <4> SUFFICES ASSUME NEW b \in BlocksIn(text) PROVE b.first \in Nat /\ b.first <= m
        OBVIOUS
      <4>1. IsBlock(b) /\ b.last <= m
        BY <3>1, BlockIs
      <4>2. QED
        BY <4>1 DEF IsBlock
    <3>3. next \in Nat /\ m < next
      BY <3>1 DEF Finished, Reading, PlaceInv
    <3>4. \A b \in BlocksIn(text) : b.first < next
      BY <3>2, <3>3
    <3>5. QED
      BY <3>4 DEF BlocksBefore
  <2>4. WantedBefore(text, next) = Wanted(Read)
    BY <2>3, SameWanted DEF WantedBefore
  <2>5. QED
    BY <2>2, <2>4 DEF Recorded, InOrder
<1>4. QED
  BY <1>1, <1>2, <1>3, PTL DEF Spec
=============================================================================
