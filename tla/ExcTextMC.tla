------------------------------- MODULE ExcTextMC ------------------------------
(* Instances of ExcText for TLC. *)
EXTENDS ExcText

UpTo(n, K) == UNION {[1..m -> K] : m \in 1..n}

(* Blocks: marks and times of records around an exception. *)
RecordLines  == {"begin", "bare", "endrec", "time", "used", "blank", "plain", "exc"}
(* Exceptions: titles, sections and ends of exceptions. *)
SectionLines == {"dash", "regend", "track", "end", "plain"} \cup Markers

(* Whole exceptions, to be followed by others. *)
Pieces == {<<"exc", "dash", "plain", "end">>,
           <<"plain", "deadlock", "regend", "plain", "track", "dash", "end">>,
           <<"dash", "deadloop", "regend", "track", "plain">>,
           <<"begin", "time">>}
TwoPieces == {p \o q : p, q \in Pieces}

(* Exceptions that end with a line of stars. *)
StarTexts  == UpTo(4, {"exc", "dash", "stars", "plain"})

ShortTexts == UpTo(5, RecordLines) \cup UpTo(5, SectionLines) \cup
              {p \o q : p \in Pieces, q \in TwoPieces} \cup StarTexts
=============================================================================
