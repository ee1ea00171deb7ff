-------------------------------- MODULE ExcApi --------------------------------
(***************************************************************************)
(* What the library promises the caller of Exc_Load and Exc_Release        *)
(* (include/exc_parse.h), stated without any of its internals: a call      *)
(* either returns 0 and shows documents whose files are all on disk and    *)
(* belong to exactly one document, or it returns an error and shows        *)
(* nothing.  Between two calls nothing the caller can see changes.         *)
(***************************************************************************)
CONSTANTS Path,      (* names of the files the library may create           *)
          Errors     (* error codes Exc_Load may return                     *)

VARIABLES busy,      (* a call of the library is running                    *)
          shown,     (* the documents in the caller's struct ExcList: sets  *)
                     (* of paths, one set for each struct ExcListItem       *)
          readable,  (* paths whose file holds the text of its document     *)
          ret        (* what the last Exc_Load returned                     *)

apiVars == <<busy, shown, readable, ret>>

-----------------------------------------------------------------------------
Init ==
    /\ busy = FALSE
    /\ shown = {}
    /\ readable = {}
    /\ ret = 0

(* Exc_Load is called with an empty struct ExcList. *)
Load ==
    /\ ~busy
    /\ shown = {}
    /\ busy' = TRUE
    /\ ret' = 0
    /\ UNCHANGED <<shown, readable>>

(* Exc_Load returns 0: at least the summary is shown, no two documents      *)
(* share a file, and every file of a shown document can be opened.          *)
LoadOk ==
    /\ busy
    /\ busy' = FALSE
    /\ ret' = 0
    /\ shown' # {}
    /\ \A d \in shown' : d # {} /\ d \subseteq Path
    /\ \A d, e \in shown' : d # e => d \cap e = {}
    /\ readable' = UNION shown'

(* Exc_Load returns an error code, and the caller has nothing to release.   *)
LoadFail ==
    /\ busy
    /\ busy' = FALSE
    /\ ret' \in Errors
    /\ shown' = shown
    /\ readable' = readable

(* Exc_Load rejects its arguments at once. *)
LoadReject ==
    /\ ~busy
    /\ shown = {}
    /\ ret' \in Errors
    /\ UNCHANGED <<busy, shown, readable>>

(* Exc_Release withdraws every document. *)
Release ==
    /\ ~busy
    /\ shown # {}
    /\ shown' = {}
    /\ readable' = {}
    /\ UNCHANGED <<busy, ret>>

Next == Load \/ LoadOk \/ LoadFail \/ LoadReject \/ Release

Spec == Init /\ [][Next]_apiVars
=============================================================================
