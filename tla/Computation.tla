----------------------------- MODULE Computation -----------------------------
(***************************************************************************)
(* What a durable record promises to everyone who declares the same        *)
(* computation, whoever they are and however many crash: the work runs at  *)
(* most once at a time, its result is decided once, and it never runs      *)
(* again after that.  AttemptRecord implements this specification.         *)
(***************************************************************************)
CONSTANT Result     \* what may be decided; "none" until then

VARIABLES
    executing,      \* a job of this computation is running
    result          \* the result every later request is served

Init == executing = FALSE /\ result = "none"

\* Work starts only while nothing runs and nothing is decided.
Execute ==
    /\ ~executing /\ result = "none"
    /\ executing' = TRUE
    /\ UNCHANGED result

\* The work ends, by itself or because it was killed.
End ==
    /\ executing
    /\ executing' = FALSE
    /\ UNCHANGED result

\* The result is decided once, and not while the work still runs.
Stand(o) ==
    /\ ~executing /\ result = "none"
    /\ result' = o
    /\ UNCHANGED executing

Next == Execute \/ End \/ \E o \in Result : Stand(o)

Spec == Init /\ [][Next]_<<executing, result>>
=============================================================================
