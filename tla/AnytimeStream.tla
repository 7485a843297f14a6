--------------------------- MODULE AnytimeStream ---------------------------
(***************************************************************************)
(* What an anytime search promises the consumer of its steps               *)
(* (src/engine/synthesize.js, header and search()): while the stream is    *)
(* open the best-so-far only ever gets strictly better, it ends once, in   *)
(* one way, and nothing changes after its end.  Search implements it, and  *)
(* each job of JobServer shows its readers such a stream.                  *)
(***************************************************************************)
EXTENDS Integers

CONSTANT NoScore   \* the best-so-far before the first improvement

VARIABLES status, best

Better(s) == s \in Int /\ (best \in Int => s > best)

Init == status = "open" /\ best = NoScore

Improve ==
  /\ status = "open"
  /\ Better(best')
  /\ UNCHANGED status

(* The terminal step may itself carry a better program.                    *)
Finish ==
  /\ status = "open"
  /\ status' = "done"
  /\ Better(best') \/ UNCHANGED best

Abandon ==
  /\ status = "open"
  /\ status' \in {"failed", "left"}
  /\ UNCHANGED best

Next == Improve \/ Finish \/ Abandon

Spec == Init /\ [][Next]_<<status, best>>

=============================================================================
