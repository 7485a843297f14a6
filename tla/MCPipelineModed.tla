------------------------- MODULE MCPipelineModed -------------------------
(***************************************************************************)
(* MCPipeline over a background with an input mode.                        *)
(***************************************************************************)
EXTENDS MCPipeline

(* A moded q, and a background where only the triangle tells 1 from 4.     *)
Triangle == {<<1, 2>>, <<1, 3>>, <<3, 2>>, <<4, 5>>, <<5, 6>>}

ModedTriangle == [OneOfQ EXCEPT !.maxBody = 3, !.modes = [q |-> <<"in", "out">>]]

MCModedBiases == {ModedTriangle}

MCModedProblem ==
  Problems(ModedTriangle,
           {Ask({T(1)}, {T(4)}, b, learner) : b \in Backgrounds({{}}, {Triangle}), learner \in BOOLEAN})

(* "When the bias declares input modes, too_specific is therefore disabled *)
(* to stay sound; the other three are unaffected." (constrain.js)          *)
RedundantIsUnaffectedByModes ==
  pc = "exhausted" => \A i \in Index(problem) : ~Solution(problem, i)

=============================================================================
