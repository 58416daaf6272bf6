------------------------ MODULE MCAnalysisPipeline ------------------------
(***************************************************************************)
(* AnalysisPipeline for TLC.  Jobs and the workers of a stage are          *)
(* interchangeable; the symmetry is used by the safety runs only.          *)
(***************************************************************************)
EXTENDS AnalysisPipeline, TLC

Symmetry == Permutations(Job) \cup Permutations(Surgeons)
            \cup Permutations(Sandboxes) \cup Permutations(Analysts)

=============================================================================
