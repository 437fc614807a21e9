-------------------------- MODULE MCAnalysisEngine --------------------------
(* Model-checking AnalysisEngine.                                            *)
EXTENDS AnalysisEngine
=============================================================================
