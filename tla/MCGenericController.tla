----------------------- MODULE MCGenericController -----------------------
(* Model checking instance of GenericController: workers are               *)
(* interchangeable, keys are too.                                          *)
EXTENDS GenericController, TLC

Symmetry == Permutations(Worker) \cup Permutations(Key)
=============================================================================
