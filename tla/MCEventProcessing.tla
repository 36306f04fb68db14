------------------------- MODULE MCEventProcessing -------------------------
(* Finite instances of EventProcessing: model values for ids and processes *)
(* come from the .cfg files.                                               *)
EXTENDS EventProcessing, TLC

(* Ids of one kind are interchangeable.                                    *)
Interchangeable ==
    Permutations(Events) \cup Permutations(WorkerSlots) \cup Permutations(WebCalls)
============================================================================
