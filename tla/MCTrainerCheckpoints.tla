------------------------ MODULE MCTrainerCheckpoints ------------------------
(* TrainerCheckpoints for TLC: two epochs of two batches, three starts,    *)
(* and five trainers: one that refreshes its reference model, one that     *)
(* keeps only the newest folder, one that pauses, one that samples         *)
(* dynamically and the asynchronous one.                                   *)
EXTENDS TrainerCheckpoints
Plain == [asynch |-> FALSE, samples |-> 1, refresh |-> FALSE,
          interval |-> 1, keep |-> -1, pause |-> -1]
MCConfigs == {[Plain EXCEPT !.refresh = TRUE],
              [Plain EXCEPT !.keep = 1, !.interval = 2],
              [Plain EXCEPT !.pause = 3, !.interval = 2],
              [Plain EXCEPT !.samples = 2, !.interval = 2],
              [Plain EXCEPT !.asynch = TRUE, !.keep = 1]}
=============================================================================
