--------------------------- MODULE MCTinkerEngine ---------------------------
(* TinkerEngine for TLC: clients that wait and send everything; clients    *)
(* that do not wait, and either train and sample or load what they saved.  *)
EXTENDS TinkerEngine
Sampling == {"create", "forward_backward", "optim_step", "save_sampler", "sample"}
Loading == {"create", "forward_backward", "save", "load"}
MCKinds == Sampling \cup Loading
MCClients == {[waits |-> TRUE, kinds |-> MCKinds],
              [waits |-> FALSE, kinds |-> Sampling],
              [waits |-> FALSE, kinds |-> Loading]}
=============================================================================
