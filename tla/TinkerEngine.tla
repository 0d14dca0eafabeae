---------------------------- MODULE TinkerEngine ----------------------------
(***************************************************************************)
(* The training service of SkyRL/skyrl-tx/tx/tinker: the handlers of       *)
(* api.py, which only add requests to the table of futures, and the        *)
(* process of engine.py, which polls that table: four queries, each of     *)
(* which sees the table as it is then, a batch of forward_backward         *)
(* requests, a batch of samples, and the other requests one by one.        *)
(*                                                                         *)
(* Gradients are how often each forward_backward request has been added to *)
(* them, and weights the sequence of the gradients they were updated with. *)
(* Futures are numbered as they are inserted, as request_id is.            *)
(***************************************************************************)
EXTENDS Integers, Sequences

CONSTANTS MaxModels,         \* bound on the model ids, numbered as they are given out
          Names,             \* names of checkpoints
          Kinds,             \* the kinds of requests tried
          Clients,           \* the clients tried: whether they wait, see MaySend, and
                             \* the kinds of requests they send
          MaxAdapters,       \* max_lora_adapters, slot 0 being the base model's
          MaxRequests, MaxFaults, \* bounds, faults and crashes counted together
          None

ASSUME TinkerEngineAssumption ==
    /\ {MaxModels, MaxRequests, MaxFaults} \subseteq Nat /\ MaxAdapters \in Nat \ {0}
    /\ Kinds \subseteq {"create", "forward_backward", "optim_step", "save", "save_sampler",
                        "load", "sample"}
    /\ Clients \subseteq [waits : BOOLEAN, kinds : SUBSET Kinds]
    /\ None \notin Names

VARIABLES
    client,   \* what the clients send, and how
    futures,  \* FutureDB: kind, model, name and status of each request
    rows,     \* CheckpointDB and the archives: status and weights by model, name and kind
    pc,       \* where process_pending_requests is
    found,    \* what the queries of this cycle have returned
    results,  \* outcomes that are not written to the table yet
    adapter,  \* models: the slot of each model that is loaded
    optimizers, \* the loaded models that have an optimizer
    params,   \* the weights in each slot
    grads,    \* accumulated_grads of each loaded model
    sampler,  \* loaded_checkpoint_id of each loaded model
    answers,  \* history: the weights each sample was drawn from
    faults,   \* batches, requests and engines that have failed
    lapses,   \* history: what has cost a model its place in the order
    doubtful  \* history: the requests whose gradients a failing optim_step has applied

table == <<futures, rows>>
engine == <<adapter, optimizers, params, grads, sampler>>
history == <<answers, lapses, doubtful>>
vars == <<client, table, pc, found, results, engine, faults, history>>

Models == 1 .. MaxModels
Requests == 1 .. MaxRequests
Destructive == {"optim_step", "load"}
Saves == {"save", "save_sampler"}
Batched == {"forward_backward", "sample"}
Pending(i) == futures[i].status = "pending"
Slots == 0 .. MaxAdapters - 1
EmptyFn == [x \in {} |-> None]
Put(f, x, y) == [z \in DOMAIN f \cup {x} |-> IF z = x THEN y ELSE f[z]]
NoGrads == [i \in Requests |-> 0]
NothingFound == [barriers |-> EmptyFn, forward |-> {}, sample |-> {}, other |-> {}]
NoModels == /\ adapter = EmptyFn /\ optimizers = {} /\ grads = EmptyFn /\ sampler = EmptyFn
            /\ params = [s \in Slots |-> <<>>]

Init ==
    /\ client \in Clients
    /\ futures = <<>> /\ rows = EmptyFn
    /\ pc = "barriers" /\ found = NothingFound /\ results = EmptyFn
    /\ NoModels
    /\ faults = 0
    /\ answers = EmptyFn /\ lapses = {} /\ doubtful = {}

-----------------------------------------------------------------------------
(* The handlers of the API.  A model is in ModelDB from its create_model   *)
(* on; a save is refused if its checkpoint exists, a load or a sample      *)
(* unless its checkpoint is completed.  A load names the model whose       *)
(* checkpoint it takes, too.                                               *)
Exists(m) == \E i \in DOMAIN futures : futures[i].kind = "create" /\ futures[i].model = m
Ready(m, n, kind) == <<m, n, kind>> \in DOMAIN rows /\ rows[<<m, n, kind>>].status = "completed"

Accepted(kind, m, n) ==
    CASE kind = "create" -> ~Exists(m) /\ (\A k \in 1 .. m - 1 : Exists(k)) /\ n = None
      [] kind \in {"forward_backward", "optim_step"} -> Exists(m) /\ n = None
      [] kind \in Saves -> Exists(m) /\ n \in Names /\ <<m, n, kind>> \notin DOMAIN rows
      [] kind = "load" -> Exists(m) /\ n \in Models \X Names /\ Ready(n[1], n[2], "save")
      [] kind = "sample" -> n \in Names /\ Ready(m, n, "save_sampler")

(* A client that waits sends forward_backward requests together, and any   *)
(* other request of a model when those before it are answered; one that    *)
(* does not sends when it likes.                                           *)
MaySend(kind, m) ==
    /\ kind \in client.kinds
    /\ client.waits =>
        \A i \in DOMAIN futures : Pending(i) /\ futures[i].model = m =>
            kind = "forward_backward" /\ futures[i].kind = "forward_backward"

Send(kind, m, n) ==
    /\ Len(futures) < MaxRequests /\ Accepted(kind, m, n) /\ MaySend(kind, m)
    /\ futures' = Append(futures, [kind |-> kind, model |-> m, name |-> n, status |-> "pending"])
    /\ rows' = IF kind \in Saves
               THEN Put(rows, <<m, n, kind>>, [status |-> "pending", holds |-> <<>>])
               ELSE rows
    /\ UNCHANGED <<client, pc, found, results, engine, faults, history>>

-----------------------------------------------------------------------------
(* The queries.  A barrier is the first pending destructive request of a   *)
(* model.                                                                  *)
PendingOf(kinds) == {i \in DOMAIN futures : Pending(i) /\ futures[i].kind \in kinds}
First(s) == CHOOSE i \in s : \A j \in s : i <= j

FindBarriers ==
    /\ pc = "barriers" /\ pc' = "forward"
    /\ LET ofModel(m) == {i \in PendingOf(Destructive) : futures[i].model = m} IN
       found' = [NothingFound EXCEPT !.barriers =
                    [m \in {futures[i].model : i \in PendingOf(Destructive)} |-> First(ofModel(m))]]
    /\ UNCHANGED <<client, table, results, engine, faults, history>>

(* Mutant: no look-ahead.                                                  *)
NoBarrier(i) == TRUE

BeforeBarrier(i) ==
    futures[i].model \in DOMAIN found.barriers => i < found.barriers[futures[i].model]

FindForwardBackward ==
    /\ pc = "forward" /\ pc' = "sample"
    /\ found' = [found EXCEPT !.forward = {i \in PendingOf({"forward_backward"}) : BeforeBarrier(i)}]
    /\ UNCHANGED <<client, table, results, engine, faults, history>>

(* Of the samples of a model, those of the checkpoint of the first.        *)
Batchable(i, all) ==
    LET same == {j \in all : futures[j].model = futures[i].model}
    IN  futures[First(same)].name = futures[i].name

FindSample ==
    /\ pc = "sample" /\ pc' = "other"
    /\ LET all == PendingOf({"sample"}) IN
       found' = [found EXCEPT !.sample = {i \in all : Batchable(i, all)}]
    /\ UNCHANGED <<client, table, results, engine, faults, history>>

(* Mutant: the samples that were found are batched again and again.        *)
SampleAgain(f, stages) ==
    IF "forward" \in stages /\ f.forward # {} THEN "run_forward"
    ELSE IF f.sample # {} THEN "run_sample"
    ELSE IF f.other # {} THEN "run_other" ELSE "barriers"

(* What of the found requests is handled next; nothing is done for none.   *)
ToRun(f, stages) ==
    IF "forward" \in stages /\ f.forward # {} THEN "run_forward"
    ELSE IF "sample" \in stages /\ f.sample # {} THEN "run_sample"
    ELSE IF f.other # {} THEN "run_other" ELSE "barriers"

FindOther ==
    /\ pc = "other"
    /\ found' = [found EXCEPT !.other = PendingOf(Kinds \ Batched)]
    /\ pc' = ToRun(found', {"forward", "sample", "other"})
    /\ UNCHANGED <<client, table, results, engine, faults, history>>

-----------------------------------------------------------------------------
(* The batches.  A request whose model is not loaded fails; an exception   *)
(* fails all requests of the batch, also those whose gradients have been   *)
(* accumulated by an earlier micro-batch.                                  *)
Loaded(i) == futures[i].model \in DOMAIN adapter
Fault == faults < MaxFaults /\ faults' = faults + 1
Outcome(ids, good) == [i \in ids |-> IF i \in good THEN "completed" ELSE "failed"]

(* _complete_futures, called with the results of a batch, and with those   *)
(* of the other requests when none of them is left.                        *)
Left == found.other \ DOMAIN results
Written(res) == [i \in DOMAIN futures |->
                    IF i \in DOMAIN res THEN [futures[i] EXCEPT !.status = res[i]] ELSE futures[i]]

(* A request that comes before an earlier one of its model.  The barriers  *)
(* keep a forward_backward from it, unless the model had none at the time. *)
Overtakes(i, kinds) ==
    \E j \in PendingOf(kinds) : j < i /\ futures[j].model = futures[i].model
Unforeseen(i) == futures[i].model \notin DOMAIN found.barriers /\ Overtakes(i, Destructive)
LapseIf(cond, what) == IF cond THEN {what} ELSE {}

Accumulated(done) ==
    [m \in DOMAIN grads |->
        [i \in Requests |-> IF i \in done /\ futures[i].model = m THEN grads[m][i] + 1
                            ELSE grads[m][i]]]

ForwardBackward ==
    /\ pc = "run_forward" /\ pc' = "complete_forward"
    /\ LET valid == {i \in found.forward : Loaded(i)} IN
       \/ /\ grads' = Accumulated(valid)
          /\ results' = Outcome(found.forward, valid)
          /\ lapses' = lapses \cup LapseIf(\E i \in valid : Unforeseen(i), "overtaken")
          /\ UNCHANGED faults
       \/ /\ valid # {} /\ Fault
          /\ \E n \in {0} \cup valid :
                LET done == {i \in valid : i <= n} IN
                /\ grads' = Accumulated(done)
                /\ lapses' = lapses \cup LapseIf(done # {}, "left over")
          /\ results' = Outcome(found.forward, {})
    /\ UNCHANGED <<client, table, found, adapter, optimizers, params, sampler, answers, doubtful>>

Complete ==
    /\ \/ pc = "complete_forward" /\ pc' = ToRun(found, {"sample", "other"})
       \/ pc = "complete_sample" /\ pc' = ToRun(found, {"other"})
       \/ pc = "run_other" /\ Left = {} /\ pc' = "barriers"
    /\ found' = IF pc' = "barriers" THEN NothingFound ELSE found
    /\ futures' = Written(results) /\ results' = EmptyFn
    /\ UNCHANGED <<client, rows, engine, faults, history>>

(* load_sampler_weights: the checkpoint goes into the slot of the model,   *)
(* where its training weights are, unless it was the last to go there.     *)
Named(i) ==
    LET f == futures[i] IN
    IF f.kind = "load" THEN rows[<<f.name[1], f.name[2], "save">>].holds
    ELSE rows[<<f.model, f.name, "save_sampler">>].holds

(* Mutant: whatever a slot holds is taken for the checkpoint.              *)
AlwaysInRAM(i) == TRUE

InRAM(i) == sampler[futures[i].model] = futures[i].name
SlotOf(i) == adapter[futures[i].model]

Sample ==
    /\ pc = "run_sample" /\ pc' = "complete_sample"
    /\ LET valid == {i \in found.sample : Loaded(i)}
           toLoad == {i \in valid : ~InRAM(i)}
           after(ids) == [s \in Slots |-> IF \E i \in ids : SlotOf(i) = s
                                          THEN Named(CHOOSE i \in ids : SlotOf(i) = s)
                                          ELSE params[s]]
           got(ids) == [m \in DOMAIN sampler |-> IF \E i \in ids : futures[i].model = m
                                  THEN futures[CHOOSE i \in ids : futures[i].model = m].name
                                  ELSE sampler[m]]
           load(ids) == /\ params' = after(ids) /\ sampler' = got(ids)
                        /\ lapses' = lapses \cup LapseIf(after(ids) # params, "overwritten")
       IN
       \/ /\ load(toLoad) /\ results' = Outcome(found.sample, valid)
          /\ answers' = [i \in DOMAIN answers \cup valid |->
                            IF i \in valid THEN after(toLoad)[SlotOf(i)] ELSE answers[i]]
          /\ UNCHANGED faults
       \/ /\ valid # {} /\ Fault
          /\ \E n \in {0} \cup toLoad : load({i \in toLoad : i <= n})
          /\ results' = Outcome(found.sample, {})
          /\ UNCHANGED answers
    /\ UNCHANGED <<client, table, found, adapter, optimizers, grads, doubtful>>

-----------------------------------------------------------------------------
(* The other requests, in their order; their outcomes are written when the *)
(* last of them is done.                                                   *)
Result(i, outcome) == results' = Put(results, i, outcome)
Turn(i, kind) == /\ pc = "run_other" /\ Left # {} /\ i = First(Left)
                 /\ futures[i].kind = kind /\ UNCHANGED <<pc, found>>

(* The slot after the last one in use, if there is one; a request that is  *)
(* not valid takes none.                                                   *)
NextSlot(slot) ==
    /\ \A m \in DOMAIN adapter : adapter[m] < slot
    /\ slot = 1 \/ \E m \in DOMAIN adapter : adapter[m] = slot - 1

(* An exception after the model is registered leaves it loaded, with or    *)
(* without its optimizer.                                                  *)
CreateModel(i) ==
    /\ Turn(i, "create")
    /\ LET m == futures[i].model IN
       \/ \E slot \in Slots \ {0} :
             /\ NextSlot(slot) /\ adapter' = Put(adapter, m, slot)
             /\ grads' = Put(grads, m, NoGrads) /\ sampler' = Put(sampler, m, None)
             /\ \/ /\ optimizers' = optimizers \cup {m}
                   /\ Result(i, "completed") /\ UNCHANGED faults
                \/ /\ optimizers' \in {optimizers, optimizers \cup {m}}
                   /\ Result(i, "failed") /\ Fault
       \/ /\ IF \E slot \in Slots \ {0} : NextSlot(slot) THEN Fault ELSE UNCHANGED faults
          /\ Result(i, "failed") /\ UNCHANGED <<adapter, optimizers, grads, sampler>>
    /\ UNCHANGED <<client, table, params, history>>

NotLoaded(i) ==
    /\ \E kind \in Destructive \cup Saves : Turn(i, kind)
    /\ ~Loaded(i) /\ Result(i, "failed")
    /\ lapses' = lapses \cup {"not loaded"}
    /\ UNCHANGED <<client, table, engine, faults, answers, doubtful>>

(* Mutant: the accumulated gradients stay.                                 *)
KeptGrads(g) == g

Reset(g) == NoGrads
Stale(m) == LapseIf(sampler[m] # None, "stale")
Applied(m) == params' = [params EXCEPT ![adapter[m]] = Append(@, grads[m])]

(* The optimizer is asked for after the gradients are.  What raises after  *)
(* the update leaves the gradients accumulated that were applied.          *)
Stepped(i, m) ==
    /\ IF grads[m] = NoGrads THEN UNCHANGED <<params, grads>>
       ELSE m \in optimizers /\ Applied(m) /\ grads' = [grads EXCEPT ![m] = Reset(@)]
    /\ lapses' = lapses \cup LapseIf(Overtakes(i, {"forward_backward"}), "overtaken") \cup Stale(m)
    /\ Result(i, "completed") /\ UNCHANGED <<faults, doubtful>>
NotStepped(i, m) ==
    /\ IF grads[m] # NoGrads /\ m \notin optimizers THEN UNCHANGED faults ELSE Fault
    /\ Result(i, "failed") /\ UNCHANGED <<params, grads, lapses, doubtful>>
SteppedAndFailed(i, m) ==
    /\ grads[m] # NoGrads /\ m \in optimizers /\ Applied(m) /\ UNCHANGED grads
    /\ doubtful' = doubtful \cup {j \in Requests : grads[m][j] > 0}
    /\ lapses' = lapses \cup {"broken off"} \cup Stale(m)
    /\ Fault /\ Result(i, "failed")

OptimStep(i) ==
    /\ Turn(i, "optim_step") /\ Loaded(i)
    /\ LET m == futures[i].model IN Stepped(i, m) \/ NotStepped(i, m) \/ SteppedAndFailed(i, m)
    /\ UNCHANGED <<client, table, adapter, optimizers, sampler, answers>>

(* The weights are in their slot before the state of the optimizer is.     *)
LoadWeights(i) ==
    /\ Turn(i, "load") /\ Loaded(i)
    /\ LET m == futures[i].model IN
       \/ /\ params' = [params EXCEPT ![adapter[m]] = Named(i)]
          /\ lapses' = lapses \cup {"loaded"} \cup Stale(m)
          /\ \/ m \in optimizers /\ Result(i, "completed") /\ UNCHANGED faults
             \/ m \in optimizers /\ Result(i, "failed") /\ Fault
             \/ m \notin optimizers /\ Result(i, "failed") /\ UNCHANGED faults
       \/ Fault /\ Result(i, "failed") /\ UNCHANGED <<params, lapses>>
    /\ UNCHANGED <<client, table, adapter, optimizers, grads, sampler, answers, doubtful>>

(* _checkpoint_status_context sets the status of the row either way.       *)
(* Mutant: an exception leaves the row as the API has made it.             *)
OnlyIfSaved(status, weights) ==
    [status |-> IF status = "failed" THEN "pending" ELSE status, holds |-> weights]

SavedRow(status, weights) == [status |-> status, holds |-> weights]
SaveWeights(i) ==
    /\ \E kind \in Saves : Turn(i, kind)
    /\ Loaded(i)
    /\ LET f == futures[i]
           row(status, w) == rows' = [rows EXCEPT ![<<f.model, f.name, f.kind>>] = SavedRow(status, w)]
           complete == f.kind = "save" => f.model \in optimizers
       IN  \/ /\ complete /\ row("completed", params[adapter[f.model]])
              /\ Result(i, "completed") /\ UNCHANGED faults
           \/ /\ IF complete THEN Fault ELSE UNCHANGED faults
              /\ row("failed", <<>>) /\ Result(i, "failed")
    /\ UNCHANGED <<client, futures, engine, history>>

(* The engine dies and is started again with the API: what it had in       *)
(* memory is gone, the tables and the archives are not.                    *)
Crash ==
    /\ Fault
    /\ pc' = "barriers" /\ found' = NothingFound /\ results' = EmptyFn
    /\ adapter' = EmptyFn /\ optimizers' = {} /\ grads' = EmptyFn /\ sampler' = EmptyFn
    /\ params' = [s \in Slots |-> <<>>]
    /\ lapses' = lapses \cup {"crashed"}
    /\ UNCHANGED <<client, table, answers, doubtful>>

Sends ==
    \E kind \in Kinds, m \in Models :
        \E n \in Names \cup {None} \cup (Models \X Names) : Send(kind, m, n)
Work ==
    \/ FindBarriers \/ FindForwardBackward \/ FindSample \/ FindOther
    \/ ForwardBackward \/ Sample \/ Complete
    \/ \E i \in DOMAIN futures :
          CreateModel(i) \/ NotLoaded(i) \/ OptimStep(i) \/ LoadWeights(i) \/ SaveWeights(i)

Next == Sends \/ Work \/ Crash

(* The loop of the engine goes on.                                         *)
Spec == Init /\ [][Next]_vars /\ WF_vars(Work)

-----------------------------------------------------------------------------
Outcomes == {"completed", "failed"}
RequestsOf(kinds) == {i \in DOMAIN futures : futures[i].kind \in kinds}
Gradients == [Requests -> Nat]
Futures == [kind : Kinds, model : Models, status : {"pending"} \cup Outcomes,
            name : Names \cup {None} \cup (Models \X Names)]
Rows == [status : {"pending"} \cup Outcomes, holds : Seq(Gradients)]

(* The values of the tables and of the memory of the engine: every loaded  *)
(* model has a slot of its own, and not the base model's; what is found,   *)
(* and what has an outcome, is a request in the table.                     *)
TypeOK ==
    /\ client \in Clients
    /\ futures \in Seq(Futures)
    /\ Len(futures) <= MaxRequests
    /\ DOMAIN rows \subseteq Models \X Names \X Saves
    /\ rows \in [DOMAIN rows -> Rows]
    /\ pc \in {"barriers", "forward", "sample", "other", "run_forward", "complete_forward",
              "run_sample", "complete_sample", "run_other"}
    /\ found \in [barriers : {found.barriers},
                  forward : SUBSET RequestsOf({"forward_backward"}),
                  sample : SUBSET RequestsOf({"sample"}),
                  other : SUBSET RequestsOf(Kinds \ Batched)]
    /\ DOMAIN results \subseteq DOMAIN futures /\ results \in [DOMAIN results -> Outcomes]
    /\ DOMAIN adapter \subseteq Models /\ adapter \in [DOMAIN adapter -> Slots \ {0}]
    /\ \A m, k \in DOMAIN adapter : adapter[m] = adapter[k] => m = k
    /\ optimizers \subseteq DOMAIN adapter
    /\ params \in [Slots -> Seq(Gradients)]
    /\ grads \in [DOMAIN adapter -> Gradients]
    /\ sampler \in [DOMAIN adapter -> Names \cup {None}]
    /\ faults \in 0 .. MaxFaults /\ doubtful \subseteq Requests

(* Whatever is batched, fails, is loaded or repeated after a crash, no     *)
(* request's gradient is taken twice, in one update or in two, but one     *)
(* that an optim_step applied and did not get to drop: only what fails     *)
(* after the update counts again in the next.                              *)
GradientsOnce ==
    \A m \in DOMAIN adapter, i \in Requests \ doubtful :
        LET w == params[adapter[m]] IN
        /\ grads[m][i] <= 1
        /\ \A k \in DOMAIN w : w[k][i] + grads[m][i] <= 1
        /\ \A k, l \in DOMAIN w : k # l => w[k][i] + w[l][i] <= 1

(* The updates that the table of futures stands for when the requests of a *)
(* model are carried out in their order.                                   *)
Done(i, kind, m) ==
    futures[i].kind = kind /\ futures[i].model = m /\
    (IF i \in DOMAIN results THEN results[i] = "completed" ELSE futures[i].status = "completed")
InOrder(m) ==
    LET steps == {i \in DOMAIN futures : Done(i, "optim_step", m)}
        took(i) == {j \in 1 .. i : /\ Done(j, "forward_backward", m)
                                   /\ \A k \in steps : k < i => k < j}
    IN  {took(i) : i \in steps} \ {{}}

(* As long as nothing has overtaken, broken off or been written over, a    *)
(* model has been through one update per optim_step, of the gradients      *)
(* requested since the one before it, however the requests were batched    *)
(* with those of other models; and a client that waits is never overtaken. *)
StepsInOrder ==
    /\ client.waits => "overtaken" \notin lapses
    /\ lapses = {} => \A m \in DOMAIN adapter :
           LET w == params[adapter[m]]
               taken(k) == {j \in Requests : w[k][j] > 0}
           IN  {taken(k) : k \in DOMAIN w} = InOrder(m)

(* A sample is drawn from the weights of the checkpoint it names, unless   *)
(* its model has been trained since that checkpoint was put in its slot.   *)
SampledAsNamed ==
    "stale" \notin lapses =>
        \A i \in DOMAIN answers : answers[i] = Named(i)

(* A row that is pending has a save that is still to come, so that no      *)
(* client waits for a checkpoint that nobody makes, unless the engine has  *)
(* lost its models or never had the one to save.                           *)
CheckpointsSettle ==
    lapses \cap {"crashed", "not loaded"} = {} =>
        \A k \in DOMAIN rows : rows[k].status = "pending" =>
            \E i \in DOMAIN futures : Pending(i) /\ futures[i].kind = k[3]
                                      /\ futures[i].model = k[1] /\ futures[i].name = k[2]

(* Every request is answered, also when its batch fails, its model is not  *)
(* loaded or the engine has died over it.                                  *)
AllAnswered == <>[](\A i \in DOMAIN futures : ~Pending(i))
=============================================================================
