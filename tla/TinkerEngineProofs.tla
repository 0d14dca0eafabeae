------------------------- MODULE TinkerEngineProofs -------------------------
(***************************************************************************)
(* What the training service keeps for any number of models, checkpoints,  *)
(* requests and failures.                                                  *)
(***************************************************************************)
EXTENDS TinkerEngine, SequenceTheorems, TLAPS

(* A checkpoint that a request names is in the table.                      *)
NamesKnown ==
    \A i \in DOMAIN futures :
        /\ futures[i].kind = "load" =>
              /\ futures[i].name \in Models \X Names
              /\ <<futures[i].name[1], futures[i].name[2], "save">> \in DOMAIN rows
        /\ futures[i].kind = "sample" =>
              /\ futures[i].name \in Names
              /\ <<futures[i].model, futures[i].name, "save_sampler">> \in DOMAIN rows

EngineOK == TypeOK /\ NamesKnown

(* No gradients are gradients.                                             *)
LEMMA NoGradsIsGradients == NoGrads \in Gradients
  BY DEF NoGrads, Gradients

(* Requests are numbered from 1 and are records of the table.              *)
LEMMA FuturesIndexed ==
  ASSUME TypeOK
  PROVE  /\ DOMAIN futures = 1 .. Len(futures) /\ Len(futures) \in Nat
         /\ DOMAIN futures \subseteq Requests
         /\ \A i \in DOMAIN futures : futures[i] \in Futures
  <1>1. DOMAIN futures = 1 .. Len(futures) /\ Len(futures) \in Nat
    BY DEF TypeOK
  <1>q. QED
    BY <1>1, TinkerEngineAssumption DEF TypeOK, Requests

(* Writing outcomes changes nothing of a request but its status.           *)
LEMMA WrittenIsTable ==
  ASSUME TypeOK
  PROVE  /\ Written(results) \in Seq(Futures) /\ Len(Written(results)) = Len(futures)
         /\ DOMAIN Written(results) = DOMAIN futures
         /\ \A i \in DOMAIN futures :
               LET f == Written(results)[i] IN
               /\ f.kind = futures[i].kind /\ f.model = futures[i].model /\ f.name = futures[i].name
               /\ i \in DOMAIN results => f.status = results[i]
               /\ i \notin DOMAIN results => f = futures[i]
  <1> DEFINE new(i) == IF i \in DOMAIN results THEN [futures[i] EXCEPT !.status = results[i]]
                       ELSE futures[i]
  <1>1. ASSUME NEW i \in DOMAIN futures
        PROVE  /\ new(i) \in Futures
               /\ new(i).kind = futures[i].kind /\ new(i).model = futures[i].model
               /\ new(i).name = futures[i].name
               /\ i \in DOMAIN results => new(i).status = results[i]
               /\ i \notin DOMAIN results => new(i) = futures[i]
    <2>1. futures[i] \in Futures
      BY FuturesIndexed
    <2>2. i \in DOMAIN results => results[i] \in Outcomes
      BY DEF TypeOK
    <2>q. QED
      BY <2>1, <2>2 DEF Futures, Outcomes
  <1>2. Written(results) = [i \in 1 .. Len(futures) |-> new(i)]
    BY FuturesIndexed DEF Written
  <1>3. Written(results) \in Seq(Futures)
    BY <1>1, <1>2, FuturesIndexed
  <1>q. QED
    BY <1>1, <1>2, <1>3, FuturesIndexed

-----------------------------------------------------------------------------
(* The values at the start.                                                *)
LEMMA EngineInit == Init => EngineOK
  <1> SUFFICES ASSUME Init PROVE EngineOK
    OBVIOUS
  <1> USE TinkerEngineAssumption
  <1>1. futures = <<>> /\ DOMAIN futures = {} /\ futures \in Seq(Futures) /\ Len(futures) = 0
    BY DEF Init
  <1>2. /\ rows = EmptyFn /\ results = EmptyFn /\ adapter = EmptyFn /\ grads = EmptyFn /\ sampler = EmptyFn
        /\ DOMAIN EmptyFn = {} /\ params = [s \in Slots |-> <<>>]
    BY DEF Init, NoModels, EmptyFn
  <1>0. optimizers = {} /\ doubtful = {}
    BY DEF Init, NoModels
  <1>3. found \in [barriers : {found.barriers}, forward : SUBSET RequestsOf({"forward_backward"}),
                   sample : SUBSET RequestsOf({"sample"}), other : SUBSET RequestsOf(Kinds \ Batched)]
    BY DEF Init, NothingFound
  <1>4. /\ DOMAIN rows \subseteq Models \X Names \X Saves /\ rows \in [DOMAIN rows -> Rows]
        /\ DOMAIN results \subseteq DOMAIN futures /\ results \in [DOMAIN results -> Outcomes]
    BY <1>1, <1>2
  <1>5. /\ DOMAIN adapter \subseteq Models /\ adapter \in [DOMAIN adapter -> Slots \ {0}]
        /\ \A m, k \in DOMAIN adapter : adapter[m] = adapter[k] => m = k
        /\ grads \in [DOMAIN adapter -> Gradients]
        /\ sampler \in [DOMAIN adapter -> Names \cup {None}]
    BY <1>2
  <1>6. params \in [Slots -> Seq(Gradients)] /\ faults \in 0 .. MaxFaults /\ Len(futures) <= MaxRequests
    BY <1>1, <1>2 DEF Init
  <1>7. TypeOK
    BY <1>0, <1>1, <1>3, <1>4, <1>5, <1>6 DEF TypeOK, Init
  <1>q. QED
    BY <1>1, <1>7 DEF EngineOK, NamesKnown

(* Requests are only added, and those found stay requests of their kind.   *)
LEMMA SendKeepsType ==
  ASSUME EngineOK, NEW kind \in Kinds, NEW m \in Models,
         NEW n \in Names \cup {None} \cup (Models \X Names), Send(kind, m, n)
  PROVE  EngineOK'
  <1> USE TinkerEngineAssumption
  <1> DEFINE new == [kind |-> kind, model |-> m, name |-> n, status |-> "pending"]
             k == <<m, n, kind>>
  <1>1. /\ TypeOK /\ NamesKnown /\ futures' = Append(futures, new) /\ Accepted(kind, m, n)
        /\ Len(futures) < MaxRequests
        /\ UNCHANGED <<client, pc, found, results, adapter, optimizers, params, grads, sampler, faults, doubtful>>
    BY DEF EngineOK, Send, engine, history
  <1>2. new \in Futures
    BY DEF Futures
  <1>3. /\ futures' \in Seq(Futures) /\ Len(futures') = Len(futures) + 1
        /\ DOMAIN futures' = DOMAIN futures \cup {Len(futures) + 1}
        /\ \A i \in DOMAIN futures : futures'[i] = futures[i]
        /\ futures'[Len(futures) + 1] = new
    BY <1>1, <1>2 DEF TypeOK
  <1>4. /\ DOMAIN rows \subseteq DOMAIN rows' /\ DOMAIN rows' \subseteq Models \X Names \X Saves
        /\ rows' \in [DOMAIN rows' -> Rows]
    <2>1. CASE kind \in Saves
      <3>1. rows' = Put(rows, k, [status |-> "pending", holds |-> <<>>])
        BY <2>1 DEF Send
      <3>2. n \in Names
        BY <1>1, <2>1 DEF Accepted, Saves
      <3>3. [status |-> "pending", holds |-> <<>>] \in Rows
        BY DEF Rows
      <3>q. QED
        BY <1>1, <2>1, <3>1, <3>2, <3>3 DEF Put, TypeOK
    <2>2. CASE kind \notin Saves
      BY <1>1, <2>2 DEF Send, TypeOK
    <2>q. QED
      BY <2>1, <2>2
  <1>5. \A kinds : RequestsOf(kinds) \subseteq RequestsOf(kinds)'
    BY <1>3 DEF RequestsOf
  <1>6. TypeOK'
    <2>1. found' \in [barriers : {found'.barriers}, forward : SUBSET RequestsOf({"forward_backward"})',
                      sample : SUBSET RequestsOf({"sample"})', other : SUBSET RequestsOf(Kinds \ Batched)']
      BY <1>1, <1>5 DEF TypeOK
    <2>2. Len(futures') <= MaxRequests
      BY <1>1, <1>3 DEF TypeOK
    <2>3. DOMAIN results' \subseteq DOMAIN futures' /\ results' \in [DOMAIN results' -> Outcomes]
      BY <1>1, <1>3 DEF TypeOK
    <2>q. QED
      BY <1>1, <1>3, <1>4, <2>1, <2>2, <2>3 DEF TypeOK
  <1>7. /\ kind = "load" => n \in Models \X Names /\ <<n[1], n[2], "save">> \in DOMAIN rows
        /\ kind = "sample" => n \in Names /\ <<m, n, "save_sampler">> \in DOMAIN rows
    BY <1>1 DEF Accepted, Ready, Saves
  <1>8. NamesKnown'
    <2> SUFFICES ASSUME NEW i \in DOMAIN futures'
                 PROVE  /\ futures'[i].kind = "load" =>
                              /\ futures'[i].name \in Models \X Names
                              /\ <<futures'[i].name[1], futures'[i].name[2], "save">> \in DOMAIN rows'
                        /\ futures'[i].kind = "sample" =>
                              /\ futures'[i].name \in Names
                              /\ <<futures'[i].model, futures'[i].name, "save_sampler">> \in DOMAIN rows'
      BY DEF NamesKnown
    <2>1. CASE i \in DOMAIN futures
      BY <1>1, <1>3, <1>4, <2>1 DEF NamesKnown
    <2>2. CASE i = Len(futures) + 1
      <3>1. futures'[i].kind = kind /\ futures'[i].name = n /\ futures'[i].model = m
        BY <1>3, <2>2
      <3>q. QED
        BY <1>4, <1>7, <3>1
    <2>q. QED
      BY <1>3, <2>1, <2>2
  <1>q. QED
    BY <1>6, <1>8 DEF EngineOK

(* A query finds requests of the table.                                    *)
LEMMA QueriesKeepType ==
  ASSUME EngineOK, FindBarriers \/ FindForwardBackward \/ FindSample \/ FindOther
  PROVE  EngineOK'
  <1>1. /\ TypeOK /\ NamesKnown
        /\ UNCHANGED <<client, futures, rows, results, adapter, optimizers, params, grads, sampler, faults, doubtful>>
    BY DEF EngineOK, FindBarriers, FindForwardBackward, FindSample, FindOther, table, engine, history
  <1>2. \A kinds : RequestsOf(kinds)' = RequestsOf(kinds) /\ PendingOf(kinds) \subseteq RequestsOf(kinds)
    BY <1>1 DEF RequestsOf, PendingOf
  <1>3. found' \in [barriers : {found'.barriers}, forward : SUBSET RequestsOf({"forward_backward"}),
                    sample : SUBSET RequestsOf({"sample"}), other : SUBSET RequestsOf(Kinds \ Batched)]
    <2>1. CASE FindBarriers
      BY <2>1 DEF FindBarriers, NothingFound
    <2>2. CASE FindForwardBackward
      BY <1>1, <1>2, <2>2 DEF FindForwardBackward, TypeOK
    <2>3. CASE FindSample
      BY <1>1, <1>2, <2>3 DEF FindSample, TypeOK
    <2>4. CASE FindOther
      BY <1>1, <1>2, <2>4 DEF FindOther, TypeOK
    <2>q. QED
      BY <2>1, <2>2, <2>3, <2>4
  <1>4. pc' \in {"forward", "sample", "other", "run_forward", "run_sample", "run_other", "barriers"}
    BY DEF FindBarriers, FindForwardBackward, FindSample, FindOther, ToRun
  <1>5. TypeOK'
    BY <1>1, <1>2, <1>3, <1>4 DEF TypeOK
  <1>q. QED
    BY <1>1, <1>5 DEF EngineOK, NamesKnown

(* Faults stay within their bound.                                         *)
LEMMA FaultIsCounted == TypeOK /\ (Fault \/ UNCHANGED faults) => faults' \in 0 .. MaxFaults
  BY TinkerEngineAssumption DEF TypeOK, Fault

(* A batch has an outcome for each of its requests.                        *)
LEMMA OutcomeIsOutcome ==
  ASSUME NEW ids, NEW good
  PROVE  DOMAIN Outcome(ids, good) = ids /\ Outcome(ids, good) \in [ids -> Outcomes]
  BY DEF Outcome, Outcomes

(* A batch of gradients adds to those of loaded models.                    *)
LEMMA ForwardBackwardKeepsType == EngineOK /\ ForwardBackward => EngineOK'
  <1> SUFFICES ASSUME EngineOK, ForwardBackward PROVE EngineOK'
    OBVIOUS
  <1>1. /\ TypeOK /\ NamesKnown /\ pc' = "complete_forward"
        /\ UNCHANGED <<client, futures, rows, found, adapter, optimizers, params, sampler, doubtful>>
    BY DEF EngineOK, ForwardBackward, table
  <1>2. \A done : Accumulated(done) \in [DOMAIN adapter -> Gradients]
    BY <1>1 DEF TypeOK, Accumulated, Gradients
  <1>3. /\ \E done : grads' = Accumulated(done)
        /\ \E good : results' = Outcome(found.forward, good)
        /\ Fault \/ UNCHANGED faults
    BY DEF ForwardBackward
  <1>6. grads' \in [DOMAIN adapter -> Gradients] /\ faults' \in 0 .. MaxFaults
    BY <1>1, <1>2, <1>3, FaultIsCounted
  <1>4. DOMAIN results' \subseteq DOMAIN futures /\ results' \in [DOMAIN results' -> Outcomes]
    BY <1>1, <1>3, OutcomeIsOutcome DEF TypeOK, RequestsOf
  <1>5. TypeOK'
    BY <1>1, <1>4, <1>6 DEF TypeOK, RequestsOf
  <1>q. QED
    BY <1>1, <1>5 DEF EngineOK, NamesKnown

(* Completing a batch writes outcomes into the table.                      *)
LEMMA CompleteKeepsType == EngineOK /\ Complete => EngineOK'
  <1> SUFFICES ASSUME EngineOK, Complete PROVE EngineOK'
    OBVIOUS
  <1>1. /\ TypeOK /\ NamesKnown /\ futures' = Written(results) /\ results' = EmptyFn
        /\ UNCHANGED <<client, rows, adapter, optimizers, params, grads, sampler, faults, doubtful>>
        /\ found' = found \/ found' = NothingFound
    BY DEF EngineOK, Complete, engine, history
  <1>2. \A kinds : RequestsOf(kinds)' = RequestsOf(kinds)
    BY <1>1, WrittenIsTable DEF RequestsOf
  <1>3. found' \in [barriers : {found'.barriers}, forward : SUBSET RequestsOf({"forward_backward"}),
                    sample : SUBSET RequestsOf({"sample"}), other : SUBSET RequestsOf(Kinds \ Batched)]
    <2>1. CASE found' = found
      BY <1>1, <2>1 DEF TypeOK
    <2>2. CASE found' = NothingFound
      BY <2>2 DEF NothingFound
    <2>q. QED
      BY <1>1, <2>1, <2>2
  <1>4. pc' \in {"run_sample", "run_other", "barriers"}
    BY DEF Complete, ToRun
  <1>5. DOMAIN results' = {} /\ results' \in [DOMAIN results' -> Outcomes]
    BY <1>1 DEF EmptyFn
  <1>6. futures' \in Seq(Futures) /\ Len(futures') = Len(futures)
    BY <1>1, WrittenIsTable
  <1>7. TypeOK'
    BY <1>1, <1>2, <1>3, <1>4, <1>5, <1>6 DEF TypeOK
  <1>8. NamesKnown'
    BY <1>1, WrittenIsTable DEF NamesKnown
  <1>q. QED
    BY <1>7, <1>8 DEF EngineOK

(* What a request names is a sequence of gradients.                        *)
LEMMA NamedIsWeights ==
  ASSUME EngineOK, NEW i \in DOMAIN futures, futures[i].kind \in {"load", "sample"}
  PROVE  \E k \in DOMAIN rows : Named(i) = rows[k].holds /\ rows[k].holds \in Seq(Gradients)
  BY DEF EngineOK, NamesKnown, Named, TypeOK, Rows

(* A batch of samples puts checkpoints, which are weights, into slots.     *)
LEMMA SampleKeepsType == EngineOK /\ Sample => EngineOK'
  <1> SUFFICES ASSUME EngineOK, Sample PROVE EngineOK'
    OBVIOUS
  <1>1. /\ TypeOK /\ NamesKnown /\ pc' = "complete_sample"
        /\ UNCHANGED <<client, futures, rows, found, adapter, optimizers, grads, doubtful>>
    BY DEF EngineOK, Sample, table
  <1> DEFINE valid == {i \in found.sample : Loaded(i)}
             toLoad == {i \in valid : ~InRAM(i)}
             after(ids) == [s \in Slots |-> IF \E i \in ids : SlotOf(i) = s
                                            THEN Named(CHOOSE i \in ids : SlotOf(i) = s)
                                            ELSE params[s]]
             got(ids) == [m \in DOMAIN sampler |-> IF \E i \in ids : futures[i].model = m
                                    THEN futures[CHOOSE i \in ids : futures[i].model = m].name
                                    ELSE sampler[m]]
  <1>2. PICK ids : /\ ids \subseteq toLoad /\ params' = after(ids) /\ sampler' = got(ids)
                   /\ \E good : results' = Outcome(found.sample, good)
                   /\ Fault \/ UNCHANGED faults
    <2>1. CASE /\ params' = after(toLoad) /\ sampler' = got(toLoad)
               /\ results' = Outcome(found.sample, valid) /\ UNCHANGED faults
      BY <2>1
    <2>2. ASSUME NEW n, params' = after({i \in toLoad : i <= n}), sampler' = got({i \in toLoad : i <= n}),
                 results' = Outcome(found.sample, {}), Fault
          PROVE  \E ids : /\ ids \subseteq toLoad /\ params' = after(ids) /\ sampler' = got(ids)
                          /\ \E good : results' = Outcome(found.sample, good)
                          /\ Fault \/ UNCHANGED faults
      BY <2>2
    <2>q. QED
      BY <2>1, <2>2 DEF Sample
  <1> HIDE DEF toLoad
  <1>3. \A i \in ids : i \in DOMAIN futures /\ futures[i].kind = "sample"
    BY <1>1, <1>2 DEF toLoad, TypeOK, RequestsOf
  <1>4. params' \in [Slots -> Seq(Gradients)]
    <2>1. \A i \in ids : Named(i) \in Seq(Gradients)
      BY <1>3, NamedIsWeights
    <2>q. QED
      BY <1>1, <1>2, <2>1 DEF TypeOK
  <1>5. sampler' \in [DOMAIN adapter -> Names \cup {None}]
    <2>1. \A i \in ids : futures[i].name \in Names
      BY <1>1, <1>3 DEF NamesKnown
    <2>q. QED
      BY <1>1, <1>2, <2>1 DEF TypeOK
  <1>6. DOMAIN results' \subseteq DOMAIN futures /\ results' \in [DOMAIN results' -> Outcomes]
    BY <1>1, <1>2, OutcomeIsOutcome DEF TypeOK, RequestsOf
  <1>7. faults' \in 0 .. MaxFaults
    BY <1>1, <1>2, FaultIsCounted DEF TypeOK
  <1>8. TypeOK'
    BY <1>1, <1>4, <1>5, <1>6, <1>7 DEF TypeOK, RequestsOf
  <1>q. QED
    BY <1>1, <1>8 DEF EngineOK, NamesKnown

(* The other requests, one by one.                                         *)
LEMMA ResultIsOutcome ==
  ASSUME TypeOK, NEW i \in DOMAIN futures, NEW outcome \in Outcomes, Result(i, outcome)
  PROVE  /\ DOMAIN results' = DOMAIN results \cup {i}
         /\ DOMAIN results' \subseteq DOMAIN futures /\ results' \in [DOMAIN results' -> Outcomes]
  BY DEF Result, Put, TypeOK

(* Each has one outcome, costs at most one fault and forgets no lapse.      *)
LEMMA TurnHasOutcome ==
  ASSUME NEW i, CreateModel(i) \/ NotLoaded(i) \/ OptimStep(i) \/ LoadWeights(i) \/ SaveWeights(i)
  PROVE  /\ \E outcome \in Outcomes : Result(i, outcome)
         /\ Fault \/ UNCHANGED faults
         /\ lapses \subseteq lapses'
  <1>1. CASE CreateModel(i)
    BY <1>1 DEF CreateModel, Outcomes, history
  <1>2. CASE NotLoaded(i)
    BY <1>2 DEF NotLoaded, Outcomes
  <1>3. CASE OptimStep(i)
    BY <1>3 DEF OptimStep, Stepped, NotStepped, SteppedAndFailed, Outcomes
  <1>4. CASE LoadWeights(i)
    BY <1>4 DEF LoadWeights, Outcomes
  <1>5. CASE SaveWeights(i)
    <2>1. UNCHANGED lapses
      BY <1>5 DEF SaveWeights, history
    <2>2. \E outcome \in Outcomes : Result(i, outcome)
      BY <1>5 DEF SaveWeights, Outcomes
    <2>3. Fault \/ UNCHANGED faults
      BY <1>5 DEF SaveWeights
    <2>q. QED
      BY <2>1, <2>2, <2>3
  <1>q. QED
    BY <1>1, <1>2, <1>3, <1>4, <1>5

(* What an optim_step does to the gradients and the weights of its model:  *)
(* it completes and drops what it applied, or fails and keeps it.          *)
LEMMA OptimStepCases ==
  ASSUME TypeOK, NEW i \in DOMAIN futures, OptimStep(i)
  PROVE  LET m == futures[i].model IN
         /\ m \in DOMAIN adapter /\ UNCHANGED <<client, table, pc, found, adapter, optimizers, sampler, answers>>
         /\ futures[i].kind = "optim_step"
         /\ \/ /\ grads[m] = NoGrads /\ UNCHANGED <<params, grads, doubtful>>
               /\ Result(i, "completed")
               /\ Overtakes(i, {"forward_backward"}) => "overtaken" \in lapses'
            \/ /\ grads[m] # NoGrads /\ params' = [params EXCEPT ![adapter[m]] = Append(@, grads[m])]
               /\ grads' = [grads EXCEPT ![m] = NoGrads] /\ UNCHANGED doubtful
               /\ Result(i, "completed")
               /\ Overtakes(i, {"forward_backward"}) => "overtaken" \in lapses'
            \/ UNCHANGED <<params, grads, doubtful, lapses>> /\ Result(i, "failed")
            \/ /\ params' = [params EXCEPT ![adapter[m]] = Append(@, grads[m])] /\ UNCHANGED grads
               /\ doubtful' = doubtful \cup {j \in Requests : grads[m][j] > 0}
               /\ Result(i, "failed") /\ lapses' # {}
         /\ UNCHANGED params \/ sampler[m] = None \/ "stale" \in lapses'
         /\ "overtaken" \in lapses' => "overtaken" \in lapses \/ Overtakes(i, {"forward_backward"})
  <1> DEFINE m == futures[i].model
  <1>1. /\ m \in DOMAIN adapter /\ UNCHANGED <<client, table, pc, found, adapter, optimizers, sampler, answers>>
        /\ futures[i].kind = "optim_step"
    BY DEF OptimStep, Turn, Loaded
  <1>2. CASE Stepped(i, m)
    <2>1. /\ Result(i, "completed") /\ UNCHANGED doubtful
          /\ Overtakes(i, {"forward_backward"}) => "overtaken" \in lapses'
          /\ sampler[m] = None \/ "stale" \in lapses'
          /\ "overtaken" \in lapses' => "overtaken" \in lapses \/ Overtakes(i, {"forward_backward"})
      BY <1>2 DEF Stepped, Stale, LapseIf
    <2>2. CASE grads[m] = NoGrads
      BY <1>1, <1>2, <2>1, <2>2 DEF Stepped
    <2>3. CASE grads[m] # NoGrads
      BY <1>1, <1>2, <2>1, <2>3 DEF Stepped, Applied, Reset
    <2>q. QED
      BY <2>2, <2>3
  <1>3. CASE NotStepped(i, m)
    BY <1>1, <1>3 DEF NotStepped
  <1>4. CASE SteppedAndFailed(i, m)
    BY <1>1, <1>4 DEF SteppedAndFailed, Applied, Stale, LapseIf
  <1>q. QED
    BY <1>2, <1>3, <1>4 DEF OptimStep

(* An update or a load moves the weights of its model only.                *)
LEMMA TurnMovesOneSlot ==
  ASSUME TypeOK, NEW i \in DOMAIN futures, OptimStep(i) \/ LoadWeights(i)
  PROVE  /\ futures[i].model \in DOMAIN adapter
         /\ \A s \in Slots : s # adapter[futures[i].model] => params'[s] = params[s]
  <1>1. futures[i].model \in DOMAIN adapter /\ params \in [Slots -> Seq(Gradients)]
    BY DEF OptimStep, LoadWeights, Loaded, TypeOK
  <1>2. UNCHANGED params \/ \E w : params' = [params EXCEPT ![adapter[futures[i].model]] = w]
    <2>1. CASE OptimStep(i)
      BY <2>1, OptimStepCases
    <2>2. CASE LoadWeights(i)
      BY <2>2 DEF LoadWeights
    <2>q. QED
      BY <2>1, <2>2
  <1>q. QED
    BY <1>1, <1>2

(* A new model gets a slot that no other has.                              *)
LEMMA CreateModelKeepsType ==
  ASSUME EngineOK, NEW i \in DOMAIN futures, CreateModel(i)
  PROVE  EngineOK'
  <1> DEFINE m == futures[i].model
  <1>1. /\ TypeOK /\ NamesKnown /\ m \in Models /\ pc' = pc
        /\ UNCHANGED <<client, futures, rows, found, params, doubtful>>
    BY FuturesIndexed DEF EngineOK, CreateModel, Turn, table, Futures, history
  <1>2. /\ faults' \in 0 .. MaxFaults
        /\ DOMAIN results' \subseteq DOMAIN futures /\ results' \in [DOMAIN results' -> Outcomes]
    BY <1>1, TurnHasOutcome, ResultIsOutcome, FaultIsCounted
  <1>3. CASE UNCHANGED <<adapter, optimizers, grads, sampler>>
    <2>1. TypeOK'
      BY <1>1, <1>2, <1>3 DEF TypeOK, RequestsOf
    <2>q. QED
      BY <1>1, <2>1 DEF EngineOK, NamesKnown
  <1>4. ASSUME NEW slot \in Slots \ {0}, NextSlot(slot), adapter' = Put(adapter, m, slot),
               grads' = Put(grads, m, NoGrads), sampler' = Put(sampler, m, None),
               optimizers' \in {optimizers, optimizers \cup {m}}
        PROVE  EngineOK'
    <2>1. /\ DOMAIN adapter' = DOMAIN adapter \cup {m} /\ adapter'[m] = slot
          /\ \A k \in DOMAIN adapter \ {m} : adapter'[k] = adapter[k] /\ adapter[k] # slot
      BY <1>1, <1>4 DEF Put, NextSlot, TypeOK, Slots
    <2>2. /\ DOMAIN adapter' \subseteq Models /\ adapter' \in [DOMAIN adapter' -> Slots \ {0}]
          /\ \A k, l \in DOMAIN adapter' : adapter'[k] = adapter'[l] => k = l
      BY <1>1, <1>4, <2>1 DEF TypeOK, Put
    <2>3. /\ grads' \in [DOMAIN adapter' -> Gradients]
          /\ sampler' \in [DOMAIN adapter' -> Names \cup {None}]
      BY <1>1, <1>4, <2>1, NoGradsIsGradients DEF TypeOK, Put
    <2>5. optimizers' \subseteq DOMAIN adapter'
      BY <1>1, <1>4, <2>1 DEF TypeOK
    <2>4. TypeOK'
      BY <1>1, <1>2, <2>2, <2>3, <2>5 DEF TypeOK, RequestsOf
    <2>q. QED
      BY <1>1, <2>4 DEF EngineOK, NamesKnown
  <1>q. QED
    <2>1. ASSUME NEW slot \in Slots \ {0}, NextSlot(slot), adapter' = Put(adapter, m, slot),
                 grads' = Put(grads, m, NoGrads), sampler' = Put(sampler, m, None),
                 \/ optimizers' = optimizers \cup {m}
                 \/ optimizers' \in {optimizers, optimizers \cup {m}}
          PROVE  EngineOK'
      BY <1>4, <2>1
    <2>q. QED
      BY <1>3, <2>1 DEF CreateModel

(* The other single requests keep every model in its slot.                 *)
LEMMA OtherRequestsKeepType ==
  ASSUME EngineOK, NEW i \in DOMAIN futures,
         NotLoaded(i) \/ OptimStep(i) \/ LoadWeights(i) \/ SaveWeights(i)
  PROVE  EngineOK'
  <1> DEFINE m == futures[i].model
  <1>1. /\ TypeOK /\ NamesKnown /\ UNCHANGED <<client, futures, pc, found, adapter, optimizers, sampler>>
    BY DEF EngineOK, NotLoaded, OptimStep, LoadWeights, SaveWeights, Turn, table, engine, history
  <1>2. /\ faults' \in 0 .. MaxFaults
        /\ DOMAIN results' \subseteq DOMAIN futures /\ results' \in [DOMAIN results' -> Outcomes]
    BY <1>1, TurnHasOutcome, ResultIsOutcome, FaultIsCounted
  <1>3. /\ params' \in [Slots -> Seq(Gradients)] /\ grads' \in [DOMAIN adapter -> Gradients]
        /\ DOMAIN rows' = DOMAIN rows /\ rows' \in [DOMAIN rows' -> Rows]
    <2>1. CASE NotLoaded(i)
      BY <1>1, <2>1 DEF NotLoaded, table, engine, history, TypeOK
    <2>2. CASE OptimStep(i)
      <3>1. m \in DOMAIN adapter /\ adapter[m] \in Slots /\ grads[m] \in Gradients /\ UNCHANGED rows
        BY <1>1, <2>2, OptimStepCases DEF TypeOK, table
      <3>2. Append(params[adapter[m]], grads[m]) \in Seq(Gradients)
        BY <1>1, <3>1 DEF TypeOK
      <3>3. \/ UNCHANGED params \/ params' = [params EXCEPT ![adapter[m]] = Append(@, grads[m])]
        BY <1>1, <2>2, OptimStepCases
      <3>4. \/ UNCHANGED grads \/ grads' = [grads EXCEPT ![m] = NoGrads]
        BY <1>1, <2>2, OptimStepCases
      <3>5. params' \in [Slots -> Seq(Gradients)]
        BY <1>1, <3>1, <3>2, <3>3 DEF TypeOK
      <3>6. grads' \in [DOMAIN adapter -> Gradients]
        BY <1>1, <3>1, <3>4, NoGradsIsGradients DEF TypeOK
      <3>q. QED
        BY <1>1, <3>1, <3>5, <3>6 DEF TypeOK
    <2>3. CASE LoadWeights(i)
      <3>1. Named(i) \in Seq(Gradients)
        BY <2>3, NamedIsWeights DEF LoadWeights, Turn
      <3>2. /\ UNCHANGED <<rows, grads>>
            /\ UNCHANGED params \/ params' = [params EXCEPT ![adapter[m]] = Named(i)]
        BY <2>3 DEF LoadWeights, table
      <3>3. params' \in [Slots -> Seq(Gradients)]
        BY <1>1, <3>1, <3>2 DEF TypeOK
      <3>q. QED
        BY <1>1, <3>2, <3>3 DEF TypeOK
    <2>4. CASE SaveWeights(i)
      <3>1. m \in DOMAIN adapter /\ adapter[m] \in Slots
        BY <1>1, <2>4 DEF SaveWeights, Loaded, TypeOK
      <3>2. params[adapter[m]] \in Seq(Gradients) /\ <<>> \in Seq(Gradients)
        BY <1>1, <3>1 DEF TypeOK
      <3>3. PICK k, row : row \in Rows /\ rows' = [rows EXCEPT ![k] = row]
        BY <2>4, <3>2 DEF SaveWeights, SavedRow, Rows, Outcomes
      <3>q. QED
        BY <1>1, <2>4, <3>3 DEF SaveWeights, TypeOK, engine, history
    <2>q. QED
      BY <2>1, <2>2, <2>3, <2>4
  <1>5. doubtful' \subseteq Requests
    <2>1. CASE OptimStep(i)
      BY <1>1, <2>1, OptimStepCases DEF TypeOK
    <2>2. CASE NotLoaded(i) \/ LoadWeights(i) \/ SaveWeights(i)
      BY <1>1, <2>2 DEF NotLoaded, LoadWeights, SaveWeights, TypeOK, history
    <2>q. QED
      BY <2>1, <2>2
  <1>4. TypeOK'
    BY <1>1, <1>2, <1>3, <1>5 DEF TypeOK, RequestsOf
  <1>q. QED
    BY <1>1, <1>3, <1>4 DEF EngineOK, NamesKnown

(* An engine that starts again has no models.                              *)
LEMMA CrashKeepsType == EngineOK /\ Crash => EngineOK'
  <1> SUFFICES ASSUME EngineOK, Crash PROVE EngineOK'
    OBVIOUS
  <1>1. /\ TypeOK /\ NamesKnown /\ UNCHANGED <<client, futures, rows>> /\ pc' = "barriers"
        /\ found' = NothingFound /\ results' = EmptyFn /\ adapter' = EmptyFn /\ grads' = EmptyFn
        /\ sampler' = EmptyFn /\ params' = [s \in Slots |-> <<>>] /\ Fault
        /\ optimizers' = {} /\ doubtful' = doubtful
    BY DEF EngineOK, Crash, table
  <1>2. EmptyFn = [x \in {} |-> None] /\ DOMAIN EmptyFn = {}
    BY DEF EmptyFn
  <1>3. /\ DOMAIN results' \subseteq DOMAIN futures /\ results' \in [DOMAIN results' -> Outcomes]
        /\ DOMAIN adapter' \subseteq Models /\ adapter' \in [DOMAIN adapter' -> Slots \ {0}]
        /\ \A m, k \in DOMAIN adapter' : adapter'[m] = adapter'[k] => m = k
        /\ grads' \in [DOMAIN adapter' -> Gradients]
        /\ sampler' \in [DOMAIN adapter' -> Names \cup {None}]
    BY <1>1, <1>2
  <1>4. found' \in [barriers : {found'.barriers}, forward : SUBSET RequestsOf({"forward_backward"}),
                    sample : SUBSET RequestsOf({"sample"}), other : SUBSET RequestsOf(Kinds \ Batched)]
    BY <1>1 DEF NothingFound
  <1>5. params' \in [Slots -> Seq(Gradients)] /\ faults' \in 0 .. MaxFaults
    BY <1>1, FaultIsCounted
  <1>6. TypeOK'
    BY <1>1, <1>3, <1>4, <1>5 DEF TypeOK, RequestsOf
  <1>q. QED
    BY <1>1, <1>6 DEF EngineOK, NamesKnown

(* Every step keeps the values.                                            *)
LEMMA EngineNext == EngineOK /\ [Next]_vars => EngineOK'
  <1> SUFFICES ASSUME EngineOK, [Next]_vars PROVE EngineOK'
    OBVIOUS
  <1>1. CASE UNCHANGED vars
    BY <1>1 DEF EngineOK, TypeOK, NamesKnown, RequestsOf, vars, table, engine, history
  <1>2. CASE Sends
    BY <1>2, SendKeepsType DEF Sends
  <1>3. CASE Work
    BY <1>3, QueriesKeepType, ForwardBackwardKeepsType, SampleKeepsType, CompleteKeepsType,
       CreateModelKeepsType, OtherRequestsKeepType DEF Work
  <1>q. QED
    BY <1>1, <1>2, <1>3, CrashKeepsType DEF Next

(* The values hold in every state.                                         *)
LEMMA EngineInvariance == Spec => []EngineOK
  BY EngineInit, EngineNext, PTL DEF Spec

-----------------------------------------------------------------------------
(* A row waits for a request that has no outcome yet either: the outcomes  *)
(* of saves are written to the table later than those of their rows.       *)
Saver(i, k) == /\ futures[i].kind = k[3] /\ futures[i].model = k[1] /\ futures[i].name = k[2]
               /\ Pending(i) /\ i \notin DOMAIN results
Awaited == \A k \in DOMAIN rows :
              rows[k].status = "pending" => \E i \in DOMAIN futures : Saver(i, k)
Lost == lapses \cap {"crashed", "not loaded"} # {}
Settling == Lost \/ Awaited

(* What the engine has lost is never forgotten.                            *)
LEMMA LostForGood == EngineOK /\ [Next]_vars /\ Lost => Lost'
  <1> SUFFICES ASSUME [Next]_vars, Lost PROVE lapses \subseteq lapses'
    BY DEF Lost
  <1>1. CASE Sends
    BY <1>1 DEF Sends, Send, history
  <1>2. CASE FindBarriers \/ FindForwardBackward \/ FindSample \/ FindOther \/ Complete
    BY <1>2 DEF FindBarriers, FindForwardBackward, FindSample, FindOther, Complete, history
  <1>3. CASE ForwardBackward \/ Sample
    BY <1>3 DEF ForwardBackward, Sample
  <1>4. ASSUME NEW i, CreateModel(i) \/ NotLoaded(i) \/ OptimStep(i) \/ LoadWeights(i) \/ SaveWeights(i)
        PROVE  lapses \subseteq lapses'
    BY <1>4, TurnHasOutcome
  <1>5. CASE Crash \/ UNCHANGED vars
    BY <1>5 DEF Crash, vars, history
  <1>q. QED
    BY <1>1, <1>2, <1>3, <1>4, <1>5 DEF Next, Work

(* Pending rows stay awaited if none is added and no request gets an       *)
(* outcome whose row stays pending.                                        *)
LEMMA AwaitedKept ==
  ASSUME Awaited, futures' = futures,
         \A k \in DOMAIN rows' : rows'[k].status = "pending" => k \in DOMAIN rows /\ rows[k].status = "pending",
         \A i \in DOMAIN futures :
             i \in DOMAIN results' /\ i \notin DOMAIN results
             => \/ futures[i].kind \notin Saves
                \/ LET k == <<futures[i].model, futures[i].name, futures[i].kind>> IN
                   ~(k \in DOMAIN rows' /\ rows'[k].status = "pending"),
         DOMAIN rows \subseteq Models \X Names \X Saves
  PROVE  Awaited'
  <1> SUFFICES ASSUME NEW k \in DOMAIN rows', rows'[k].status = "pending"
               PROVE  \E i \in DOMAIN futures' : Saver(i, k)'
    BY DEF Awaited
  <1>1. PICK i \in DOMAIN futures : Saver(i, k)
    BY DEF Awaited
  <1>2. k = <<futures[i].model, futures[i].name, futures[i].kind>> /\ futures[i].kind \in Saves
    BY <1>1 DEF Saver
  <1>3. i \notin DOMAIN results'
    BY <1>1, <1>2 DEF Saver
  <1>q. QED
    BY <1>1, <1>3 DEF Saver, Pending

(* Every step leaves the pending rows awaited, or loses models.            *)
LEMMA SettlingNext == EngineOK /\ Settling /\ [Next]_vars => Settling'
  <1> SUFFICES ASSUME EngineOK, Awaited, [Next]_vars PROVE Settling'
    BY LostForGood DEF Settling
  <1>0. TypeOK /\ DOMAIN rows \subseteq Models \X Names \X Saves
    BY DEF EngineOK, TypeOK
  <1>1. ASSUME NEW kind \in Kinds, NEW m \in Models,
               NEW n \in Names \cup {None} \cup (Models \X Names), Send(kind, m, n)
        PROVE  Awaited'
    <2> DEFINE new == [kind |-> kind, model |-> m, name |-> n, status |-> "pending"]
    <2>1. /\ futures' = Append(futures, new) /\ results' = results
          /\ DOMAIN futures' = DOMAIN futures \cup {Len(futures) + 1}
          /\ \A i \in DOMAIN futures : futures'[i] = futures[i]
          /\ futures'[Len(futures) + 1] = new
      BY <1>0, <1>1 DEF Send, TypeOK
    <2>2. Len(futures) + 1 \notin DOMAIN results
      BY <1>0 DEF TypeOK
    <2>3. \A k \in DOMAIN rows' : \/ k \in DOMAIN rows /\ rows'[k] = rows[k]
                                 \/ k = <<m, n, kind>>
      BY <1>1 DEF Send, Put
    <2> SUFFICES ASSUME NEW k \in DOMAIN rows', rows'[k].status = "pending"
                 PROVE  \E i \in DOMAIN futures' : Saver(i, k)'
      BY DEF Awaited
    <2>4. CASE k = <<m, n, kind>>
      <3>1. PICK j : j = Len(futures) + 1
        OBVIOUS
      <3>2. j \in DOMAIN futures' /\ Saver(j, k)'
        BY <2>1, <2>2, <2>4, <3>1 DEF Saver, Pending
      <3>q. QED
        BY <3>2
    <2>5. CASE k \in DOMAIN rows /\ rows'[k] = rows[k]
      <3>1. PICK i \in DOMAIN futures : Saver(i, k)
        BY <2>5 DEF Awaited
      <3>q. QED
        BY <2>1, <3>1 DEF Saver, Pending
    <2>q. QED
      BY <2>3, <2>4, <2>5
  <1>2. CASE FindBarriers \/ FindForwardBackward \/ FindSample \/ FindOther \/ UNCHANGED vars
    BY <1>2 DEF FindBarriers, FindForwardBackward, FindSample, FindOther, vars, table,
                Settling, Awaited, Saver, Pending
  <1>3. CASE ForwardBackward
    <2>1. PICK good : results' = Outcome(found.forward, good)
      BY <1>3 DEF ForwardBackward
    <2>2. futures' = futures /\ rows' = rows
      BY <1>3 DEF ForwardBackward, table
    <2>3. \A i \in DOMAIN results' : futures[i].kind \notin Saves
      BY <1>0, <2>1, OutcomeIsOutcome DEF TypeOK, RequestsOf, Saves
    <2>q. QED
      BY <1>0, <2>2, <2>3, AwaitedKept DEF Settling
  <1>4. CASE Sample
    <2>1. PICK good : results' = Outcome(found.sample, good)
      BY <1>4 DEF Sample
    <2>2. futures' = futures /\ rows' = rows
      BY <1>4 DEF Sample, table
    <2>3. \A i \in DOMAIN results' : futures[i].kind \notin Saves
      BY <1>0, <2>1, OutcomeIsOutcome DEF TypeOK, RequestsOf, Saves
    <2>q. QED
      BY <1>0, <2>2, <2>3, AwaitedKept DEF Settling
  <1>5. CASE Complete
    <2>1. futures' = Written(results) /\ DOMAIN results' = {} /\ rows' = rows
      BY <1>5 DEF Complete, EmptyFn
    <2>2. ASSUME NEW k, NEW i \in DOMAIN futures, Saver(i, k) PROVE i \in DOMAIN futures' /\ Saver(i, k)'
      BY <1>0, <2>1, <2>2, WrittenIsTable DEF Saver, Pending
    <2>q. QED
      BY <2>1, <2>2 DEF Settling, Awaited
  <1>6. ASSUME NEW i \in DOMAIN futures, CreateModel(i) \/ OptimStep(i) \/ LoadWeights(i)
        PROVE  Awaited'
    <2>1. futures' = futures /\ rows' = rows
      BY <1>6 DEF CreateModel, OptimStep, LoadWeights, table
    <2>2. futures[i].kind \notin Saves
      BY <1>6 DEF CreateModel, OptimStep, LoadWeights, Turn, Saves
    <2>3. \E outcome \in Outcomes : Result(i, outcome)
      BY <1>6, TurnHasOutcome
    <2>4. DOMAIN results' = DOMAIN results \cup {i}
      BY <1>0, <2>3, ResultIsOutcome
    <2>q. QED
      BY <1>0, <2>1, <2>2, <2>4, AwaitedKept
  <1>7. ASSUME NEW i \in DOMAIN futures, SaveWeights(i) PROVE Awaited'
    <2> DEFINE k == <<futures[i].model, futures[i].name, futures[i].kind>>
    <2>1. futures' = futures
      BY <1>7 DEF SaveWeights
    <2>2. PICK outcome \in Outcomes :
             /\ \E w : rows' = [rows EXCEPT ![k] = [status |-> outcome, holds |-> w]]
             /\ Result(i, outcome)
      BY <1>7 DEF SaveWeights, SavedRow, Outcomes
    <2>3. DOMAIN results' = DOMAIN results \cup {i}
      BY <1>0, <2>2, ResultIsOutcome
    <2>4. DOMAIN rows' = DOMAIN rows /\ \A l \in DOMAIN rows : l # k => rows'[l] = rows[l]
      BY <1>0, <2>2 DEF TypeOK
    <2>5. k \in DOMAIN rows => rows'[k].status # "pending"
      BY <1>0, <2>2 DEF TypeOK, Outcomes
    <2>q. QED
      BY <1>0, <2>1, <2>3, <2>4, <2>5, AwaitedKept
  <1>8. ASSUME NEW i, NotLoaded(i) \/ Crash PROVE Lost'
    BY <1>8 DEF NotLoaded, Crash, Lost
  <1>q. QED
    BY <1>1, <1>2, <1>3, <1>4, <1>5, <1>6, <1>7, <1>8 DEF Next, Sends, Work, Settling

(* The values of the tables and of the memory of the engine: see TypeOK.   *)
THEOREM TypeCorrect == Spec => []TypeOK
  BY EngineInvariance, PTL DEF EngineOK

(* Unless the engine has lost models, every row that is pending has a save *)
(* to come: see CheckpointsSettle.                                         *)
THEOREM CheckpointsSettleCorrect == Spec => []CheckpointsSettle
  <1>1. Init => Settling
    BY DEF Init, Settling, Awaited, EmptyFn
  <1>2. Settling => CheckpointsSettle
    BY DEF Settling, Lost, Awaited, Saver, CheckpointsSettle
  <1>q. QED
    BY <1>1, <1>2, SettlingNext, EngineInvariance, PTL DEF Spec

-----------------------------------------------------------------------------
(* A gradient is in the weights only when its request is answered, and in  *)
(* what is accumulated only when its request has an outcome; no request    *)
(* of a batch has one before the batch is done.  It is in one place only,  *)
(* unless it is doubtful.                                                  *)
Answered(i) == i \in DOMAIN futures /\ ~Pending(i)
Taken(i) == i \in DOMAIN futures /\ (~Pending(i) \/ i \in DOMAIN results)
Own(m, i) == grads[m][i] = 1 /\ Taken(i) /\ futures[i].kind = "forward_backward" /\ futures[i].model = m

Cycle ==
    /\ pc \notin {"complete_forward", "complete_sample", "run_other"} => DOMAIN results = {}
    /\ pc = "run_other" => \A i \in DOMAIN results : futures[i].kind \notin Batched
    /\ pc \in {"sample", "other", "run_forward"} => \A i \in found.forward : Pending(i)

Once(w) ==
    \A k \in DOMAIN w, i \in Requests :
        w[k][i] # 0 => /\ w[k][i] = 1 /\ Answered(i)
                       /\ i \in doubtful \/ \A l \in DOMAIN w : l # k => w[l][i] = 0
Apart(m, w) == \A i \in Requests \ doubtful : grads[m][i] # 0 => \A k \in DOMAIN w : w[k][i] = 0
Clean(w) == Once(w) /\ \A m \in DOMAIN adapter : Apart(m, w)

OnceInv ==
    /\ \A m \in DOMAIN adapter, i \in Requests : grads[m][i] # 0 => Own(m, i)
    /\ \A s \in Slots : Clean(params[s])
    /\ \A k \in DOMAIN rows : Clean(rows[k].holds)

(* Every step keeps what the engine knows of its cycle.                    *)
LEMMA CycleNext == EngineOK /\ Cycle /\ [Next]_vars => Cycle'
  <1> SUFFICES ASSUME EngineOK, Cycle, [Next]_vars PROVE Cycle'
    OBVIOUS
  <1>0. TypeOK
    BY DEF EngineOK
  <1>1. ASSUME NEW kind \in Kinds, NEW m \in Models,
               NEW n \in Names \cup {None} \cup (Models \X Names), Send(kind, m, n)
        PROVE  Cycle'
    <2>1. UNCHANGED <<pc, found, results>> /\ \A i \in DOMAIN futures : futures'[i] = futures[i]
      BY <1>0, <1>1 DEF Send, TypeOK
    <2>2. DOMAIN results \subseteq DOMAIN futures /\ found.forward \subseteq DOMAIN futures
      BY <1>0 DEF TypeOK, RequestsOf
    <2>q. QED
      BY <2>1, <2>2 DEF Cycle, Pending
  <1>2. CASE FindBarriers \/ FindForwardBackward \/ FindSample \/ FindOther
    <2>1. UNCHANGED <<futures, results>> /\ DOMAIN results = {}
      BY <1>2 DEF FindBarriers, FindForwardBackward, FindSample, FindOther, Cycle, table
    <2>2. pc' \in {"sample", "other", "run_forward"} => \A i \in found'.forward : Pending(i)
      <3>1. CASE FindBarriers
        BY <3>1 DEF FindBarriers
      <3>2. CASE FindForwardBackward
        BY <1>0, <3>2 DEF FindForwardBackward, PendingOf, TypeOK
      <3>3. CASE FindSample
        BY <1>0, <3>3 DEF FindSample, Cycle, TypeOK
      <3>4. CASE FindOther
        BY <1>0, <3>4 DEF FindOther, Cycle, TypeOK
      <3>q. QED
        BY <1>2, <3>1, <3>2, <3>3, <3>4
    <2>q. QED
      BY <2>1, <2>2 DEF Cycle, Pending
  <1>3. CASE ForwardBackward \/ Sample
    BY <1>3 DEF ForwardBackward, Sample, Cycle
  <1>4. CASE Complete
    <2>1. DOMAIN results' = {} /\ pc' \in {"run_sample", "run_other", "barriers"}
      BY <1>4 DEF Complete, EmptyFn, ToRun
    <2>q. QED
      BY <2>1 DEF Cycle
  <1>5. ASSUME NEW i \in DOMAIN futures,
               CreateModel(i) \/ NotLoaded(i) \/ OptimStep(i) \/ LoadWeights(i) \/ SaveWeights(i)
        PROVE  Cycle'
    <2>1. UNCHANGED <<pc, futures>> /\ pc = "run_other" /\ futures[i].kind \notin Batched
      BY <1>5 DEF CreateModel, NotLoaded, OptimStep, LoadWeights, SaveWeights, Turn, table, Batched,
                  Destructive, Saves
    <2>2. \E outcome \in Outcomes : Result(i, outcome)
      BY <1>5, TurnHasOutcome
    <2>3. DOMAIN results' = DOMAIN results \cup {i}
      BY <1>0, <2>2, ResultIsOutcome
    <2>q. QED
      BY <2>1, <2>3 DEF Cycle
  <1>6. CASE Crash
    BY <1>6 DEF Crash, Cycle, EmptyFn
  <1>7. CASE UNCHANGED vars
    BY <1>7 DEF vars, table, Cycle, Pending
  <1>q. QED
    BY <1>1, <1>2, <1>3, <1>4, <1>5, <1>6, <1>7 DEF Next, Sends, Work

(* How the table and the doubt grow, gradients are added, and weights      *)
(* move: what a step other than an update may do.                          *)
TableGrows == /\ doubtful \subseteq doubtful'
              /\ \A i \in DOMAIN futures :
                     /\ i \in DOMAIN futures' /\ futures'[i].kind = futures[i].kind
                     /\ futures'[i].model = futures[i].model
                     /\ Answered(i) => Answered(i)'
GradsGrow ==
    \A m \in DOMAIN adapter', i \in Requests :
        grads'[m][i] # 0 =>
            /\ m \in DOMAIN adapter /\ (Taken(i) => Taken(i)')
            /\ \/ grads'[m][i] = grads[m][i]
               \/ /\ grads'[m][i] = grads[m][i] + 1 /\ i \in DOMAIN futures /\ ~Taken(i) /\ Taken(i)'
                  /\ futures[i].kind = "forward_backward" /\ futures[i].model = m
Old(w) == \/ w = <<>>
          \/ \E s \in Slots : w = params[s]
          \/ \E k \in DOMAIN rows : w = rows[k].holds
WeightsMove == /\ \A s \in Slots : Old(params'[s])
               /\ \A k \in DOMAIN rows' : Old(rows'[k].holds)

(* Gradients that grow as GradsGrow says are those of requests of their    *)
(* own model.                                                              *)
LEMMA GradsStayOwn ==
  ASSUME EngineOK, OnceInv, TableGrows, GradsGrow
  PROVE  \A m \in DOMAIN adapter', i \in Requests : grads'[m][i] # 0 => Own(m, i)'
  <1> SUFFICES ASSUME NEW m \in DOMAIN adapter', NEW i \in Requests, grads'[m][i] # 0
               PROVE  Own(m, i)'
    OBVIOUS
  <1>1. m \in DOMAIN adapter /\ grads[m][i] \in Nat
    BY DEF GradsGrow, EngineOK, TypeOK, Gradients
  <1>2. CASE grads'[m][i] = grads[m][i]
    BY <1>1, <1>2 DEF OnceInv, Own, GradsGrow, TableGrows, Taken
  <1>3. CASE grads'[m][i] # grads[m][i]
    <2>1. /\ grads'[m][i] = grads[m][i] + 1 /\ i \in DOMAIN futures /\ ~Taken(i) /\ Taken(i)'
          /\ futures[i].kind = "forward_backward" /\ futures[i].model = m
      BY <1>3 DEF GradsGrow
    <2>2. grads[m][i] = 0
      BY <1>1, <2>1 DEF OnceInv, Own
    <2>q. QED
      BY <2>1, <2>2 DEF Own, TableGrows
  <1>q. QED
    BY <1>2, <1>3

(* Weights that were somewhere are clean.                                  *)
LEMMA OldIsClean ==
  ASSUME EngineOK, OnceInv, NEW w, Old(w)
  PROVE  Clean(w)
  <1>1. Clean(<<>>)
    BY DEF Clean, Once, Apart
  <1>q. QED
    BY <1>1 DEF Old, OnceInv

(* They stay clean when others grow.                                       *)
LEMMA CleanStays ==
  ASSUME EngineOK, OnceInv, TableGrows, GradsGrow, NEW w, Clean(w)
  PROVE  Clean(w)'
  <1>1. Once(w)'
    BY DEF Clean, Once, TableGrows, Answered
  <1>2. ASSUME NEW m \in DOMAIN adapter', NEW i \in Requests \ doubtful', grads'[m][i] # 0,
               NEW k \in DOMAIN w
        PROVE  w[k][i] = 0
    <2>1. m \in DOMAIN adapter /\ i \notin doubtful
      BY <1>2 DEF GradsGrow, TableGrows
    <2>2. CASE grads'[m][i] = grads[m][i]
      BY <1>2, <2>1, <2>2 DEF Clean, Apart
    <2>3. CASE grads'[m][i] # grads[m][i]
      <3>1. ~Answered(i)
        BY <1>2, <2>3 DEF GradsGrow, Taken, Answered
      <3>q. QED
        BY <1>2, <3>1 DEF Clean, Once
    <2>q. QED
      BY <2>2, <2>3
  <1>q. QED
    BY <1>1, <1>2 DEF Clean, Apart

(* A step that only grows the table and the gradients and moves weights    *)
(* keeps every gradient single.                                            *)
LEMMA MovingKeepsOnce ==
  ASSUME EngineOK, OnceInv, TableGrows, GradsGrow, WeightsMove
  PROVE  OnceInv'
  <1>1. ASSUME NEW w, Old(w) PROVE Clean(w)'
    BY <1>1, OldIsClean, CleanStays
  <1>2. ASSUME NEW s \in Slots PROVE Clean(params[s])'
    <2>1. PICK w : w = params'[s] /\ Old(w)
      BY DEF WeightsMove
    <2>2. Clean(w)'
      BY <1>1, <2>1
    <2>q. QED
      BY <2>1, <2>2 DEF Clean, Once, Apart
  <1>3. ASSUME NEW k \in DOMAIN rows' PROVE Clean(rows[k].holds)'
    <2>1. PICK w : w = rows'[k].holds /\ Old(w)
      BY DEF WeightsMove
    <2>2. Clean(w)'
      BY <1>1, <2>1
    <2>q. QED
      BY <2>1, <2>2 DEF Clean, Once, Apart
  <1>q. QED
    BY <1>2, <1>3, GradsStayOwn DEF OnceInv

(* A step that leaves the gradients and the weights alone.                 *)
LEMMA IdleKeepsOnce ==
  ASSUME EngineOK, OnceInv, TableGrows, UNCHANGED <<adapter, grads, params>>,
         \A i \in DOMAIN futures : Taken(i) => Taken(i)',
         \A k \in DOMAIN rows' : Old(rows'[k].holds)
  PROVE  OnceInv'
  <1>1. GradsGrow
    BY DEF GradsGrow, Taken, EngineOK, TypeOK
  <1>2. WeightsMove
    BY DEF WeightsMove, Old
  <1>q. QED
    BY <1>1, <1>2, MovingKeepsOnce

(* A new request is in no gradient.                                        *)
LEMMA SendKeepsOnce ==
  ASSUME EngineOK, OnceInv, NEW kind \in Kinds, NEW m \in Models,
         NEW n \in Names \cup {None} \cup (Models \X Names), Send(kind, m, n)
  PROVE  OnceInv'
  <1>1. /\ UNCHANGED <<results, adapter, grads, params, doubtful>> /\ DOMAIN futures \subseteq DOMAIN futures'
        /\ \A i \in DOMAIN futures : futures'[i] = futures[i]
    BY DEF Send, engine, history, EngineOK, TypeOK
  <1>2. TableGrows /\ \A i \in DOMAIN futures : Taken(i) => Taken(i)'
    BY <1>1 DEF TableGrows, Answered, Taken, Pending
  <1>3. \A k \in DOMAIN rows' : Old(rows'[k].holds)
    BY DEF Send, Put, Old
  <1>q. QED
    BY <1>1, <1>2, <1>3, IdleKeepsOnce

(* A query changes neither gradients nor weights.                          *)
LEMMA QueriesKeepOnce ==
  ASSUME EngineOK, OnceInv,
         FindBarriers \/ FindForwardBackward \/ FindSample \/ FindOther \/ UNCHANGED vars
  PROVE  OnceInv'
  <1>1. UNCHANGED <<futures, rows, results, adapter, grads, params, doubtful>>
    BY DEF FindBarriers, FindForwardBackward, FindSample, FindOther, vars, table, engine, history
  <1>2. TableGrows /\ \A i \in DOMAIN futures : Taken(i) => Taken(i)'
    BY <1>1 DEF TableGrows, Answered, Taken, Pending
  <1>q. QED
    BY <1>1, <1>2, IdleKeepsOnce DEF Old

(* Whatever micro-batch it breaks off after, a batch takes requests that   *)
(* are pending, and none of them has been taken before.                    *)
LEMMA ForwardBackwardKeepsOnce == EngineOK /\ OnceInv /\ Cycle /\ ForwardBackward => OnceInv'
  <1> SUFFICES ASSUME EngineOK, OnceInv, Cycle, ForwardBackward PROVE OnceInv'
    OBVIOUS
  <1>1. /\ TypeOK /\ UNCHANGED <<futures, rows, adapter, params, doubtful>> /\ DOMAIN results = {}
        /\ \A i \in found.forward : Pending(i)
    BY DEF ForwardBackward, Cycle, table, EngineOK
  <1>2. PICK done, good : /\ done \subseteq found.forward /\ grads' = Accumulated(done)
                          /\ results' = Outcome(found.forward, good)
    BY DEF ForwardBackward
  <1>3. DOMAIN results' = found.forward
    BY <1>2, OutcomeIsOutcome
  <1>4. TableGrows /\ \A i \in DOMAIN futures : Taken(i) => Taken(i)'
    BY <1>1 DEF TableGrows, Answered, Taken, Pending
  <1>5. GradsGrow
    <2> SUFFICES ASSUME NEW m \in DOMAIN adapter', NEW i \in Requests, grads'[m][i] # 0
                 PROVE  /\ m \in DOMAIN adapter /\ (Taken(i) => Taken(i)')
                        /\ \/ grads'[m][i] = grads[m][i]
                           \/ /\ grads'[m][i] = grads[m][i] + 1 /\ i \in DOMAIN futures /\ ~Taken(i) /\ Taken(i)'
                              /\ futures[i].kind = "forward_backward" /\ futures[i].model = m
      BY DEF GradsGrow
    <2>1. grads'[m][i] = IF i \in done /\ futures[i].model = m THEN grads[m][i] + 1 ELSE grads[m][i]
      BY <1>1, <1>2 DEF Accumulated, TypeOK
    <2>2. i \in done => /\ i \in DOMAIN futures /\ futures[i].kind = "forward_backward"
                        /\ ~Taken(i) /\ Taken(i)'
      BY <1>1, <1>2, <1>3 DEF TypeOK, RequestsOf, Taken, Pending
    <2>q. QED
      BY <1>1, <1>4, <2>1, <2>2 DEF Taken
  <1>6. WeightsMove
    BY <1>1 DEF WeightsMove, Old
  <1>q. QED
    BY <1>4, <1>5, <1>6, MovingKeepsOnce

(* What has an outcome is answered when it is written.                     *)
LEMMA CompleteKeepsOnce == EngineOK /\ OnceInv /\ Complete => OnceInv'
  <1> SUFFICES ASSUME EngineOK, OnceInv, Complete PROVE OnceInv'
    OBVIOUS
  <1>1. /\ TypeOK /\ futures' = Written(results) /\ UNCHANGED <<rows, adapter, grads, params, doubtful>>
    BY DEF Complete, engine, history, EngineOK
  <1>2. \A i \in DOMAIN results : results[i] # "pending"
    BY <1>1 DEF TypeOK, Outcomes
  <1>3. \A i \in DOMAIN futures : /\ i \in DOMAIN futures' /\ (Taken(i) => ~Pending(i)')
                                 /\ futures'[i].kind = futures[i].kind /\ futures'[i].model = futures[i].model
    BY <1>1, <1>2, WrittenIsTable DEF Taken, Pending
  <1>4. TableGrows /\ \A i \in DOMAIN futures : Taken(i) => Taken(i)'
    BY <1>1, <1>3 DEF TableGrows, Taken, Answered
  <1>q. QED
    BY <1>1, <1>4, IdleKeepsOnce DEF Old

(* A checkpoint that goes into a slot holds answered requests only.        *)
LEMMA SampleKeepsOnce == EngineOK /\ OnceInv /\ Cycle /\ Sample => OnceInv'
  <1> SUFFICES ASSUME EngineOK, OnceInv, Cycle, Sample PROVE OnceInv'
    OBVIOUS
  <1>1. /\ TypeOK /\ UNCHANGED <<futures, rows, adapter, grads, doubtful>> /\ DOMAIN results = {}
    BY DEF Sample, Cycle, table, EngineOK
  <1>2. TableGrows /\ \A i \in DOMAIN futures : Taken(i) => Taken(i)'
    BY <1>1 DEF TableGrows, Answered, Taken, Pending
  <1>3. GradsGrow
    BY <1>1, <1>2 DEF GradsGrow, TypeOK, Taken
  <1>4. ASSUME NEW s \in Slots PROVE Old(params'[s])
    <2>1. PICK ids : /\ ids \subseteq found.sample
                     /\ params'[s] = IF \E i \in ids : SlotOf(i) = s
                                     THEN Named(CHOOSE i \in ids : SlotOf(i) = s) ELSE params[s]
      <3> DEFINE toLoad == {i \in {i \in found.sample : Loaded(i)} : ~InRAM(i)}
                 after(ids) == [t \in Slots |-> IF \E i \in ids : SlotOf(i) = t
                                                THEN Named(CHOOSE i \in ids : SlotOf(i) = t)
                                                ELSE params[t]]
      <3>1. \/ params' = after(toLoad)
            \/ \E n : params' = after({i \in toLoad : i <= n})
        BY DEF Sample
      <3>2. \E ids : ids \subseteq toLoad /\ params' = after(ids)
        <4>1. CASE params' = after(toLoad)
          BY <4>1
        <4>2. ASSUME NEW n, params' = after({i \in toLoad : i <= n})
              PROVE  \E ids : ids \subseteq toLoad /\ params' = after(ids)
          BY <4>2
        <4>q. QED
          BY <3>1, <4>1, <4>2
      <3>q. QED
        BY <3>2
    <2>2. \A i \in ids : i \in DOMAIN futures /\ futures[i].kind = "sample"
      BY <1>1, <2>1 DEF TypeOK, RequestsOf
    <2>3. \A i \in ids : Old(Named(i))
      BY <2>2, NamedIsWeights DEF Old
    <2>q. QED
      BY <2>1, <2>3 DEF Old
  <1>5. WeightsMove
    BY <1>1, <1>4 DEF WeightsMove, Old
  <1>q. QED
    BY <1>2, <1>3, <1>5, MovingKeepsOnce

(* A single request that is handled keeps what is known of the table.      *)
LEMMA TurnGrowsTable ==
  ASSUME EngineOK, NEW i \in DOMAIN futures,
         CreateModel(i) \/ NotLoaded(i) \/ OptimStep(i) \/ LoadWeights(i) \/ SaveWeights(i)
  PROVE  TableGrows /\ futures' = futures /\ \A j \in DOMAIN futures : Taken(j) => Taken(j)'
  <1>1. UNCHANGED futures
    BY DEF CreateModel, NotLoaded, OptimStep, LoadWeights, SaveWeights, table
  <1>4. doubtful \subseteq doubtful'
    <2>1. CASE OptimStep(i)
      BY <2>1, OptimStepCases DEF EngineOK
    <2>2. CASE CreateModel(i) \/ NotLoaded(i) \/ LoadWeights(i) \/ SaveWeights(i)
      BY <2>2 DEF CreateModel, NotLoaded, LoadWeights, SaveWeights, history
    <2>q. QED
      BY <2>1, <2>2
  <1>2. \E outcome \in Outcomes : Result(i, outcome)
    BY TurnHasOutcome
  <1>3. DOMAIN results' = DOMAIN results \cup {i}
    BY <1>2, ResultIsOutcome DEF EngineOK
  <1>q. QED
    BY <1>1, <1>3, <1>4 DEF TableGrows, Answered, Taken, Pending

(* A new model has no gradients.                                           *)
LEMMA CreateModelKeepsOnce ==
  ASSUME EngineOK, OnceInv, NEW i \in DOMAIN futures, CreateModel(i)
  PROVE  OnceInv'
  <1>1. UNCHANGED <<rows, params>> /\ WeightsMove
    BY DEF CreateModel, table, WeightsMove, Old
  <1>2. GradsGrow
    <2>1. CASE UNCHANGED <<adapter, grads>>
      BY <2>1, TurnGrowsTable DEF GradsGrow, Taken
    <2>2. ASSUME NEW m, NEW slot, adapter' = Put(adapter, m, slot), grads' = Put(grads, m, NoGrads)
          PROVE  GradsGrow
      BY <2>2, TurnGrowsTable DEF GradsGrow, Taken, Put, NoGrads, EngineOK, TypeOK
    <2>q. QED
      BY <2>1, <2>2 DEF CreateModel
  <1>q. QED
    BY <1>1, <1>2, TurnGrowsTable, MovingKeepsOnce

(* A load and a save move weights that were somewhere.                     *)
LEMMA LoadAndSaveKeepOnce ==
  ASSUME EngineOK, OnceInv, NEW i \in DOMAIN futures, NotLoaded(i) \/ LoadWeights(i) \/ SaveWeights(i)
  PROVE  OnceInv'
  <1>1. UNCHANGED <<adapter, grads>> /\ TypeOK
    BY DEF NotLoaded, LoadWeights, SaveWeights, engine, history, EngineOK
  <1>2. TableGrows /\ GradsGrow
    BY <1>1, TurnGrowsTable DEF GradsGrow, Taken, TypeOK
  <1>3. WeightsMove
    <2>1. CASE NotLoaded(i)
      BY <2>1 DEF NotLoaded, table, engine, history, WeightsMove, Old
    <2>2. CASE LoadWeights(i)
      <3>1. Old(Named(i)) /\ UNCHANGED rows
        BY <2>2, NamedIsWeights DEF LoadWeights, Turn, Old, table
      <3>2. \A s \in Slots : params'[s] = params[s] \/ params'[s] = Named(i)
        BY <1>1, <2>2 DEF LoadWeights, TypeOK
      <3>q. QED
        BY <3>1, <3>2 DEF WeightsMove, Old
    <2>3. CASE SaveWeights(i)
      <3>1. /\ UNCHANGED params /\ adapter[futures[i].model] \in Slots
        BY <1>1, <2>3 DEF SaveWeights, engine, history, Loaded, TypeOK
      <3>2. PICK k, status, w : /\ rows' = [rows EXCEPT ![k] = [status |-> status, holds |-> w]]
                                /\ Old(w)
        <4> DEFINE u == params[adapter[futures[i].model]]
                   k0 == <<futures[i].model, futures[i].name, futures[i].kind>>
        <4>1. \/ rows' = [rows EXCEPT ![k0] = [status |-> "completed", holds |-> u]]
              \/ rows' = [rows EXCEPT ![k0] = [status |-> "failed", holds |-> <<>>]]
          BY <2>3 DEF SaveWeights, SavedRow
        <4>2. Old(u) /\ Old(<<>>)
          BY <3>1 DEF Old
        <4> HIDE DEF u, k0
        <4>q. QED
          BY <4>1, <4>2
      <3>3. \A l \in DOMAIN rows' : Old(rows'[l].holds)
        BY <1>1, <3>2 DEF Old, TypeOK
      <3>q. QED
        BY <3>1, <3>3 DEF WeightsMove, Old
    <2>q. QED
      BY <2>1, <2>2, <2>3
  <1>q. QED
    BY <1>2, <1>3, MovingKeepsOnce

(* An update takes gradients of requests that are answered, for no outcome *)
(* of a batch is waiting then, and of requests that no weights have yet or *)
(* that are doubtful; those it does not drop become so.                    *)
LEMMA OptimStepKeepsOnce ==
  ASSUME EngineOK, OnceInv, Cycle, NEW i \in DOMAIN futures, OptimStep(i)
  PROVE  OnceInv'
  <1> DEFINE m == futures[i].model
             g == grads[m]
             w == params[adapter[m]]
  <1>1. /\ TypeOK /\ m \in DOMAIN adapter /\ adapter[m] \in Slots /\ UNCHANGED <<rows, adapter>>
        /\ pc = "run_other" /\ w \in Seq(Gradients) /\ g \in Gradients
    BY DEF EngineOK, OptimStep, Loaded, TypeOK, table, Turn
  <1>2. CASE UNCHANGED <<params, grads>>
    BY <1>1, <1>2, TurnGrowsTable, IdleKeepsOnce DEF Old
  <1>3. CASE /\ params' = [params EXCEPT ![adapter[m]] = Append(@, g)]
             /\ \/ grads' = [grads EXCEPT ![m] = NoGrads] /\ UNCHANGED doubtful
                \/ UNCHANGED grads /\ doubtful' = doubtful \cup {j \in Requests : g[j] > 0}
    <2>1. \A j \in Requests : g[j] # 0 => g[j] = 1 /\ Answered(j) /\ futures[j].model = m
      BY <1>1 DEF OnceInv, Own, Taken, Answered, Cycle, Batched
    <2>2. \A k \in DOMAIN adapter, j \in Requests :
              grads'[k][j] # 0 => /\ grads'[k][j] = grads[k][j]
                                  /\ k # m \/ j \in doubtful'
      <3>1. CASE grads' = [grads EXCEPT ![m] = NoGrads] /\ UNCHANGED doubtful
        BY <1>1, <3>1 DEF TypeOK, NoGrads
      <3>2. CASE UNCHANGED grads /\ doubtful' = doubtful \cup {j \in Requests : g[j] > 0}
        BY <1>1, <2>1, <3>2
      <3>q. QED
        BY <1>3, <3>1, <3>2
    <2>3. TableGrows /\ GradsGrow
      BY <1>1, <2>2, TurnGrowsTable DEF GradsGrow, Taken
    <2>4. ASSUME NEW v, Old(v) PROVE Clean(v)'
      BY <2>3, <2>4, OldIsClean, CleanStays
    <2>5. PICK v : v = Append(w, g)
      OBVIOUS
    <2>6. /\ DOMAIN v = DOMAIN w \cup {Len(w) + 1} /\ v[Len(w) + 1] = g
          /\ Len(w) + 1 \notin DOMAIN w
          /\ \A k \in DOMAIN w : v[k] = w[k]
      BY <1>1, <2>5
    <2>7. Clean(w)
      BY <1>1 DEF OnceInv
    <2>8. \A j \in Requests \ doubtful : g[j] # 0 => \A k \in DOMAIN w : w[k][j] = 0
      BY <1>1, <2>7 DEF Clean, Apart
    <2>9. \A j \in Requests : Answered(j) => Answered(j)'
      BY <2>3 DEF TableGrows, Answered
    <2>15. doubtful \subseteq doubtful'
      BY <2>3 DEF TableGrows
    <2>10. Once(v)'
      BY <2>1, <2>6, <2>7, <2>8, <2>9, <2>15 DEF Clean, Once
    <2>11. ASSUME NEW k \in DOMAIN adapter', NEW j \in Requests \ doubtful', grads'[k][j] # 0,
                  NEW l \in DOMAIN v
           PROVE  v[l][j] = 0
      <3>1. k \in DOMAIN adapter /\ k # m /\ grads[k][j] # 0 /\ j \notin doubtful
        BY <1>1, <2>2, <2>11, <2>15
      <3>2. futures[j].model = k
        BY <3>1 DEF OnceInv, Own
      <3>3. g[j] = 0
        BY <2>1, <3>1, <3>2
      <3>4. \A n \in DOMAIN w : w[n][j] = 0
        BY <2>7, <3>1 DEF Clean, Apart
      <3>q. QED
        BY <2>6, <2>11, <3>3, <3>4
    <2>12. Clean(v)'
      BY <2>10, <2>11 DEF Clean, Apart
    <2>13. ASSUME NEW s \in Slots PROVE Clean(params[s])'
      <3>1. PICK u : u = params'[s]
        OBVIOUS
      <3>2. u = v \/ Old(u)
        BY <1>1, <1>3, <2>5, <3>1 DEF TypeOK, Old
      <3>3. Clean(u)'
        BY <2>4, <2>12, <3>2
      <3>q. QED
        BY <3>1, <3>3 DEF Clean, Once, Apart
    <2>14. ASSUME NEW k \in DOMAIN rows' PROVE Clean(rows[k].holds)'
      <3>1. PICK u : u = rows'[k].holds
        OBVIOUS
      <3>2. Clean(u)'
        BY <1>1, <2>4, <3>1 DEF Old
      <3>q. QED
        BY <3>1, <3>2 DEF Clean, Once, Apart
    <2>q. QED
      BY <2>3, <2>13, <2>14, GradsStayOwn DEF OnceInv
  <1>q. QED
    BY <1>1, <1>2, <1>3, OptimStepCases

(* What a crash leaves in the tables has been answered.                    *)
LEMMA CrashKeepsOnce == EngineOK /\ OnceInv /\ Crash => OnceInv'
  <1> SUFFICES ASSUME EngineOK, OnceInv, Crash PROVE OnceInv'
    OBVIOUS
  <1>1. /\ UNCHANGED <<futures, rows>> /\ DOMAIN adapter' = {} /\ \A s \in Slots : params'[s] = <<>>
    BY DEF Crash, table, EmptyFn
  <1>3. UNCHANGED doubtful
    BY DEF Crash
  <1>2. TableGrows /\ GradsGrow /\ WeightsMove
    BY <1>1, <1>3 DEF TableGrows, GradsGrow, WeightsMove, Old, Answered, Pending
  <1>q. QED
    BY <1>2, MovingKeepsOnce

(* Every step keeps every gradient single.                                 *)
LEMMA OnceNext == EngineOK /\ Cycle /\ OnceInv /\ [Next]_vars => OnceInv'
  BY SendKeepsOnce, QueriesKeepOnce, ForwardBackwardKeepsOnce, CompleteKeepsOnce, SampleKeepsOnce,
     CreateModelKeepsOnce, LoadAndSaveKeepOnce, OptimStepKeepsOnce, CrashKeepsOnce
  DEF Next, Sends, Work

(* No request's gradient is taken twice but one that an optim_step applied *)
(* and failed to drop: see GradientsOnce.                                  *)
THEOREM GradientsOnceCorrect == Spec => []GradientsOnce
  <1>1. Init => Cycle
    BY DEF Init, Cycle, EmptyFn
  <1>2. Init => OnceInv
    BY DEF Init, NoModels, OnceInv, Clean, Once, EmptyFn
  <1>3. EngineOK /\ OnceInv => GradientsOnce
    <2> SUFFICES ASSUME EngineOK, OnceInv, NEW m \in DOMAIN adapter, NEW i \in Requests \ doubtful
                 PROVE  LET w == params[adapter[m]] IN
                        /\ grads[m][i] <= 1
                        /\ \A k \in DOMAIN w : w[k][i] + grads[m][i] <= 1
                        /\ \A k, l \in DOMAIN w : k # l => w[k][i] + w[l][i] <= 1
      BY DEF GradientsOnce
    <2> DEFINE w == params[adapter[m]]
    <2>1. /\ grads[m][i] \in Nat /\ adapter[m] \in Slots
          /\ \A k \in DOMAIN w : w[k][i] \in Nat
      BY DEF EngineOK, TypeOK, Gradients
    <2>2. Clean(w) /\ (grads[m][i] # 0 => grads[m][i] = 1)
      BY <2>1 DEF OnceInv, Own
    <2>q. QED
      BY <2>1, <2>2 DEF Clean, Once, Apart
  <1>q. QED
    BY <1>1, <1>2, <1>3, CycleNext, OnceNext, EngineInvariance, PTL DEF Spec

-----------------------------------------------------------------------------
(* What a sample finds of the checkpoint it names.  A save that was lost   *)
(* in a crash is carried out again, and could write what has been sampled  *)
(* from already; but its model is created again by the same cycle or never,*)
(* so that nobody can sample from it before.                               *)
Handling == {"run_forward", "complete_forward", "run_sample", "complete_sample", "run_other"}
Open(i) == Pending(i) /\ i \notin DOMAIN results
Row(i) == <<futures[i].model, futures[i].name, futures[i].kind>>
SamplerRow(m, n) == <<m, n, "save_sampler">>
Saved(k) == k \in DOMAIN rows /\ rows[k].status # "pending"
Settled == {k \in DOMAIN rows : \A i \in RequestsOf(Saves) : Row(i) = k => ~Pending(i)}

OthersWait ==
    /\ pc \in {"complete_forward", "complete_sample"} =>
          \A i \in DOMAIN results : futures[i].kind \in Batched
    /\ pc \in Handling => \A i \in found.other : Pending(i)

SavesKnown ==
    \A i \in RequestsOf(Saves) :
        /\ Row(i) \in DOMAIN rows
        /\ \A j \in RequestsOf(Saves) : Row(j) = Row(i) => j = i

RepeatedInTime ==
    \A i \in RequestsOf(Saves) : Open(i) /\ Saved(Row(i)) =>
        /\ pc \in Handling => i \in found.other
        /\ pc # "run_other" => futures[i].model \notin DOMAIN adapter

SamplesKnown ==
    \A i \in RequestsOf({"sample"}) : Saved(SamplerRow(futures[i].model, futures[i].name))

OneName ==
    \A i, j \in found.sample : futures[i].model = futures[j].model => futures[i].name = futures[j].name

SavesInv == OthersWait /\ SavesKnown /\ RepeatedInTime /\ SamplesKnown /\ OneName

(* What is in a slot, and what an answer was drawn from, is a checkpoint   *)
(* whose save is answered, and that therefore stays as it is.              *)
InSlots ==
    \A m \in DOMAIN adapter : sampler[m] # None =>
        /\ SamplerRow(m, sampler[m]) \in Settled
        /\ "stale" \notin lapses => params[adapter[m]] = rows[SamplerRow(m, sampler[m])].holds
InAnswers ==
    \A i \in DOMAIN answers :
        /\ i \in RequestsOf({"sample"}) /\ SamplerRow(futures[i].model, futures[i].name) \in Settled
        /\ "stale" \notin lapses => answers[i] = Named(i)

SampledInv == InSlots /\ InAnswers

(* A new request is none that is found, and a new save has a row of its    *)
(* own.                                                                    *)
LEMMA SendKeepsSaves ==
  ASSUME EngineOK, SavesInv, NEW kind \in Kinds, NEW m \in Models,
         NEW n \in Names \cup {None} \cup (Models \X Names), Send(kind, m, n)
  PROVE  SavesInv'
  <1> DEFINE new == [kind |-> kind, model |-> m, name |-> n, status |-> "pending"]
             x == Len(futures) + 1
             k == <<m, n, kind>>
  <1>1. /\ UNCHANGED <<pc, found, results, adapter>> /\ TypeOK
        /\ x \notin DOMAIN futures /\ DOMAIN futures' = DOMAIN futures \cup {x}
        /\ futures'[x] = new /\ \A i \in DOMAIN futures : futures'[i] = futures[i]
    <2>1. TypeOK /\ UNCHANGED <<pc, found, results, adapter>> /\ futures' = Append(futures, new)
      BY DEF Send, engine, history, EngineOK
    <2>2. new \in Futures /\ futures \in Seq(Futures)
      BY <2>1 DEF Futures, TypeOK
    <2>q. QED
      BY <2>1, <2>2
  <1>2. /\ DOMAIN rows \subseteq DOMAIN rows' /\ \A l \in DOMAIN rows : rows'[l] = rows[l]
        /\ kind \in Saves => k \notin DOMAIN rows /\ k \in DOMAIN rows' /\ rows'[k].status = "pending"
        /\ kind = "sample" => Saved(SamplerRow(m, n))
    BY DEF Send, Accepted, Ready, Put, Saves, SamplerRow, Saved
  <1>3. /\ found.other \subseteq DOMAIN futures /\ found.sample \subseteq DOMAIN futures
        /\ DOMAIN results \subseteq DOMAIN futures
    BY <1>1 DEF TypeOK, RequestsOf
  <1>4. /\ \A i \in RequestsOf(Saves)' : IF i = x THEN kind \in Saves /\ Row(i)' = k
                                        ELSE i \in RequestsOf(Saves) /\ Row(i)' = Row(i)
        /\ \A i \in DOMAIN futures : (Open(i)' <=> Open(i)) /\ (Pending(i)' <=> Pending(i))
    BY <1>1 DEF RequestsOf, Row, Open, Pending
  <1>5. OthersWait'
    BY <1>1, <1>3, <1>4 DEF SavesInv, OthersWait
  <1>6. SavesKnown'
    BY <1>2, <1>4 DEF SavesInv, SavesKnown
  <1>7. RepeatedInTime'
    <2> SUFFICES ASSUME NEW i \in RequestsOf(Saves)', Open(i)', Saved(Row(i))'
                 PROVE  /\ pc' \in Handling => i \in found'.other
                        /\ pc' # "run_other" => futures'[i].model \notin DOMAIN adapter'
      BY DEF RepeatedInTime
    <2>1. i # x
      BY <1>2, <1>4 DEF Saved
    <2>2. i \in RequestsOf(Saves) /\ i \in DOMAIN futures /\ Row(i)' = Row(i) /\ Row(i) \in DOMAIN rows
      BY <1>4, <2>1 DEF SavesInv, SavesKnown, RequestsOf
    <2>3. Open(i) /\ Saved(Row(i))
      BY <1>2, <1>4, <2>2 DEF Saved
    <2>q. QED
      BY <1>1, <2>2, <2>3 DEF SavesInv, RepeatedInTime
  <1>8. SamplesKnown'
    <2> SUFFICES ASSUME NEW i \in RequestsOf({"sample"})'
                 PROVE  Saved(SamplerRow(futures[i].model, futures[i].name))'
      BY DEF SamplesKnown
    <2>1. i = x => kind = "sample" /\ futures'[i].model = m /\ futures'[i].name = n
      BY <1>1 DEF RequestsOf
    <2>2. i # x => i \in RequestsOf({"sample"}) /\ futures'[i] = futures[i]
      BY <1>1 DEF RequestsOf
    <2>q. QED
      BY <1>2, <2>1, <2>2 DEF SavesInv, SamplesKnown, Saved, SamplerRow
  <1>9. OneName'
    BY <1>1, <1>3 DEF SavesInv, OneName
  <1>q. QED
    BY <1>5, <1>6, <1>7, <1>8, <1>9 DEF SavesInv

(* The last query finds every save that will have to be repeated; samples  *)
(* of a model that are found together name one checkpoint.                 *)
LEMMA QueriesKeepSaves ==
  ASSUME EngineOK, Cycle, SavesInv,
         FindBarriers \/ FindForwardBackward \/ FindSample \/ FindOther \/ UNCHANGED vars
  PROVE  SavesInv'
  <1>1. TypeOK /\ UNCHANGED <<futures, rows, results, adapter>>
    BY DEF FindBarriers, FindForwardBackward, FindSample, FindOther, vars, table, engine, history, EngineOK
  <1>2. SavesKnown' /\ SamplesKnown'
    BY <1>1 DEF SavesInv, SavesKnown, SamplesKnown, Saved, SamplerRow, Row, RequestsOf
  <1>3. \A i \in DOMAIN futures : (Open(i)' <=> Open(i)) /\ (Pending(i)' <=> Pending(i)) /\ Row(i)' = Row(i)
    BY <1>1 DEF Open, Pending, Row
  <1>4. CASE UNCHANGED vars
    <2>1. UNCHANGED <<pc, found>>
      BY <1>4 DEF vars
    <2>2. OthersWait' /\ RepeatedInTime' /\ OneName'
      BY <1>1, <2>1 DEF SavesInv, OthersWait, RepeatedInTime, OneName, Open, Pending, Row, RequestsOf, Saved
    <2>q. QED
      BY <1>2, <2>2 DEF SavesInv
  <1>5. CASE FindBarriers \/ FindForwardBackward \/ FindSample
    <2>1. pc \notin Handling /\ pc' \notin Handling
      BY <1>5 DEF FindBarriers, FindForwardBackward, FindSample, Handling
    <2>2. OthersWait'
      BY <2>1 DEF OthersWait, Handling
    <2>3. RepeatedInTime'
      BY <1>1, <2>1 DEF SavesInv, RepeatedInTime, Open, Pending, Row, RequestsOf, Saved, Handling
    <2>4. OneName'
      <3>1. CASE FindBarriers
        <4>1. found'.sample = {}
          BY <3>1 DEF FindBarriers, NothingFound
        <4>q. QED
          BY <4>1 DEF OneName
      <3>2. CASE FindForwardBackward
        <4>1. found'.sample = found.sample
          BY <1>1, <3>2 DEF FindForwardBackward, TypeOK
        <4>q. QED
          BY <1>1, <4>1 DEF SavesInv, OneName
      <3>3. CASE FindSample
        <4> DEFINE all == PendingOf({"sample"})
        <4>1. found'.sample = {i \in all : Batchable(i, all)}
          BY <1>1, <3>3 DEF FindSample, TypeOK
        <4>2. ASSUME NEW i \in found'.sample, NEW j \in found'.sample, futures[i].model = futures[j].model
              PROVE  futures[i].name = futures[j].name
          <5>1. {l \in all : futures[l].model = futures[i].model}
                = {l \in all : futures[l].model = futures[j].model}
            BY <4>2
          <5>q. QED
            BY <4>1, <5>1 DEF Batchable
        <4>q. QED
          BY <1>1, <4>2 DEF OneName
      <3>q. QED
        BY <1>5, <3>1, <3>2, <3>3
    <2>q. QED
      BY <1>2, <2>2, <2>3, <2>4 DEF SavesInv
  <1>6. CASE FindOther
    <2>1. /\ pc = "other" /\ found' = [found EXCEPT !.other = PendingOf(Kinds \ Batched)]
          /\ pc' = ToRun(found', {"forward", "sample", "other"})
      BY <1>6 DEF FindOther
    <2>2. /\ found'.other = PendingOf(Kinds \ Batched) /\ found'.sample = found.sample
          /\ pc' \in {"run_forward", "run_sample", "run_other", "barriers"}
      BY <1>1, <2>1 DEF TypeOK, ToRun
    <2>3. OthersWait'
      BY <1>1, <2>2 DEF OthersWait, PendingOf, Pending
    <2>4. RepeatedInTime'
      <3> SUFFICES ASSUME NEW i \in RequestsOf(Saves), Open(i), Saved(Row(i))
                   PROVE  /\ pc' \in Handling => i \in found'.other
                          /\ pc' # "run_other" => futures[i].model \notin DOMAIN adapter
        BY <1>1 DEF RepeatedInTime, Open, Pending, Row, RequestsOf, Saved
      <3>1. i \in DOMAIN futures /\ futures[i].kind \in Kinds \ Batched /\ Pending(i)
        BY <1>1, FuturesIndexed DEF Open, RequestsOf, Saves, Batched, Futures
      <3>2. i \in found'.other
        BY <2>2, <3>1 DEF PendingOf
      <3>3. futures[i].model \notin DOMAIN adapter
        BY <2>1 DEF SavesInv, RepeatedInTime
      <3>q. QED
        BY <3>2, <3>3
    <2>5. OneName'
      BY <1>1, <2>2 DEF SavesInv, OneName
    <2>q. QED
      BY <1>2, <2>3, <2>4, <2>5 DEF SavesInv
  <1>q. QED
    BY <1>4, <1>5, <1>6

(* A batch handles no save.                                                *)
LEMMA BatchesKeepSaves ==
  ASSUME EngineOK, Cycle, SavesInv, ForwardBackward \/ Sample
  PROVE  SavesInv'
  <1>1. /\ TypeOK /\ UNCHANGED <<futures, rows, found, adapter>> /\ DOMAIN results = {}
        /\ pc \in {"run_forward", "run_sample"} /\ pc' \in {"complete_forward", "complete_sample"}
    BY DEF ForwardBackward, Sample, table, Cycle, EngineOK
  <1>2. DOMAIN results' = found.forward \/ DOMAIN results' = found.sample
    BY OutcomeIsOutcome DEF ForwardBackward, Sample
  <1>3. \A i \in DOMAIN results' : futures[i].kind \in Batched
    BY <1>1, <1>2 DEF TypeOK, RequestsOf, Batched
  <1>4. OthersWait'
    BY <1>1, <1>3 DEF SavesInv, OthersWait, Handling, Pending
  <1>5. RepeatedInTime'
    BY <1>1 DEF SavesInv, RepeatedInTime, Open, Pending, Row, RequestsOf, Saved, Handling
  <1>6. SavesKnown' /\ SamplesKnown' /\ OneName'
    BY <1>1 DEF SavesInv, SavesKnown, SamplesKnown, OneName, Saved, SamplerRow, Row, RequestsOf
  <1>q. QED
    BY <1>4, <1>5, <1>6 DEF SavesInv

(* When outcomes are written, every request of the cycle has one.          *)
LEMMA CompleteKeepsSaves == EngineOK /\ Cycle /\ SavesInv /\ Complete => SavesInv'
  <1> SUFFICES ASSUME EngineOK, Cycle, SavesInv, Complete PROVE SavesInv'
    OBVIOUS
  <1>1. /\ TypeOK /\ UNCHANGED <<rows, adapter>> /\ futures' = Written(results) /\ DOMAIN results' = {}
        /\ found' = IF pc' = "barriers" THEN NothingFound ELSE found
    BY DEF Complete, engine, history, EngineOK, EmptyFn
  <1>2. \A i \in DOMAIN results : results[i] # "pending"
    BY <1>1 DEF TypeOK, Outcomes
  <1>3. /\ DOMAIN futures' = DOMAIN futures
        /\ \A i \in DOMAIN futures :
              /\ futures'[i].kind = futures[i].kind /\ futures'[i].model = futures[i].model
              /\ futures'[i].name = futures[i].name
              /\ Open(i)' <=> Open(i)
              /\ Pending(i)' <=> Open(i)
    BY <1>1, <1>2, WrittenIsTable DEF Open, Pending
  <1>4. \A kinds : RequestsOf(kinds)' = RequestsOf(kinds)
    BY <1>3 DEF RequestsOf
  <1>5. \A i \in DOMAIN futures : Row(i)' = Row(i)
    BY <1>3 DEF Row
  <1>6. \/ pc' = "barriers" /\ found.other = {}
        \/ pc' = "barriers" /\ pc = "run_other" /\ Left = {}
        \/ pc \in {"complete_forward", "complete_sample"} /\ pc' \in {"run_sample", "run_other"}
    BY DEF Complete, ToRun
  <1>7. pc \in Handling
    BY DEF Complete, Handling
  <1>8. OthersWait'
    <2>1. CASE pc' = "barriers"
      BY <2>1 DEF OthersWait, Handling
    <2>2. CASE pc' # "barriers"
      <3>1. pc \in {"complete_forward", "complete_sample"} /\ pc' \in {"run_sample", "run_other"} /\ found' = found
        BY <1>1, <1>6, <2>2
      <3>2. \A i \in found.other : i \in DOMAIN futures /\ Pending(i) /\ futures[i].kind \notin Batched
        BY <1>1, <1>7 DEF SavesInv, OthersWait, TypeOK, RequestsOf
      <3>3. \A i \in found.other : Open(i)
        BY <3>1, <3>2 DEF SavesInv, OthersWait, Open
      <3>q. QED
        BY <1>3, <3>1, <3>2, <3>3 DEF OthersWait
    <2>q. QED
      BY <2>1, <2>2
  <1>9. RepeatedInTime'
    <2> SUFFICES ASSUME NEW i \in RequestsOf(Saves), Open(i), Saved(Row(i))
                 PROVE  /\ pc' \in Handling => i \in found'.other
                        /\ pc' # "run_other" => futures'[i].model \notin DOMAIN adapter
      BY <1>1, <1>3, <1>4, <1>5 DEF RepeatedInTime, Saved, RequestsOf
    <2>1. i \in found.other /\ i \in DOMAIN futures /\ i \notin DOMAIN results
          /\ (pc # "run_other" => futures[i].model \notin DOMAIN adapter)
      BY <1>7 DEF SavesInv, RepeatedInTime, RequestsOf, Open
    <2>2. i \in Left
      BY <2>1 DEF Left
    <2>3. pc \in {"complete_forward", "complete_sample"} /\ pc' \in {"run_sample", "run_other"} /\ found' = found
      BY <1>1, <1>6, <2>1, <2>2
    <2>q. QED
      BY <1>3, <2>1, <2>3
  <1>10. SavesKnown' /\ SamplesKnown'
    <2>1. SavesKnown'
      BY <1>1, <1>4, <1>5 DEF SavesInv, SavesKnown, RequestsOf
    <2>2. SamplesKnown'
      BY <1>1, <1>3, <1>4 DEF SavesInv, SamplesKnown, Saved, SamplerRow, RequestsOf
    <2>q. QED
      BY <2>1, <2>2
  <1>11. OneName'
    BY <1>1, <1>3 DEF SavesInv, OneName, NothingFound, TypeOK, RequestsOf
  <1>q. QED
    BY <1>8, <1>9, <1>10, <1>11 DEF SavesInv

(* The row of a save, and no other, is written when the save has an        *)
(* outcome.                                                                *)
LEMMA TurnKeepsSaves ==
  ASSUME EngineOK, Cycle, SavesInv, NEW x \in DOMAIN futures,
         CreateModel(x) \/ NotLoaded(x) \/ OptimStep(x) \/ LoadWeights(x) \/ SaveWeights(x)
  PROVE  SavesInv'
  <1>1. /\ TypeOK /\ UNCHANGED <<futures, pc, found>> /\ pc = "run_other"
    BY DEF CreateModel, NotLoaded, OptimStep, LoadWeights, SaveWeights, table, Turn, EngineOK
  <1>2. \E outcome \in Outcomes : Result(x, outcome)
    BY TurnHasOutcome
  <1>3. DOMAIN results' = DOMAIN results \cup {x}
    BY <1>1, <1>2, ResultIsOutcome
  <1>4. /\ DOMAIN rows' = DOMAIN rows
        /\ \A k \in DOMAIN rows :
              \/ rows'[k] = rows[k]
              \/ x \in RequestsOf(Saves) /\ k = Row(x) /\ rows'[k].status # "pending"
    <2>1. CASE SaveWeights(x)
      <3>1. \E status \in Outcomes : \E w : rows' = [rows EXCEPT ![Row(x)] = [status |-> status, holds |-> w]]
        BY <2>1 DEF SaveWeights, SavedRow, Row, Outcomes
      <3>2. x \in RequestsOf(Saves)
        BY <2>1 DEF SaveWeights, Turn, RequestsOf
      <3>q. QED
        BY <1>1, <3>1, <3>2 DEF TypeOK, Outcomes
    <2>2. CASE ~SaveWeights(x)
      BY <2>2 DEF CreateModel, NotLoaded, OptimStep, LoadWeights, table
    <2>q. QED
      BY <2>1, <2>2
  <1>5. OthersWait'
    BY <1>1 DEF SavesInv, OthersWait, Handling, Pending
  <1>6. SavesKnown' /\ OneName'
    BY <1>1, <1>4 DEF SavesInv, SavesKnown, OneName, Row, RequestsOf
  <1>7. SamplesKnown'
    BY <1>1, <1>4 DEF SavesInv, SamplesKnown, Saved, SamplerRow, RequestsOf
  <1>8. RepeatedInTime'
    <2> SUFFICES ASSUME NEW i \in RequestsOf(Saves), Open(i)', Saved(Row(i))'
                 PROVE  i \in found.other
      BY <1>1 DEF RepeatedInTime, RequestsOf
    <2>1. i # x /\ Open(i) /\ Row(i)' = Row(i) /\ Row(i) \in DOMAIN rows
      BY <1>1, <1>3 DEF Open, Pending, Row, SavesInv, SavesKnown
    <2>2. rows'[Row(i)] = rows[Row(i)]
      BY <1>4, <2>1 DEF SavesInv, SavesKnown
    <2>3. Saved(Row(i))
      BY <2>1, <2>2 DEF Saved
    <2>q. QED
      BY <1>1, <2>1, <2>3 DEF SavesInv, RepeatedInTime, Handling
  <1>q. QED
    BY <1>5, <1>6, <1>7, <1>8 DEF SavesInv

(* After a crash no model is loaded.                                       *)
LEMMA CrashKeepsSaves == EngineOK /\ SavesInv /\ Crash => SavesInv'
  <1> SUFFICES ASSUME EngineOK, SavesInv, Crash PROVE SavesInv'
    OBVIOUS
  <1>1. UNCHANGED <<futures, rows>> /\ DOMAIN adapter' = {} /\ pc' = "barriers" /\ found' = NothingFound
    BY DEF Crash, table, EmptyFn
  <1>2. SavesKnown' /\ SamplesKnown'
    BY <1>1 DEF SavesInv, SavesKnown, SamplesKnown, Saved, SamplerRow, Row, RequestsOf
  <1>3. OthersWait' /\ RepeatedInTime' /\ OneName'
    BY <1>1 DEF OthersWait, RepeatedInTime, OneName, Handling, NothingFound
  <1>q. QED
    BY <1>2, <1>3 DEF SavesInv

(* Every step keeps what is known of the saves.                            *)
LEMMA SavesNext == EngineOK /\ Cycle /\ SavesInv /\ [Next]_vars => SavesInv'
  BY SendKeepsSaves, QueriesKeepSaves, BatchesKeepSaves, CompleteKeepsSaves, TurnKeepsSaves,
     CrashKeepsSaves
  DEF Next, Sends, Work

(* Requests that are in the table have a first one: the table grows one by *)
(* one.                                                                    *)
Ordered == \A s \in SUBSET DOMAIN futures : s # {} => \E i \in s : \A j \in s : i <= j

LEMMA OrderedNext == EngineOK /\ Ordered /\ [Next]_vars => Ordered'
  <1> SUFFICES ASSUME EngineOK, Ordered, [Next]_vars PROVE Ordered'
    OBVIOUS
  <1>1. TypeOK
    BY DEF EngineOK
  <1>2. CASE DOMAIN futures' = DOMAIN futures
    BY <1>2 DEF Ordered
  <1>3. ASSUME NEW kind \in Kinds, NEW m \in Models,
               NEW n \in Names \cup {None} \cup (Models \X Names), Send(kind, m, n)
        PROVE  Ordered'
    <2> DEFINE new == [kind |-> kind, model |-> m, name |-> n, status |-> "pending"]
               x == Len(futures) + 1
    <2>1. DOMAIN futures' = DOMAIN futures \cup {x}
      <3>1. new \in Futures /\ futures \in Seq(Futures) /\ futures' = Append(futures, new)
        BY <1>1, <1>3 DEF Send, Futures, TypeOK
      <3>q. QED
        BY <3>1
    <2>2. DOMAIN futures = 1 .. Len(futures) /\ Len(futures) \in Nat
      BY <1>1, FuturesIndexed
    <2> SUFFICES ASSUME NEW s, s \subseteq DOMAIN futures', s # {}
                 PROVE  \E i \in s : \A j \in s : i <= j
      BY DEF Ordered
    <2>3. CASE s \ {x} = {}
      <3>1. s = {x}
        BY <2>3
      <3>q. QED
        BY <2>2, <3>1
    <2>4. CASE s \ {x} # {}
      <3>1. PICK i \in s \ {x} : \A j \in s \ {x} : i <= j
        BY <2>1, <2>4 DEF Ordered
      <3>2. i <= x
        BY <2>1, <2>2, <3>1
      <3>q. QED
        BY <3>1, <3>2
    <2>q. QED
      BY <2>3, <2>4
  <1>4. CASE Complete
    BY <1>1, <1>2, <1>4, WrittenIsTable DEF Complete
  <1>5. CASE \/ FindBarriers \/ FindForwardBackward \/ FindSample \/ FindOther \/ ForwardBackward
             \/ Sample \/ Crash \/ UNCHANGED vars
    BY <1>2, <1>5 DEF FindBarriers, FindForwardBackward, FindSample, FindOther, ForwardBackward, Sample,
                      Crash, vars, table
  <1>6. ASSUME NEW x \in DOMAIN futures,
               CreateModel(x) \/ NotLoaded(x) \/ OptimStep(x) \/ LoadWeights(x) \/ SaveWeights(x)
        PROVE  Ordered'
    BY <1>2, <1>6 DEF CreateModel, NotLoaded, OptimStep, LoadWeights, SaveWeights, table
  <1>q. QED
    BY <1>3, <1>4, <1>5, <1>6 DEF Next, Sends, Work

(* The first of them is one of them.                                       *)
LEMMA FirstIsIn ==
  ASSUME Ordered, NEW s, s \subseteq DOMAIN futures, s # {}
  PROVE  First(s) \in s /\ \A j \in s : First(s) <= j
  <1>1. \E i \in s : \A j \in s : i <= j
    BY DEF Ordered
  <1>q. QED
    BY <1>1 DEF First

(* A settled row stays as it is, and so does what is known of a request.   *)
RowsStay == \A k \in Settled : rows'[k] = rows[k] /\ k \in Settled'
NamesStay == \A i \in DOMAIN futures :
                /\ i \in DOMAIN futures' /\ futures'[i].kind = futures[i].kind
                /\ futures'[i].model = futures[i].model /\ futures'[i].name = futures[i].name

(* No step writes a row whose save is answered, or makes another save of   *)
(* it.                                                                     *)
LEMMA StaysSettled ==
  ASSUME EngineOK, SavesInv, Ordered, [Next]_vars
  PROVE  RowsStay /\ NamesStay
  <1>0. TypeOK
    BY DEF EngineOK
  <1>1. ASSUME NEW kind \in Kinds, NEW m \in Models,
               NEW n \in Names \cup {None} \cup (Models \X Names), Send(kind, m, n)
        PROVE  RowsStay /\ NamesStay
    <2> DEFINE new == [kind |-> kind, model |-> m, name |-> n, status |-> "pending"]
               x == Len(futures) + 1
    <2>1. /\ x \notin DOMAIN futures /\ DOMAIN futures' = DOMAIN futures \cup {x}
          /\ futures'[x] = new /\ \A i \in DOMAIN futures : futures'[i] = futures[i]
      <3>1. new \in Futures /\ futures \in Seq(Futures) /\ futures' = Append(futures, new)
        BY <1>0, <1>1 DEF Send, Futures, TypeOK
      <3>q. QED
        BY <3>1
    <2>2. /\ DOMAIN rows \subseteq DOMAIN rows' /\ \A l \in DOMAIN rows : rows'[l] = rows[l]
          /\ kind \in Saves => <<m, n, kind>> \notin DOMAIN rows
      BY <1>1 DEF Send, Accepted, Put, Saves
    <2>3. RowsStay
      BY <2>1, <2>2 DEF RowsStay, Settled, RequestsOf, Row, Pending
    <2>q. QED
      BY <2>1, <2>3 DEF NamesStay
  <1>2. ASSUME UNCHANGED <<futures, rows>> PROVE RowsStay /\ NamesStay
    BY <1>2 DEF RowsStay, NamesStay, Settled, RequestsOf, Row, Pending
  <1>3. CASE Complete
    <2>1. UNCHANGED rows /\ futures' = Written(results)
      BY <1>3 DEF Complete
    <2>2. \A i \in DOMAIN results : results[i] # "pending"
      BY <1>0 DEF TypeOK, Outcomes
    <2>3. NamesStay /\ DOMAIN futures' = DOMAIN futures
          /\ \A i \in DOMAIN futures : ~Pending(i) => ~Pending(i)'
      BY <1>0, <2>1, <2>2, WrittenIsTable DEF NamesStay, Pending
    <2>4. RowsStay
      BY <2>1, <2>3 DEF RowsStay, NamesStay, Settled, RequestsOf, Row
    <2>q. QED
      BY <2>3, <2>4
  <1>4. ASSUME NEW x \in DOMAIN futures, SaveWeights(x) PROVE RowsStay /\ NamesStay
    <2>1. /\ UNCHANGED futures /\ Row(x) \in DOMAIN rows /\ x \in RequestsOf(Saves) /\ Pending(x)
      <3>1. UNCHANGED futures /\ pc = "run_other" /\ Left # {} /\ x = First(Left) /\ futures[x].kind \in Saves
        BY <1>4 DEF SaveWeights, Turn
      <3>2. x \in Left
        <4>1. Left \subseteq DOMAIN futures
          BY <1>0 DEF Left, TypeOK, RequestsOf
        <4>q. QED
          BY <3>1, <4>1, FirstIsIn
      <3>q. QED
        BY <3>1, <3>2 DEF Left, SavesInv, SavesKnown, OthersWait, Handling, RequestsOf
    <2>2. \A k \in Settled : k # Row(x)
      BY <2>1 DEF Settled
    <2>3. DOMAIN rows' = DOMAIN rows /\ \A k \in DOMAIN rows : k # Row(x) => rows'[k] = rows[k]
      <3>1. \E r : rows' = [rows EXCEPT ![Row(x)] = r]
        BY <1>4 DEF SaveWeights, Row
      <3>q. QED
        BY <1>0, <3>1 DEF TypeOK
    <2>q. QED
      BY <2>1, <2>2, <2>3 DEF RowsStay, NamesStay, Settled, RequestsOf, Row, Pending
  <1>5. ASSUME NEW x \in DOMAIN futures, CreateModel(x) \/ NotLoaded(x) \/ OptimStep(x) \/ LoadWeights(x)
        PROVE  UNCHANGED <<futures, rows>>
    BY <1>5 DEF CreateModel, NotLoaded, OptimStep, LoadWeights, table
  <1>6. CASE \/ FindBarriers \/ FindForwardBackward \/ FindSample \/ FindOther \/ ForwardBackward
             \/ Sample \/ Crash \/ UNCHANGED vars
    BY <1>2, <1>6 DEF FindBarriers, FindForwardBackward, FindSample, FindOther, ForwardBackward, Sample,
                      Crash, vars, table
  <1>q. QED
    BY <1>1, <1>2, <1>3, <1>4, <1>5, <1>6 DEF Next, Sends, Work

(* Answers stay what they are, and so do slots that no step touches.       *)
LEMMA AnswersStay ==
  ASSUME EngineOK, InAnswers, RowsStay, NamesStay, "stale" \in lapses => "stale" \in lapses',
         answers' = answers
  PROVE  InAnswers'
  <1> SUFFICES ASSUME NEW i \in DOMAIN answers
               PROVE  /\ i \in RequestsOf({"sample"})'
                      /\ SamplerRow(futures'[i].model, futures'[i].name) \in Settled'
                      /\ "stale" \notin lapses' => answers[i] = Named(i)'
    BY DEF InAnswers, SamplerRow
  <1>1. PICK k : k = SamplerRow(futures[i].model, futures[i].name)
    OBVIOUS
  <1>2. /\ i \in RequestsOf({"sample"}) /\ k \in Settled
        /\ "stale" \notin lapses => answers[i] = rows[k].holds
    BY <1>1 DEF InAnswers, Named, SamplerRow, RequestsOf
  <1>3. i \in RequestsOf({"sample"})' /\ SamplerRow(futures'[i].model, futures'[i].name) = k
    BY <1>1, <1>2 DEF NamesStay, RequestsOf
  <1>4. k \in Settled' /\ rows'[k] = rows[k]
    BY <1>2 DEF RowsStay
  <1>5. Named(i)' = rows'[k].holds
    BY <1>3 DEF Named, SamplerRow, RequestsOf
  <1>q. QED
    BY <1>2, <1>3, <1>4, <1>5

(* The same of a slot whose weights stay, unless there is a lapse.         *)
LEMMA SlotsStay ==
  ASSUME InSlots, RowsStay, "stale" \in lapses => "stale" \in lapses',
         NEW m \in DOMAIN adapter, sampler[m] # None,
         "stale" \notin lapses' => params'[adapter[m]] = params[adapter[m]]
  PROVE  /\ SamplerRow(m, sampler[m]) \in Settled'
         /\ "stale" \notin lapses' => params'[adapter[m]] = rows'[SamplerRow(m, sampler[m])].holds
  BY DEF InSlots, RowsStay

(* Steps that touch neither slots nor answers.                             *)
LEMMA IdleKeepsSampled ==
  ASSUME EngineOK, SampledInv, RowsStay, NamesStay, "stale" \in lapses => "stale" \in lapses',
         UNCHANGED <<adapter, sampler, params, answers>>
  PROVE  SampledInv'
  <1>1. InSlots'
    BY SlotsStay DEF SampledInv, InSlots
  <1>q. QED
    BY <1>1, AnswersStay DEF SampledInv

(* A batch of samples draws from what its requests name, all those of a    *)
(* model from one checkpoint, which is in the slot or put there.           *)
LEMMA SampleKeepsSampled ==
  ASSUME EngineOK, Cycle, SavesInv, SampledInv, RowsStay, NamesStay, Sample
  PROVE  SampledInv'
  <1> DEFINE valid == {i \in found.sample : Loaded(i)}
             toLoad == {i \in valid : ~InRAM(i)}
             after(ids) == [s \in Slots |-> IF \E i \in ids : SlotOf(i) = s
                                            THEN Named(CHOOSE i \in ids : SlotOf(i) = s)
                                            ELSE params[s]]
             got(ids) == [m \in DOMAIN sampler |-> IF \E i \in ids : futures[i].model = m
                                    THEN futures[CHOOSE i \in ids : futures[i].model = m].name
                                    ELSE sampler[m]]
             key(i) == SamplerRow(futures[i].model, futures[i].name)
  <1>1. /\ TypeOK /\ pc = "run_sample" /\ UNCHANGED <<futures, rows, adapter>> /\ DOMAIN results = {}
    BY DEF EngineOK, Sample, table, Cycle
  <1>2. ASSUME NEW i \in valid
        PROVE  /\ i \in RequestsOf({"sample"}) /\ futures[i].model \in DOMAIN adapter
               /\ SlotOf(i) = adapter[futures[i].model]
               /\ key(i) \in Settled /\ Named(i) = rows[key(i)].holds
    <2>1. /\ i \in RequestsOf({"sample"}) /\ futures[i].model \in DOMAIN adapter
          /\ SlotOf(i) = adapter[futures[i].model]
      BY <1>1, <1>2 DEF TypeOK, Loaded, SlotOf
    <2>2. Saved(key(i)) /\ Named(i) = rows[key(i)].holds
      BY <2>1 DEF SavesInv, SamplesKnown, Named, SamplerRow, RequestsOf
    <2>3. ASSUME NEW j \in RequestsOf(Saves), Row(j) = key(i), Pending(j) PROVE FALSE
      <3>1. Open(j) /\ Saved(Row(j)) /\ futures[j].model = futures[i].model
        BY <1>1, <2>2, <2>3 DEF Open, Row, SamplerRow
      <3>q. QED
        BY <1>1, <2>1, <3>1 DEF SavesInv, RepeatedInTime
    <2>q. QED
      BY <2>1, <2>2, <2>3 DEF Settled, Saved
  <1>3. \A i, j \in valid : SlotOf(i) = SlotOf(j) => futures[i].model = futures[j].model
    BY <1>1, <1>2 DEF TypeOK
  <1>4. \A i, j \in valid : futures[i].model = futures[j].model => key(i) = key(j)
    BY DEF SavesInv, OneName, SamplerRow
  <1>5. PICK ids : /\ ids \subseteq toLoad /\ params' = after(ids) /\ sampler' = got(ids)
                   /\ lapses' = lapses \cup LapseIf(after(ids) # params, "overwritten")
                   /\ \/ answers' = answers
                      \/ /\ ids = toLoad
                         /\ answers' = [i \in DOMAIN answers \cup valid |->
                                           IF i \in valid THEN after(toLoad)[SlotOf(i)] ELSE answers[i]]
    <2>1. CASE /\ params' = after(toLoad) /\ sampler' = got(toLoad)
               /\ lapses' = lapses \cup LapseIf(after(toLoad) # params, "overwritten")
               /\ answers' = [i \in DOMAIN answers \cup valid |->
                                 IF i \in valid THEN after(toLoad)[SlotOf(i)] ELSE answers[i]]
      BY <2>1
    <2>2. ASSUME NEW n, params' = after({i \in toLoad : i <= n}), sampler' = got({i \in toLoad : i <= n}),
                 lapses' = lapses \cup LapseIf(after({i \in toLoad : i <= n}) # params, "overwritten"),
                 answers' = answers
          PROVE  \E ids : /\ ids \subseteq toLoad /\ params' = after(ids) /\ sampler' = got(ids)
                          /\ lapses' = lapses \cup LapseIf(after(ids) # params, "overwritten")
                          /\ answers' = answers
      BY <2>2
    <2>q. QED
      BY <2>1, <2>2 DEF Sample
  <1> HIDE DEF valid, toLoad, after, got
  <1>6. "stale" \in lapses' <=> "stale" \in lapses
    BY <1>5 DEF LapseIf
  <1>7. ids \subseteq valid
    BY <1>5 DEF toLoad
  <1>8. ASSUME NEW m \in DOMAIN adapter
        PROVE  \/ /\ \A i \in ids : futures[i].model # m
                  /\ sampler'[m] = sampler[m] /\ params'[adapter[m]] = params[adapter[m]]
               \/ \E i, j \in ids : /\ futures[i].model = m /\ futures[j].model = m
                                    /\ sampler'[m] = futures[i].name
                                    /\ params'[adapter[m]] = Named(j)
    <2>1. \A i \in ids : SlotOf(i) = adapter[m] <=> futures[i].model = m
      BY <1>1, <1>2, <1>7 DEF TypeOK
    <2>2. m \in DOMAIN sampler /\ adapter[m] \in Slots
      BY <1>1 DEF TypeOK
    <2>3. sampler'[m] = IF \E i \in ids : futures[i].model = m
                        THEN futures[CHOOSE i \in ids : futures[i].model = m].name ELSE sampler[m]
      BY <1>5, <2>2 DEF got
    <2>4. params'[adapter[m]] = IF \E i \in ids : SlotOf(i) = adapter[m]
                                THEN Named(CHOOSE i \in ids : SlotOf(i) = adapter[m])
                                ELSE params[adapter[m]]
      BY <1>5, <2>2 DEF after
    <2>q. QED
      BY <2>1, <2>3, <2>4
  <1>9. InSlots'
    <2> SUFFICES ASSUME NEW m \in DOMAIN adapter, sampler'[m] # None
                 PROVE  /\ SamplerRow(m, sampler'[m]) \in Settled'
                        /\ "stale" \notin lapses' =>
                              params'[adapter[m]] = rows'[SamplerRow(m, sampler'[m])].holds
      BY <1>1 DEF InSlots, SamplerRow
    <2>1. CASE sampler'[m] = sampler[m] /\ params'[adapter[m]] = params[adapter[m]]
      BY <1>6, <2>1, SlotsStay DEF SampledInv
    <2>2. ASSUME NEW i \in ids, NEW j \in ids, futures[i].model = m, futures[j].model = m,
                 sampler'[m] = futures[i].name, params'[adapter[m]] = Named(j)
          PROVE  /\ SamplerRow(m, sampler'[m]) \in Settled'
                 /\ params'[adapter[m]] = rows'[SamplerRow(m, sampler'[m])].holds
      <3>1. SamplerRow(m, sampler'[m]) = key(i) /\ key(i) = key(j)
        BY <1>4, <1>7, <2>2
      <3>2. key(i) \in Settled' /\ rows' = rows /\ Named(j) = rows[key(j)].holds
        BY <1>1, <1>2, <1>7 DEF RowsStay
      <3>q. QED
        BY <2>2, <3>1, <3>2
    <2>q. QED
      BY <1>8, <2>1, <2>2
  <1>10. InAnswers'
    <2>1. CASE answers' = answers
      BY <1>6, <2>1, AnswersStay DEF SampledInv
    <2>2. CASE /\ ids = toLoad
               /\ answers' = [i \in DOMAIN answers \cup valid |->
                                 IF i \in valid THEN after(toLoad)[SlotOf(i)] ELSE answers[i]]
      <3> SUFFICES ASSUME NEW i \in DOMAIN answers \cup valid
                   PROVE  /\ i \in RequestsOf({"sample"}) /\ key(i) \in Settled
                          /\ "stale" \notin lapses => answers'[i] = Named(i)
        <4>1. RequestsOf({"sample"})' = RequestsOf({"sample"}) /\ Settled' = Settled
          BY <1>1 DEF RequestsOf, Settled, Row, Pending
        <4>2. \A i : Named(i)' = Named(i)
          BY <1>1 DEF Named
        <4>3. DOMAIN answers' = DOMAIN answers \cup valid
          BY <2>2
        <4>q. QED
          BY <1>1, <1>6, <4>1, <4>2, <4>3 DEF InAnswers, SamplerRow
      <3>1. CASE i \notin valid
        BY <2>2, <3>1 DEF SampledInv, InAnswers
      <3>2. CASE i \in valid
        <4> DEFINE m == futures[i].model
        <4>1. m \in DOMAIN adapter /\ i \in RequestsOf({"sample"}) /\ key(i) \in Settled
              /\ Named(i) = rows[key(i)].holds /\ SlotOf(i) = adapter[m]
          BY <1>2, <3>2
        <4>2. answers'[i] = params'[adapter[m]]
          BY <1>5, <2>2, <3>2, <4>1
        <4>3. ASSUME NEW j \in ids, futures[j].model = m, params'[adapter[m]] = Named(j)
              PROVE  answers'[i] = Named(i)
          BY <1>2, <1>4, <1>7, <3>2, <4>1, <4>2, <4>3
        <4>4. ASSUME \A j \in ids : futures[j].model # m, params'[adapter[m]] = params[adapter[m]],
                     "stale" \notin lapses
              PROVE  answers'[i] = Named(i)
          <5>1. InRAM(i)
            BY <2>2, <3>2, <4>4 DEF toLoad
          <5>2. sampler[m] = futures[i].name /\ futures[i].name \in Names
            BY <4>1, <5>1 DEF InRAM, EngineOK, NamesKnown, RequestsOf
          <5>3. params[adapter[m]] = rows[key(i)].holds
            BY <4>1, <4>4, <5>2, TinkerEngineAssumption DEF SampledInv, InSlots
          <5>q. QED
            BY <4>1, <4>2, <4>4, <5>3
        <4>q. QED
          BY <1>8, <4>1, <4>3, <4>4
      <3>q. QED
        BY <3>1, <3>2
    <2>q. QED
      BY <1>5, <2>1, <2>2
  <1>q. QED
    BY <1>9, <1>10 DEF SampledInv

(* An update or a load under a sampler checkpoint is a lapse; a new model  *)
(* has none.                                                               *)
LEMMA TurnKeepsSampled ==
  ASSUME EngineOK, SampledInv, RowsStay, NamesStay, NEW x \in DOMAIN futures,
         CreateModel(x) \/ NotLoaded(x) \/ OptimStep(x) \/ LoadWeights(x) \/ SaveWeights(x)
  PROVE  SampledInv'
  <1>1. TypeOK /\ UNCHANGED answers /\ ("stale" \in lapses => "stale" \in lapses')
    <2>1. UNCHANGED answers
      BY DEF CreateModel, NotLoaded, OptimStep, LoadWeights, SaveWeights, history
    <2>q. QED
      BY <2>1, TurnHasOutcome DEF EngineOK
  <1>2. InAnswers'
    BY <1>1, AnswersStay DEF SampledInv
  <1>3. CASE NotLoaded(x) \/ SaveWeights(x)
    BY <1>1, <1>3, IdleKeepsSampled DEF NotLoaded, SaveWeights, engine, history
  <1>4. CASE CreateModel(x)
    <2>1. UNCHANGED <<params, lapses>>
      BY <1>4 DEF CreateModel, history
    <2>2. CASE UNCHANGED <<adapter, sampler>>
      BY <1>1, <2>1, <2>2, IdleKeepsSampled
    <2>3. ASSUME NEW m, NEW slot, adapter' = Put(adapter, m, slot), sampler' = Put(sampler, m, None)
          PROVE  InSlots'
      <3>1. /\ DOMAIN adapter' = DOMAIN adapter \cup {m} /\ sampler'[m] = None
            /\ \A k \in DOMAIN adapter : k # m => sampler'[k] = sampler[k] /\ adapter'[k] = adapter[k]
        BY <1>1, <2>3 DEF Put, TypeOK
      <3>q. QED
        BY <2>1, <3>1, SlotsStay DEF SampledInv, InSlots
    <2>q. QED
      BY <1>2, <1>4, <2>2, <2>3 DEF CreateModel, SampledInv
  <1>5. CASE OptimStep(x) \/ LoadWeights(x)
    <2> DEFINE n == futures[x].model
    <2>1. /\ n \in DOMAIN adapter /\ UNCHANGED <<adapter, sampler>>
      BY <1>5 DEF OptimStep, LoadWeights, Loaded
    <2>2. \A s \in Slots : s # adapter[n] => params'[s] = params[s]
      BY <1>1, <1>5, TurnMovesOneSlot
    <2>3. params'[adapter[n]] = params[adapter[n]] \/ sampler[n] = None \/ "stale" \in lapses'
      <3>1. CASE OptimStep(x)
        BY <1>1, <3>1, OptimStepCases
      <3>2. CASE LoadWeights(x)
        BY <3>2 DEF LoadWeights, Stale, LapseIf
      <3>q. QED
        BY <1>5, <3>1, <3>2
    <2>4. \A m \in DOMAIN adapter : sampler[m] # None /\ "stale" \notin lapses' =>
              params'[adapter[m]] = params[adapter[m]]
      BY <1>1, <2>1, <2>2, <2>3 DEF TypeOK
    <2>5. InSlots'
      BY <1>1, <2>1, <2>4, SlotsStay DEF SampledInv, InSlots
    <2>q. QED
      BY <1>2, <2>5 DEF SampledInv
  <1>q. QED
    BY <1>3, <1>4, <1>5

(* Every step keeps slots and answers to their checkpoints.                *)
LEMMA SampledNext == EngineOK /\ Cycle /\ SavesInv /\ Ordered /\ SampledInv /\ [Next]_vars => SampledInv'
  <1> SUFFICES ASSUME EngineOK, Cycle, SavesInv, Ordered, SampledInv, [Next]_vars PROVE SampledInv'
    OBVIOUS
  <1>1. RowsStay /\ NamesStay
    BY StaysSettled
  <1>2. ASSUME NEW kind \in Kinds, NEW m \in Models,
               NEW n \in Names \cup {None} \cup (Models \X Names), Send(kind, m, n)
        PROVE  SampledInv'
    BY <1>1, <1>2, IdleKeepsSampled DEF Send, engine, history
  <1>3. CASE FindBarriers \/ FindForwardBackward \/ FindSample \/ FindOther \/ Complete \/ UNCHANGED vars
    BY <1>1, <1>3, IdleKeepsSampled
    DEF FindBarriers, FindForwardBackward, FindSample, FindOther, Complete, vars, engine, history
  <1>4. CASE ForwardBackward
    BY <1>1, <1>4, IdleKeepsSampled DEF ForwardBackward
  <1>5. CASE Crash
    <2>1. UNCHANGED answers /\ DOMAIN adapter' = {} /\ ("stale" \in lapses => "stale" \in lapses')
      BY <1>5 DEF Crash, EmptyFn
    <2>q. QED
      BY <1>1, <2>1, AnswersStay DEF SampledInv, InSlots
  <1>q. QED
    BY <1>1, <1>2, <1>3, <1>4, <1>5, SampleKeepsSampled, TurnKeepsSampled DEF Next, Sends, Work

(* A sample is drawn from the weights of the checkpoint it names, unless   *)
(* its model has been trained since that checkpoint was put in its slot.   *)
THEOREM SampledAsNamedCorrect == Spec => []SampledAsNamed
  <1>1. Init => Cycle
    BY DEF Init, Cycle, EmptyFn
  <1>2. Init => SavesInv /\ Ordered /\ SampledInv
    BY DEF Init, NoModels, EmptyFn, NothingFound, SavesInv, Ordered, SampledInv, OthersWait, SavesKnown,
           RepeatedInTime, SamplesKnown, OneName, InSlots, InAnswers, RequestsOf, Handling
  <1>3. SampledInv => SampledAsNamed
    BY DEF SampledInv, InAnswers, SampledAsNamed
  <1>q. QED
    BY <1>1, <1>2, <1>3, CycleNext, SavesNext, OrderedNext, SampledNext, EngineInvariance, PTL DEF Spec

-----------------------------------------------------------------------------
(* The order of the updates.  Requests other than batches are handled in   *)
(* the order in which they were sent, since a query finds all of them; the *)
(* look-ahead makes a gradient wait for an update sent before it.          *)
Singles == RequestsOf(Kinds \ Batched)
OthersInOrder ==
    /\ "crashed" \notin lapses => \A k, i \in Singles : Taken(k) /\ ~Taken(i) => k < i
    /\ pc \in Handling => \A j \in found.other, i \in Singles \ found.other : ~Taken(i) => j < i

Barriers ==
    /\ pc \in {"forward", "sample", "other", "run_forward"} =>
          \A m \in DOMAIN found.barriers :
              /\ found.barriers[m] \in DOMAIN futures
              /\ \A i \in RequestsOf(Destructive) :
                    Pending(i) /\ futures[i].model = m => found.barriers[m] <= i
    /\ pc \in {"sample", "other", "run_forward"} => \A j \in found.forward : BeforeBarrier(j)

(* A client that waits has one request of a model pending, or gradients.   *)
OneAtATime ==
    \A i, j \in DOMAIN futures : Pending(i) /\ Pending(j) /\ i # j /\ futures[i].model = futures[j].model =>
        futures[i].kind = "forward_backward" /\ futures[j].kind = "forward_backward"
Waiting == client.waits => OneAtATime /\ "overtaken" \notin lapses

(* Gradients and updates that are done, and those that are not: whichever  *)
(* was sent first is done first.                                           *)
DoneOf(kind, m) == {i \in DOMAIN futures : Done(i, kind, m)}
OpenOf(kind, m) == {i \in DOMAIN futures : ~Taken(i) /\ futures[i].kind = kind /\ futures[i].model = m}
InTurn ==
    \A m \in Models :
        /\ \A j \in DoneOf("forward_backward", m), i \in OpenOf("optim_step", m) : j < i
        /\ \A i \in DoneOf("optim_step", m), j \in OpenOf("forward_backward", m) : i < j

(* A model is created once, and a slot that is not in use is empty.        *)
Creations ==
    /\ \A i, j \in RequestsOf({"create"}) : futures[i].model = futures[j].model => i = j
    /\ \A m \in DOMAIN adapter : \E i \in RequestsOf({"create"}) : futures[i].model = m /\ Taken(i)
    /\ \A s \in Slots : (\A m \in DOMAIN adapter : adapter[m] # s) => params[s] = <<>>

(* Of the gradients F and the updates S, what each update takes, and what  *)
(* the next one will.                                                      *)
Updates(F, S) == {{j \in F : j <= i /\ \A k \in S : k < i => k < j} : i \in S} \ {{}}
Since(F, S) == {j \in F : \A k \in S : k < j}

Trained(m) ==
    /\ {{j \in Requests : params[adapter[m]][k][j] > 0} : k \in DOMAIN params[adapter[m]]}
       = Updates(DoneOf("forward_backward", m), DoneOf("optim_step", m))
    /\ {j \in Requests : grads[m][j] > 0} = Since(DoneOf("forward_backward", m), DoneOf("optim_step", m))

Steps ==
    /\ InTurn
    /\ \A m \in Models \ DOMAIN adapter : DoneOf("forward_backward", m) \cup DoneOf("optim_step", m) = {}
    /\ \A m \in DOMAIN adapter : Trained(m)
StepsInv == lapses = {} => Steps

(* Gradients sent after all updates change no update.                      *)
LEMMA MoreGradients ==
  ASSUME NEW F \in SUBSET Nat, NEW S \in SUBSET Nat, NEW D \in SUBSET Nat,
         \A d \in D, s \in S : s < d
  PROVE  Updates(F \cup D, S) = Updates(F, S) /\ Since(F \cup D, S) = Since(F, S) \cup D
  <1>1. \A i \in S : {j \in F \cup D : j <= i /\ \A k \in S : k < i => k < j}
                     = {j \in F : j <= i /\ \A k \in S : k < i => k < j}
    <2> SUFFICES ASSUME NEW i \in S, NEW d \in D PROVE ~(d <= i)
      OBVIOUS
    <2>q. QED
      OBVIOUS
  <1>q. QED
    BY <1>1 DEF Updates, Since

(* An update sent after all others, and after all gradients, takes those   *)
(* that are left.                                                          *)
LEMMA OneUpdateMore ==
  ASSUME NEW F \in SUBSET Nat, NEW S \in SUBSET Nat, NEW x \in Nat,
         \A s \in S : s < x, \A j \in F : j < x
  PROVE  /\ Updates(F, S \cup {x}) = Updates(F, S) \cup ({Since(F, S)} \ {{}})
         /\ Since(F, S \cup {x}) = {}
  <1> DEFINE took(i, T) == {j \in F : j <= i /\ \A k \in T : k < i => k < j}
  <1>1. ASSUME NEW i \in S PROVE took(i, S \cup {x}) = took(i, S)
    <2>1. ~(x < i)
      OBVIOUS
    <2>q. QED
      BY <2>1
  <1>2. took(x, S \cup {x}) = Since(F, S)
    <2>1. \A j \in F : j <= x /\ (\A k \in S \cup {x} : k < x => k < j) <=> \A k \in S : k < j
      OBVIOUS
    <2>q. QED
      BY <2>1 DEF Since
  <1>3. Since(F, S \cup {x}) = {}
    <2> SUFFICES ASSUME NEW j \in F, x < j PROVE FALSE
      BY DEF Since
    <2>q. QED
      OBVIOUS
  <1> HIDE DEF took
  <1>4. {took(i, S \cup {x}) : i \in S \cup {x}} = {took(i, S) : i \in S} \cup {Since(F, S)}
    BY <1>1, <1>2
  <1>5. Updates(F, S \cup {x}) = {took(i, S \cup {x}) : i \in S \cup {x}} \ {{}}
        /\ Updates(F, S) = {took(i, S) : i \in S} \ {{}}
    BY DEF Updates, took
  <1>q. QED
    BY <1>3, <1>4, <1>5

(* What a new request adds to the table.                                   *)
Adds(x, kind, m) ==
    /\ x \notin DOMAIN futures /\ DOMAIN futures' = DOMAIN futures \cup {x}
    /\ \A i \in DOMAIN futures : i \in Nat /\ i < x /\ futures'[i] = futures[i]
    /\ futures'[x].kind = kind /\ futures'[x].model = m /\ futures'[x].status = "pending"
    /\ x \notin DOMAIN results
LEMMA SendAdds ==
  ASSUME TypeOK, NEW kind \in Kinds, NEW m \in Models,
         NEW n \in Names \cup {None} \cup (Models \X Names), Send(kind, m, n)
  PROVE  \E x \in Nat : Adds(x, kind, m)
  <1> DEFINE new == [kind |-> kind, model |-> m, name |-> n, status |-> "pending"]
             x == Len(futures) + 1
  <1>1. new \in Futures /\ futures \in Seq(Futures) /\ futures' = Append(futures, new)
    BY DEF Send, Futures, TypeOK
  <1>2. DOMAIN futures = 1 .. Len(futures) /\ Len(futures) \in Nat
    BY FuturesIndexed
  <1>3. /\ x \in Nat /\ x \notin DOMAIN futures /\ DOMAIN futures' = DOMAIN futures \cup {x}
        /\ \A i \in DOMAIN futures : i \in Nat /\ i < x /\ futures'[i] = futures[i]
        /\ futures'[x].kind = kind /\ futures'[x].model = m /\ futures'[x].status = "pending"
    BY <1>1, <1>2
  <1>4. x \notin DOMAIN results
    BY <1>3 DEF TypeOK
  <1> HIDE DEF x
  <1>q. QED
    BY <1>3, <1>4 DEF Adds

(* What a single request that is handled was, and is.                      *)
LEMMA TurnTakes ==
  ASSUME EngineOK, SavesInv, Ordered, NEW x \in DOMAIN futures,
         CreateModel(x) \/ NotLoaded(x) \/ OptimStep(x) \/ LoadWeights(x) \/ SaveWeights(x)
  PROVE  /\ UNCHANGED <<client, futures, pc, found>> /\ pc = "run_other" /\ DOMAIN results' = DOMAIN results \cup {x}
         /\ x \in found.other /\ ~Taken(x) /\ Pending(x) /\ x \in Singles
         /\ \A i \in found.other : i \notin DOMAIN results => x <= i
         /\ \A i \in DOMAIN futures : Taken(i)' <=> Taken(i) \/ i = x
         /\ \A i \in DOMAIN results : results'[i] = results[i] \/ i = x
  <1>1. /\ TypeOK /\ UNCHANGED <<client, futures, pc, found>> /\ pc = "run_other" /\ Left # {} /\ x = First(Left)
    BY DEF CreateModel, NotLoaded, OptimStep, LoadWeights, SaveWeights, table, Turn, EngineOK
  <1>2. PICK outcome \in Outcomes : Result(x, outcome)
    BY TurnHasOutcome
  <1>3. DOMAIN results' = DOMAIN results \cup {x} /\ \A i \in DOMAIN results : results'[i] = results[i] \/ i = x
    BY <1>1, <1>2 DEF Result, Put, TypeOK
  <1>4. Left \subseteq DOMAIN futures
    BY <1>1 DEF Left, TypeOK, RequestsOf
  <1>5. x \in Left /\ \A i \in Left : x <= i
    BY <1>1, <1>4, FirstIsIn
  <1>6. x \in found.other /\ x \notin DOMAIN results /\ x \in Singles /\ Pending(x)
    BY <1>1, <1>5 DEF Left, TypeOK, Singles, SavesInv, OthersWait, Handling
  <1>q. QED
    BY <1>1, <1>3, <1>5, <1>6 DEF Taken, Left, Pending

(* Writing outcomes changes nothing of what is done.                       *)
LEMMA CompleteWrites ==
  ASSUME EngineOK, Complete
  PROVE  /\ DOMAIN futures' = DOMAIN futures /\ DOMAIN results' = {}
         /\ UNCHANGED <<client, rows, adapter, params, grads, sampler, lapses>>
         /\ pc' \in {"run_sample", "run_other", "barriers"} /\ pc \in Handling
         /\ pc' # "barriers" => UNCHANGED found
         /\ \A i \in DOMAIN futures :
               /\ futures'[i].kind = futures[i].kind /\ futures'[i].model = futures[i].model
               /\ Taken(i)' <=> Taken(i)
               /\ Pending(i)' => Pending(i)
               /\ \A kind, m : Done(i, kind, m)' <=> Done(i, kind, m)
  <1>1. /\ TypeOK /\ futures' = Written(results) /\ results' = EmptyFn
        /\ UNCHANGED <<client, rows, adapter, params, grads, sampler, lapses>>
    BY DEF Complete, engine, history, EngineOK
  <1>2. \A i \in DOMAIN results : results[i] # "pending"
    BY <1>1 DEF TypeOK, Outcomes
  <1>3. DOMAIN results' = {}
    BY <1>1 DEF EmptyFn
  <1>4. /\ DOMAIN futures' = DOMAIN futures
        /\ \A i \in DOMAIN futures :
              /\ futures'[i].kind = futures[i].kind /\ futures'[i].model = futures[i].model
              /\ i \in DOMAIN results => futures'[i].status = results[i]
              /\ i \notin DOMAIN results => futures'[i] = futures[i]
    BY <1>1, WrittenIsTable
  <1>5. pc' \in {"run_sample", "run_other", "barriers"} /\ pc \in Handling
        /\ (pc' # "barriers" => UNCHANGED found)
    BY DEF Complete, ToRun, Handling
  <1>q. QED
    BY <1>1, <1>2, <1>3, <1>4, <1>5 DEF Taken, Pending, Done

(* Whatever order batches and queries come in, the single requests are     *)
(* handled in theirs.                                                      *)
LEMMA OthersInOrderNext ==
  EngineOK /\ Cycle /\ SavesInv /\ Ordered /\ OthersInOrder /\ [Next]_vars => OthersInOrder'
  <1> SUFFICES ASSUME EngineOK, Cycle, SavesInv, Ordered, OthersInOrder, [Next]_vars PROVE OthersInOrder'
    OBVIOUS
  <1>1. TypeOK
    BY DEF EngineOK
  <1>2. ASSUME NEW kind \in Kinds, NEW m \in Models,
               NEW n \in Names \cup {None} \cup (Models \X Names), Send(kind, m, n)
        PROVE  OthersInOrder'
    <2>1. PICK x \in Nat : Adds(x, kind, m)
      BY <1>1, <1>2, SendAdds
    <2>2. UNCHANGED <<pc, found, results, lapses>>
      BY <1>2 DEF Send, history
    <2>3. ~Taken(x)' /\ \A i \in DOMAIN futures : Taken(i)' <=> Taken(i)
      BY <2>1, <2>2 DEF Taken, Pending, Adds
    <2>4. \A i \in Singles' : i = x \/ (i \in Singles /\ i \in DOMAIN futures)
      BY <2>1 DEF Singles, RequestsOf, Adds
    <2>5. found.other \subseteq DOMAIN futures
      BY <1>1 DEF TypeOK, RequestsOf
    <2>6. "crashed" \notin lapses' => \A k, i \in Singles' : Taken(k)' /\ ~Taken(i)' => k < i
      BY <2>1, <2>2, <2>3, <2>4 DEF OthersInOrder, Adds
    <2>7. pc' \in Handling => \A j \in found'.other, i \in Singles' \ found'.other : ~Taken(i)' => j < i
      BY <2>1, <2>2, <2>3, <2>4, <2>5 DEF OthersInOrder, Adds
    <2>q. QED
      BY <2>6, <2>7 DEF OthersInOrder
  <1>3. CASE FindBarriers \/ FindForwardBackward \/ FindSample \/ UNCHANGED vars
    <2>1. UNCHANGED <<futures, results, lapses>> /\ (pc' \notin Handling \/ UNCHANGED <<pc, found>>)
      BY <1>3 DEF FindBarriers, FindForwardBackward, FindSample, vars, table, Handling, history
    <2>q. QED
      BY <2>1 DEF OthersInOrder, Singles, RequestsOf, Taken, Pending
  <1>4. CASE FindOther
    <2>1. UNCHANGED <<futures, results, lapses>> /\ found'.other = PendingOf(Kinds \ Batched)
      BY <1>1, <1>4 DEF FindOther, table, TypeOK, history
    <2>2. \A i \in Singles \ found'.other : Taken(i)
      BY <2>1 DEF Singles, RequestsOf, PendingOf, Taken
    <2>q. QED
      BY <2>1, <2>2 DEF OthersInOrder, Singles, RequestsOf, Taken, Pending
  <1>5. CASE ForwardBackward \/ Sample
    <2>1. /\ UNCHANGED <<futures, found>> /\ DOMAIN results = {} /\ pc \in Handling
          /\ ("crashed" \in lapses => "crashed" \in lapses')
      BY <1>5 DEF ForwardBackward, Sample, table, Cycle, Handling
    <2>2. DOMAIN results' = found.forward \/ DOMAIN results' = found.sample
      BY <1>5, OutcomeIsOutcome DEF ForwardBackward, Sample
    <2>3. \A i \in Singles : i \notin DOMAIN results'
      BY <1>1, <2>2 DEF TypeOK, RequestsOf, Batched, Singles
    <2>4. Singles' = Singles /\ \A i \in Singles : Taken(i)' <=> Taken(i)
      BY <2>1, <2>3 DEF Singles, RequestsOf, Taken, Pending
    <2>q. QED
      BY <2>1, <2>4 DEF OthersInOrder
  <1>6. CASE Complete
    <2>1. Singles' = Singles /\ \A i \in Singles : Taken(i)' <=> Taken(i)
      BY <1>6, CompleteWrites DEF Singles, RequestsOf
    <2>q. QED
      BY <1>6, <2>1, CompleteWrites DEF OthersInOrder, Handling
  <1>7. ASSUME NEW x \in DOMAIN futures,
               CreateModel(x) \/ NotLoaded(x) \/ OptimStep(x) \/ LoadWeights(x) \/ SaveWeights(x)
        PROVE  OthersInOrder'
    <2>1. /\ UNCHANGED <<futures, pc, found>> /\ pc = "run_other" /\ x \in found.other /\ ~Taken(x)
          /\ \A i \in found.other : i \notin DOMAIN results => x <= i
          /\ \A i \in DOMAIN futures : Taken(i)' <=> Taken(i) \/ i = x
      BY <1>7, TurnTakes
    <2>2. "crashed" \in lapses => "crashed" \in lapses'
      BY <1>7, TurnHasOutcome
    <2>3. Singles' = Singles /\ Singles \subseteq DOMAIN futures /\ DOMAIN futures \subseteq Nat
      BY <1>1, <2>1, FuturesIndexed DEF Singles, RequestsOf
    <2>4. ASSUME NEW i \in Singles, ~Taken(i), i # x PROVE x < i
      <3>1. CASE i \in found.other
        <4>1. x <= i
          BY <2>1, <2>3, <2>4, <3>1 DEF Taken
        <4>q. QED
          BY <2>3, <2>4, <4>1
      <3>2. CASE i \notin found.other
        BY <2>1, <2>4, <3>2 DEF OthersInOrder, Handling
      <3>q. QED
        BY <3>1, <3>2
    <2>5. "crashed" \notin lapses' => \A k, i \in Singles : Taken(k)' /\ ~Taken(i)' => k < i
      BY <2>1, <2>2, <2>3, <2>4 DEF OthersInOrder
    <2>6. \A j \in found.other, i \in Singles \ found.other : ~Taken(i)' => j < i
      BY <2>1, <2>3 DEF OthersInOrder, Handling
    <2>q. QED
      BY <2>1, <2>3, <2>5, <2>6 DEF OthersInOrder
  <1>8. CASE Crash
    BY <1>8 DEF Crash, OthersInOrder, Handling
  <1>q. QED
    BY <1>2, <1>3, <1>4, <1>5, <1>6, <1>7, <1>8 DEF Next, Sends, Work

(* From the first query to the batch, a barrier stays before the updates   *)
(* that wait.                                                              *)
LEMMA BarriersNext == EngineOK /\ Ordered /\ Barriers /\ [Next]_vars => Barriers'
  <1> SUFFICES ASSUME EngineOK, Ordered, Barriers, [Next]_vars PROVE Barriers'
    OBVIOUS
  <1>1. TypeOK
    BY DEF EngineOK
  <1>2. ASSUME NEW kind \in Kinds, NEW m \in Models,
               NEW n \in Names \cup {None} \cup (Models \X Names), Send(kind, m, n)
        PROVE  Barriers'
    <2>1. PICK x \in Nat : Adds(x, kind, m)
      BY <1>1, <1>2, SendAdds
    <2>2. UNCHANGED <<pc, found>> /\ found.forward \subseteq DOMAIN futures
      BY <1>1, <1>2 DEF Send, TypeOK, RequestsOf
    <2>3. \A i \in RequestsOf(Destructive)' : i = x \/ (i \in RequestsOf(Destructive) /\ i \in DOMAIN futures)
      BY <2>1 DEF RequestsOf, Adds
    <2>4. \A i \in DOMAIN futures : Pending(i)' = Pending(i)
      BY <2>1 DEF Pending, Adds
    <2>5. \A j \in DOMAIN futures : BeforeBarrier(j)' = BeforeBarrier(j)
      BY <2>1, <2>2 DEF BeforeBarrier, Adds
    <2>6. ASSUME pc \in {"forward", "sample", "other", "run_forward"}, NEW k \in DOMAIN found.barriers,
                 NEW i \in RequestsOf(Destructive)', Pending(i)', futures'[i].model = k
          PROVE  found.barriers[k] <= i
      <3>1. CASE i = x
        <4>1. found.barriers[k] \in DOMAIN futures
          BY <2>6 DEF Barriers
        <4>q. QED
          BY <2>1, <3>1, <4>1 DEF Adds
      <3>2. CASE i # x
        BY <2>1, <2>3, <2>4, <2>6, <3>2 DEF Barriers, Adds
      <3>q. QED
        BY <3>1, <3>2
    <2>q. QED
      BY <2>1, <2>2, <2>5, <2>6 DEF Barriers, Adds
  <1>3. CASE FindBarriers
    <2> DEFINE ofModel(m) == {i \in PendingOf(Destructive) : futures[i].model = m}
    <2>1. /\ UNCHANGED futures /\ pc' = "forward"
          /\ found'.barriers = [m \in {futures[i].model : i \in PendingOf(Destructive)} |-> First(ofModel(m))]
      BY <1>3 DEF FindBarriers, NothingFound, table
    <2>2. ASSUME NEW m \in DOMAIN found'.barriers
          PROVE  /\ found'.barriers[m] \in DOMAIN futures
                 /\ \A i \in ofModel(m) : found'.barriers[m] <= i
      <3>1. ofModel(m) # {} /\ found'.barriers[m] = First(ofModel(m))
        BY <2>1
      <3>2. ofModel(m) \subseteq DOMAIN futures
        BY DEF PendingOf
      <3> HIDE DEF ofModel
      <3>3. First(ofModel(m)) \in ofModel(m) /\ \A i \in ofModel(m) : First(ofModel(m)) <= i
        BY <3>1, <3>2, FirstIsIn
      <3>q. QED
        BY <3>1, <3>2, <3>3
    <2>3. \A m, i : i \in RequestsOf(Destructive) /\ Pending(i) /\ futures[i].model = m => i \in ofModel(m)
      BY DEF RequestsOf, PendingOf
    <2> HIDE DEF ofModel
    <2>q. QED
      BY <2>1, <2>2, <2>3 DEF Barriers, RequestsOf, Pending
  <1>4. CASE FindForwardBackward \/ FindSample \/ FindOther \/ UNCHANGED vars
    <2>1. /\ UNCHANGED futures /\ found'.barriers = found.barriers
          /\ pc' \in {"forward", "sample", "other", "run_forward"} =>
                pc \in {"forward", "sample", "other", "run_forward"}
      BY <1>1, <1>4 DEF FindForwardBackward, FindSample, FindOther, vars, table, TypeOK
    <2>2. pc' \in {"sample", "other", "run_forward"} =>
              \/ pc \in {"sample", "other", "run_forward"} /\ found'.forward = found.forward
              \/ \A j \in found'.forward : BeforeBarrier(j)
      <3>1. CASE FindForwardBackward
        BY <1>1, <3>1 DEF FindForwardBackward, TypeOK
      <3>2. CASE FindSample \/ FindOther
        BY <1>1, <3>2 DEF FindSample, FindOther, TypeOK
      <3>3. CASE UNCHANGED vars
        BY <3>3 DEF vars
      <3>q. QED
        BY <1>4, <3>1, <3>2, <3>3
    <2>3. \A j : BeforeBarrier(j)' = BeforeBarrier(j)
      BY <2>1 DEF BeforeBarrier
    <2>4. RequestsOf(Destructive)' = RequestsOf(Destructive) /\ \A i : Pending(i)' = Pending(i)
      BY <2>1 DEF RequestsOf, Pending
    <2>q. QED
      BY <2>1, <2>2, <2>3, <2>4 DEF Barriers
  <1>5. CASE \/ ForwardBackward \/ Sample \/ Complete \/ Crash
             \/ \E x \in DOMAIN futures :
                   CreateModel(x) \/ NotLoaded(x) \/ OptimStep(x) \/ LoadWeights(x) \/ SaveWeights(x)
    <2>1. pc' \notin {"forward", "sample", "other", "run_forward"}
      BY <1>5 DEF ForwardBackward, Sample, Complete, ToRun, Crash, CreateModel, NotLoaded, OptimStep,
                  LoadWeights, SaveWeights, Turn
    <2>q. QED
      BY <2>1 DEF Barriers
  <1>q. QED
    BY <1>2, <1>3, <1>4, <1>5 DEF Next, Sends, Work

(* The requests of a client that waits never overtake each other.          *)
LEMMA WaitingNext == EngineOK /\ Cycle /\ SavesInv /\ Ordered /\ Waiting /\ [Next]_vars => Waiting'
  <1> SUFFICES ASSUME EngineOK, Cycle, SavesInv, Ordered, Waiting, [Next]_vars, client'.waits
               PROVE  OneAtATime' /\ "overtaken" \notin lapses'
    BY DEF Waiting
  <1>1. TypeOK /\ UNCHANGED client
    BY DEF EngineOK, Next, Sends, Work, Send, FindBarriers, FindForwardBackward, FindSample, FindOther,
           ForwardBackward, Sample, Complete, Crash, CreateModel, NotLoaded, OptimStep, LoadWeights,
           SaveWeights, vars
  <1>2. OneAtATime /\ "overtaken" \notin lapses
    BY <1>1 DEF Waiting
  <1>3. ASSUME NEW kind \in Kinds, NEW m \in Models,
               NEW n \in Names \cup {None} \cup (Models \X Names), Send(kind, m, n)
        PROVE  OneAtATime' /\ "overtaken" \notin lapses'
    <2>1. PICK x \in Nat : Adds(x, kind, m)
      BY <1>1, <1>3, SendAdds
    <2>2. \A i \in DOMAIN futures : Pending(i) /\ futures[i].model = m =>
              kind = "forward_backward" /\ futures[i].kind = "forward_backward"
      BY <1>1, <1>3 DEF Send, MaySend
    <2>3. OneAtATime'
      BY <1>2, <2>1, <2>2 DEF OneAtATime, Pending, Adds
    <2>q. QED
      BY <1>2, <1>3, <2>3 DEF Send, history
  <1>4. ASSUME UNCHANGED futures PROVE OneAtATime'
    BY <1>2, <1>4 DEF OneAtATime, Pending
  <1>5. CASE FindBarriers \/ FindForwardBackward \/ FindSample \/ FindOther \/ Sample \/ Crash \/ UNCHANGED vars
    BY <1>2, <1>4, <1>5 DEF FindBarriers, FindForwardBackward, FindSample, FindOther, Sample, Crash, vars,
                            table, history, LapseIf
  <1>6. CASE ForwardBackward
    <2>1. \A i \in found.forward : i \in DOMAIN futures /\ Pending(i) /\ futures[i].kind = "forward_backward"
      BY <1>1, <1>6 DEF ForwardBackward, Cycle, TypeOK, RequestsOf
    <2>2. \A i \in found.forward : ~Unforeseen(i)
      <3> SUFFICES ASSUME NEW i \in found.forward, NEW j \in PendingOf(Destructive), j < i,
                          futures[j].model = futures[i].model
                   PROVE  FALSE
        BY DEF Unforeseen, Overtakes
      <3>1. j \in DOMAIN futures /\ Pending(j) /\ futures[j].kind # "forward_backward"
        BY DEF PendingOf, Destructive
      <3>q. QED
        BY <1>2, <2>1, <3>1 DEF OneAtATime
    <2>q. QED
      BY <1>2, <1>4, <1>6, <2>2 DEF ForwardBackward, LapseIf, table
  <1>7. CASE Complete
    BY <1>2, <1>7, CompleteWrites DEF OneAtATime
  <1>8. ASSUME NEW x \in DOMAIN futures,
               CreateModel(x) \/ NotLoaded(x) \/ OptimStep(x) \/ LoadWeights(x) \/ SaveWeights(x)
        PROVE  OneAtATime' /\ "overtaken" \notin lapses'
    <2>1. UNCHANGED futures /\ Pending(x)
      BY <1>8, TurnTakes
    <2>2. CASE ~OptimStep(x)
      BY <1>2, <1>4, <1>8, <2>1, <2>2
      DEF CreateModel, NotLoaded, LoadWeights, SaveWeights, Stale, LapseIf, history
    <2>3. CASE OptimStep(x)
      <3>1. futures[x].kind = "optim_step"
        BY <2>3 DEF OptimStep, Turn
      <3>2. ~Overtakes(x, {"forward_backward"})
        <4> SUFFICES ASSUME NEW j \in PendingOf({"forward_backward"}), j < x,
                            futures[j].model = futures[x].model
                     PROVE  FALSE
          BY DEF Overtakes
        <4>q. QED
          BY <1>2, <2>1, <3>1 DEF OneAtATime, PendingOf
      <3>q. QED
        BY <1>1, <1>2, <1>4, <2>1, <2>3, <3>2, OptimStepCases
    <2>q. QED
      BY <2>2, <2>3
  <1>q. QED
    BY <1>3, <1>5, <1>6, <1>7, <1>8 DEF Next, Sends, Work

(* A model that is created is not loaded yet.                              *)
LEMMA NewModel ==
  ASSUME EngineOK, SavesInv, Ordered, Creations, NEW x \in DOMAIN futures, CreateModel(x)
  PROVE  futures[x].model \notin DOMAIN adapter /\ futures[x].model \in Models
  <1>1. ~Taken(x) /\ x \in RequestsOf({"create"})
    BY TurnTakes DEF CreateModel, Turn, RequestsOf
  <1>2. futures[x].model \in Models
    BY FuturesIndexed DEF EngineOK, Futures
  <1>q. QED
    BY <1>1, <1>2 DEF Creations

(* Models are created once, and slots are filled by those that use them.   *)
LEMMA CreationsNext ==
  EngineOK /\ Cycle /\ SavesInv /\ Ordered /\ Creations /\ [Next]_vars => Creations'
  <1> SUFFICES ASSUME EngineOK, Cycle, SavesInv, Ordered, Creations, [Next]_vars PROVE Creations'
    OBVIOUS
  <1>1. TypeOK
    BY DEF EngineOK
  <1>2. ASSUME NEW kind \in Kinds, NEW m \in Models,
               NEW n \in Names \cup {None} \cup (Models \X Names), Send(kind, m, n)
        PROVE  Creations'
    <2>1. PICK x \in Nat : Adds(x, kind, m)
      BY <1>1, <1>2, SendAdds
    <2>2. UNCHANGED <<results, adapter, params>> /\ (kind = "create" => ~Exists(m))
      <3>1. UNCHANGED <<results, adapter, params>> /\ Accepted(kind, m, n)
        BY <1>2 DEF Send, engine, history
      <3>q. QED
        BY <3>1 DEF Accepted, Saves
    <2>3. \A i \in RequestsOf({"create"})' : \/ i = x /\ kind = "create"
                                             \/ i \in RequestsOf({"create"}) /\ futures'[i] = futures[i]
      BY <2>1 DEF RequestsOf, Adds
    <2>4. \A i \in RequestsOf({"create"}) : kind = "create" => futures[i].model # m
      BY <2>2 DEF Exists, RequestsOf
    <2>5. \A i \in RequestsOf({"create"}) :
              i \in RequestsOf({"create"})' /\ futures'[i] = futures[i] /\ (Taken(i) => Taken(i)')
      BY <2>1, <2>2 DEF RequestsOf, Taken, Pending, Adds
    <2>q. QED
      BY <2>1, <2>2, <2>3, <2>4, <2>5 DEF Creations, Adds
  <1>3. ASSUME UNCHANGED <<futures, adapter>>, \A i \in DOMAIN futures : Taken(i) => Taken(i)',
               \A s \in Slots : (\A m \in DOMAIN adapter : adapter[m] # s) => params'[s] = params[s]
        PROVE  Creations'
    <2>1. RequestsOf({"create"})' = RequestsOf({"create"}) /\ RequestsOf({"create"}) \subseteq DOMAIN futures
      BY <1>3 DEF RequestsOf
    <2>q. QED
      BY <1>3, <2>1 DEF Creations
  <1>4. CASE \/ FindBarriers \/ FindForwardBackward \/ FindSample \/ FindOther \/ ForwardBackward
             \/ UNCHANGED vars
    <2>1. UNCHANGED <<futures, adapter, params>> /\ (DOMAIN results = {} \/ UNCHANGED results)
      BY <1>4 DEF FindBarriers, FindForwardBackward, FindSample, FindOther, ForwardBackward, vars, table,
                  engine, history, Cycle
    <2>q. QED
      BY <1>3, <2>1 DEF Taken, Pending
  <1>5. CASE Sample
    <2>1. UNCHANGED <<futures, adapter>> /\ DOMAIN results = {}
      BY <1>5 DEF Sample, table, Cycle
    <2>2. ASSUME NEW s \in Slots, \A m \in DOMAIN adapter : adapter[m] # s PROVE params'[s] = params[s]
      <3> DEFINE toLoad == {i \in {i \in found.sample : Loaded(i)} : ~InRAM(i)}
                 after(ids) == [t \in Slots |-> IF \E i \in ids : SlotOf(i) = t
                                                THEN Named(CHOOSE i \in ids : SlotOf(i) = t)
                                                ELSE params[t]]
      <3>1. \A i \in toLoad : SlotOf(i) # s
        BY <2>2 DEF SlotOf, Loaded
      <3>2. params' = after(toLoad) \/ \E n : params' = after({i \in toLoad : i <= n})
        BY <1>5 DEF Sample
      <3>q. QED
        BY <3>1, <3>2
    <2>q. QED
      BY <1>3, <2>1, <2>2 DEF Taken, Pending
  <1>6. CASE Complete
    <2>1. RequestsOf({"create"})' = RequestsOf({"create"}) /\ RequestsOf({"create"}) \subseteq DOMAIN futures
      BY <1>6, CompleteWrites DEF RequestsOf
    <2>q. QED
      BY <1>6, <2>1, CompleteWrites DEF Creations
  <1>7. ASSUME NEW x \in DOMAIN futures, CreateModel(x) PROVE Creations'
    <2>1. /\ UNCHANGED <<futures, params>> /\ \A i \in DOMAIN futures : Taken(i)' <=> Taken(i) \/ i = x
      BY <1>7, TurnTakes DEF CreateModel
    <2>2. x \in RequestsOf({"create"}) /\ RequestsOf({"create"})' = RequestsOf({"create"})
          /\ RequestsOf({"create"}) \subseteq DOMAIN futures
      BY <1>7, <2>1 DEF CreateModel, Turn, RequestsOf
    <2>3. CASE UNCHANGED adapter
      BY <1>3, <2>1, <2>3
    <2>4. ASSUME NEW slot, adapter' = Put(adapter, futures[x].model, slot) PROVE Creations'
      <3>1. /\ DOMAIN adapter' = DOMAIN adapter \cup {futures[x].model}
            /\ \A m \in DOMAIN adapter : adapter'[m] = adapter[m]
        BY <1>7, <2>4, NewModel DEF Put
      <3>q. QED
        BY <2>1, <2>2, <3>1 DEF Creations
    <2>q. QED
      BY <1>7, <2>3, <2>4 DEF CreateModel
  <1>8. ASSUME NEW x \in DOMAIN futures, NotLoaded(x) \/ OptimStep(x) \/ LoadWeights(x) \/ SaveWeights(x)
        PROVE  Creations'
    <2>1. /\ UNCHANGED <<futures, adapter>> /\ \A i \in DOMAIN futures : Taken(i)' <=> Taken(i) \/ i = x
      BY <1>8, TurnTakes DEF NotLoaded, OptimStep, LoadWeights, SaveWeights, engine, history
    <2>2. \A s \in Slots : (\A m \in DOMAIN adapter : adapter[m] # s) => params'[s] = params[s]
      <3>1. CASE NotLoaded(x) \/ SaveWeights(x)
        BY <3>1 DEF NotLoaded, SaveWeights, engine, history
      <3>2. CASE OptimStep(x) \/ LoadWeights(x)
        BY <1>1, <3>2, TurnMovesOneSlot
      <3>q. QED
        BY <1>8, <3>1, <3>2
    <2>q. QED
      BY <1>3, <2>1, <2>2
  <1>9. CASE Crash
    <2>1. UNCHANGED futures /\ DOMAIN adapter' = {} /\ \A s \in Slots : params'[s] = <<>>
      BY <1>9 DEF Crash, table, EmptyFn
    <2>q. QED
      BY <2>1 DEF Creations, RequestsOf
  <1>q. QED
    BY <1>2, <1>4, <1>5, <1>6, <1>7, <1>8, <1>9 DEF Next, Sends, Work

-----------------------------------------------------------------------------
(* A step that neither carries out gradients or updates nor touches        *)
(* weights.                                                                *)
Trains == {"forward_backward", "optim_step"}
DoneSame == \A m \in Models, kind \in Trains : DoneOf(kind, m)' = DoneOf(kind, m)
OpenLess == \A m \in Models, kind \in Trains :
               \A i \in OpenOf(kind, m)' : i \in OpenOf(kind, m) \/ \A j \in DOMAIN futures : j < i

LEMMA TurnStays == ASSUME InTurn, DoneSame, OpenLess PROVE InTurn'
  <1> SUFFICES ASSUME NEW m \in Models
               PROVE  /\ \A j \in DoneOf("forward_backward", m)', i \in OpenOf("optim_step", m)' : j < i
                      /\ \A i \in DoneOf("optim_step", m)', j \in OpenOf("forward_backward", m)' : i < j
    BY DEF InTurn
  <1>1. \A kind \in Trains : DoneOf(kind, m)' = DoneOf(kind, m) /\ DoneOf(kind, m) \subseteq DOMAIN futures
    BY DEF DoneSame, DoneOf
  <1>q. QED
    BY <1>1 DEF InTurn, OpenLess, Trains

(* A model whose weights and gradients stay.                               *)
LEMMA TrainedStays ==
  ASSUME DoneSame, NEW m \in Models, Trained(m), adapter'[m] = adapter[m], grads'[m] = grads[m],
         params'[adapter[m]] = params[adapter[m]]
  PROVE  Trained(m)'
  <1>1. \A kind \in Trains : DoneOf(kind, m)' = DoneOf(kind, m)
    BY DEF DoneSame
  <1>q. QED
    BY <1>1 DEF Trained, Trains

LEMMA IdleKeepsSteps ==
  ASSUME EngineOK, Steps, DoneSame, OpenLess, UNCHANGED <<adapter, grads, params>>
  PROVE  Steps'
  <1>1. DOMAIN adapter \subseteq Models
    BY DEF EngineOK, TypeOK
  <1>2. \A m \in DOMAIN adapter : Trained(m)'
    BY <1>1, TrainedStays DEF Steps
  <1>3. \A m \in Models : DoneOf("forward_backward", m)' = DoneOf("forward_backward", m)
                          /\ DoneOf("optim_step", m)' = DoneOf("optim_step", m)
    BY DEF DoneSame, Trains
  <1>q. QED
    BY <1>2, <1>3, TurnStays DEF Steps

(* Only these two steps carry out gradients and updates.                   *)
LEMMA OthersTrainNothing ==
  ASSUME EngineOK, Cycle, SavesInv, Ordered, [Next]_vars, ~ForwardBackward,
         \A x \in DOMAIN futures : ~OptimStep(x), lapses' = {}
  PROVE  DoneSame /\ OpenLess
  <1>1. TypeOK
    BY DEF EngineOK
  <1>2. ASSUME NEW kind \in Kinds, NEW m \in Models,
               NEW n \in Names \cup {None} \cup (Models \X Names), Send(kind, m, n)
        PROVE  DoneSame /\ OpenLess
    <2>1. PICK x \in Nat : Adds(x, kind, m)
      BY <1>1, <1>2, SendAdds
    <2>2. UNCHANGED results
      BY <1>2 DEF Send
    <2>3. DoneSame
      BY <2>1, <2>2 DEF DoneSame, DoneOf, Done, Adds
    <2>4. OpenLess
      BY <2>1, <2>2 DEF OpenLess, OpenOf, Taken, Pending, Adds
    <2>q. QED
      BY <2>3, <2>4
  <1>3. ASSUME UNCHANGED <<futures, results>> PROVE DoneSame /\ OpenLess
    BY <1>3 DEF DoneSame, OpenLess, DoneOf, OpenOf, Done, Taken, Pending
  <1>4. CASE FindBarriers \/ FindForwardBackward \/ FindSample \/ FindOther \/ UNCHANGED vars
    BY <1>3, <1>4 DEF FindBarriers, FindForwardBackward, FindSample, FindOther, vars, table
  <1>5. ASSUME UNCHANGED futures, \A i \in DOMAIN results : i \in DOMAIN results' /\ results'[i] = results[i],
               \A i \in DOMAIN results' : i \in DOMAIN results \/ futures[i].kind \notin Trains
        PROVE  DoneSame /\ OpenLess
    <2>1. DoneSame
      BY <1>5 DEF DoneSame, DoneOf, Done
    <2>2. OpenLess
      BY <1>5 DEF OpenLess, OpenOf, Taken, Pending
    <2>q. QED
      BY <2>1, <2>2
  <1>6. CASE Sample
    <2>1. UNCHANGED futures /\ DOMAIN results = {}
      BY <1>6 DEF Sample, table, Cycle
    <2>2. DOMAIN results' = found.sample
      BY <1>6, OutcomeIsOutcome DEF Sample
    <2>3. \A i \in DOMAIN results' : futures[i].kind \notin Trains
      BY <1>1, <2>2 DEF TypeOK, RequestsOf, Trains
    <2>q. QED
      BY <1>5, <2>1, <2>3
  <1>7. CASE Complete
    <2>1. DoneSame
      BY <1>7, CompleteWrites DEF DoneSame, DoneOf
    <2>2. OpenLess
      BY <1>7, CompleteWrites DEF OpenLess, OpenOf
    <2>q. QED
      BY <2>1, <2>2
  <1>8. ASSUME NEW x \in DOMAIN futures,
               CreateModel(x) \/ NotLoaded(x) \/ LoadWeights(x) \/ SaveWeights(x)
        PROVE  DoneSame /\ OpenLess
    <2>1. /\ UNCHANGED futures /\ DOMAIN results' = DOMAIN results \cup {x} /\ ~Taken(x)
          /\ \A i \in DOMAIN results : results'[i] = results[i] \/ i = x
      BY <1>8, TurnTakes
    <2>2. x \notin DOMAIN results
      BY <2>1 DEF Taken
    <2>3. futures[x].kind \notin Trains
      BY <1>8 DEF CreateModel, NotLoaded, LoadWeights, SaveWeights, Turn, Trains, Saves
    <2>q. QED
      BY <1>5, <2>1, <2>2, <2>3
  <1>9. ~Crash
    BY DEF Crash
  <1>q. QED
    BY <1>2, <1>4, <1>6, <1>7, <1>8, <1>9 DEF Next, Sends, Work

(* Those that touch weights or models do so only with a lapse, or make a   *)
(* model that has none.                                                    *)
LEMMA OthersKeepSteps ==
  ASSUME EngineOK, EngineOK', Cycle, SavesInv, Ordered, Creations, [Next]_vars, ~ForwardBackward,
         \A x \in DOMAIN futures : ~OptimStep(x), lapses' = {}, Steps
  PROVE  Steps'
  <1>1. DoneSame /\ OpenLess /\ ~Crash
    BY OthersTrainNothing DEF Crash
  <1>2. CASE UNCHANGED <<adapter, grads, params>>
    BY <1>1, <1>2, IdleKeepsSteps
  <1>3. ASSUME NEW kind \in Kinds, NEW m \in Models,
               NEW n \in Names \cup {None} \cup (Models \X Names), Send(kind, m, n)
        PROVE  UNCHANGED <<adapter, grads, params>>
    BY <1>3 DEF Send, engine, history
  <1>4. CASE FindBarriers \/ FindForwardBackward \/ FindSample \/ FindOther \/ Complete \/ UNCHANGED vars
    BY <1>2, <1>4
    DEF FindBarriers, FindForwardBackward, FindSample, FindOther, Complete, vars, engine, history
  <1>5. CASE Sample
    <2>1. UNCHANGED <<adapter, grads>> /\ params' = params
      BY <1>5 DEF Sample, LapseIf
    <2>q. QED
      BY <1>2, <2>1
  <1>6. ASSUME NEW x \in DOMAIN futures, NotLoaded(x) \/ LoadWeights(x) \/ SaveWeights(x)
        PROVE  UNCHANGED <<adapter, grads, params>>
    BY <1>6 DEF NotLoaded, LoadWeights, SaveWeights, engine, history
  <1>7. ASSUME NEW x \in DOMAIN futures, CreateModel(x) PROVE Steps'
    <2>a. PICK m : m = futures[x].model
      OBVIOUS
    <2>1. m \notin DOMAIN adapter /\ m \in Models /\ UNCHANGED params /\ DOMAIN adapter \subseteq Models
      BY <1>7, <2>a, NewModel DEF CreateModel, EngineOK, TypeOK
    <2>2. CASE UNCHANGED <<adapter, grads>>
      BY <1>2, <2>1, <2>2
    <2>3. ASSUME NEW slot \in Slots, NextSlot(slot), adapter' = Put(adapter, m, slot), grads' = Put(grads, m, NoGrads)
          PROVE  Steps'
      <3>1. /\ DOMAIN adapter' = DOMAIN adapter \cup {m} /\ adapter'[m] = slot /\ grads'[m] = NoGrads
            /\ \A k \in DOMAIN adapter : adapter'[k] = adapter[k] /\ grads'[k] = grads[k] /\ adapter[k] \in Slots
        BY <2>1, <2>3 DEF Put, EngineOK, TypeOK
      <3>2. params[slot] = <<>>
        <4>1. ASSUME NEW k \in DOMAIN adapter PROVE adapter[k] # slot
          <5>1. adapter[k] < slot /\ adapter[k] \in Nat
            BY <2>3, <3>1 DEF NextSlot, Slots
          <5>q. QED
            BY <5>1
        <4>q. QED
          BY <4>1 DEF Creations
      <3>3. DoneOf("forward_backward", m)' = {} /\ DoneOf("optim_step", m)' = {}
        BY <1>1, <2>1 DEF Steps, DoneSame, Trains
      <3>4. Updates({}, {}) = {} /\ Since({}, {}) = {}
        BY DEF Updates, Since
      <3>5. Trained(m)'
        <4>1. {{j \in Requests : params'[adapter'[m]][k][j] > 0} : k \in DOMAIN params'[adapter'[m]]} = {}
          BY <2>1, <3>1, <3>2
        <4>2. {j \in Requests : grads'[m][j] > 0} = {}
          BY <3>1 DEF NoGrads
        <4>3. /\ Updates(DoneOf("forward_backward", m)', DoneOf("optim_step", m)') = {}
              /\ Since(DoneOf("forward_backward", m)', DoneOf("optim_step", m)') = {}
          BY <3>3, <3>4
        <4>q. QED
          BY <4>1, <4>2, <4>3 DEF Trained
      <3>6. \A k \in DOMAIN adapter : Trained(k)'
        BY <1>1, <2>1, <3>1, TrainedStays DEF Steps
      <3>7. \A k \in Models : DoneOf("forward_backward", k)' = DoneOf("forward_backward", k)
                              /\ DoneOf("optim_step", k)' = DoneOf("optim_step", k)
        BY <1>1 DEF DoneSame, Trains
      <3>8. InTurn'
        BY <1>1, TurnStays DEF Steps
      <3>9. \A k \in DOMAIN adapter' : Trained(k)'
        BY <3>1, <3>5, <3>6
      <3>10. \A k \in Models \ DOMAIN adapter' :
                 DoneOf("forward_backward", k)' \cup DoneOf("optim_step", k)' = {}
        BY <3>1, <3>7 DEF Steps
      <3>q. QED
        BY <3>8, <3>9, <3>10 DEF Steps
    <2>q. QED
      BY <1>7, <2>a, <2>2, <2>3 DEF CreateModel
  <1>q. QED
    BY <1>1, <1>2, <1>3, <1>4, <1>5, <1>6, <1>7 DEF Next, Sends, Work

(* A batch of gradients that nothing overtakes adds to what the next       *)
(* update of their model will take.                                        *)
LEMMA ForwardBackwardKeepsSteps ==
  ASSUME EngineOK, Cycle, Barriers, Steps, ForwardBackward, lapses' = {}
  PROVE  Steps'
  <1>1. TypeOK /\ UNCHANGED <<futures, adapter, params>> /\ DOMAIN results = {} /\ pc = "run_forward"
    BY DEF EngineOK, ForwardBackward, table, Cycle
  <1>2. PICK D \in SUBSET {i \in found.forward : Loaded(i)} :
            /\ grads' = Accumulated(D) /\ results' = Outcome(found.forward, D)
            /\ \A i \in D : ~Unforeseen(i)
    BY DEF ForwardBackward, LapseIf
  <1>3. /\ DOMAIN results' = found.forward
        /\ \A i \in found.forward : /\ i \in DOMAIN futures /\ i \in Requests /\ Pending(i)
                                    /\ futures[i].kind = "forward_backward"
                                    /\ results'[i] = IF i \in D THEN "completed" ELSE "failed"
    BY <1>1, <1>2, FuturesIndexed DEF TypeOK, RequestsOf, Outcome, Cycle
  <1> DEFINE new(m) == {i \in D : futures[i].model = m}
  <1>4. ASSUME NEW m \in Models
        PROVE  /\ DoneOf("optim_step", m)' = DoneOf("optim_step", m)
               /\ DoneOf("forward_backward", m)' = DoneOf("forward_backward", m) \cup new(m)
               /\ new(m) \subseteq OpenOf("forward_backward", m)
               /\ \A kind \in Trains : \A i \in OpenOf(kind, m)' : i \in OpenOf(kind, m)
    <2>1. \A i \in DOMAIN futures, kind \in Trains :
              Done(i, kind, m)' <=> Done(i, kind, m) \/ (kind = "forward_backward" /\ i \in new(m))
      BY <1>1, <1>2, <1>3 DEF Done, Pending, Trains
    <2>2. DoneOf("optim_step", m)' = DoneOf("optim_step", m)
      BY <1>1, <2>1 DEF DoneOf, Trains
    <2>3. DoneOf("forward_backward", m)' = DoneOf("forward_backward", m) \cup new(m)
      BY <1>1, <1>2, <1>3, <2>1 DEF DoneOf, Trains
    <2>4. new(m) \subseteq OpenOf("forward_backward", m)
      BY <1>1, <1>2, <1>3 DEF OpenOf, Taken
    <2>5. \A kind \in Trains : \A i \in OpenOf(kind, m)' : i \in OpenOf(kind, m)
      BY <1>1 DEF OpenOf, Taken, Pending
    <2>q. QED
      BY <2>2, <2>3, <2>4, <2>5
  <1>5. ASSUME NEW m \in Models, NEW j \in new(m), NEW i \in OpenOf("optim_step", m) PROVE j < i
    <2>1. /\ i \in RequestsOf(Destructive) /\ Pending(i) /\ futures[i].model = m /\ futures[j].model = m
          /\ i \in PendingOf(Destructive) /\ i # j /\ i \in Nat /\ j \in Nat /\ j \in found.forward
      BY <1>1, <1>2, <1>3, FuturesIndexed
      DEF OpenOf, Taken, RequestsOf, PendingOf, Destructive, Requests
    <2>2. CASE m \in DOMAIN found.barriers
      <3>1. found.barriers[m] <= i /\ j < found.barriers[m] /\ found.barriers[m] \in DOMAIN futures
        BY <1>1, <2>1, <2>2 DEF Barriers, BeforeBarrier
      <3>q. QED
        BY <1>1, <2>1, <3>1, FuturesIndexed
    <2>3. CASE m \notin DOMAIN found.barriers
      BY <1>2, <2>1, <2>3 DEF Unforeseen, Overtakes
    <2>q. QED
      BY <2>2, <2>3
  <1>6. \A m \in Models : new(m) \in SUBSET Nat /\ DoneOf("forward_backward", m) \in SUBSET Nat
                          /\ DoneOf("optim_step", m) \in SUBSET Nat
    BY <1>1, <1>2, <1>3, FuturesIndexed DEF DoneOf
  <1>7. DOMAIN adapter \subseteq Models /\ \A m \in Models \ DOMAIN adapter : new(m) = {}
    BY <1>1, <1>2 DEF TypeOK, Loaded
  <1>8. ASSUME NEW m \in DOMAIN adapter
        PROVE  {j \in Requests : grads'[m][j] > 0} = {j \in Requests : grads[m][j] > 0} \cup new(m)
    <2>1. m \in DOMAIN grads /\ new(m) \subseteq Requests
      BY <1>1, <1>2, <1>3 DEF TypeOK
    <2>2. \A j \in Requests : /\ grads[m][j] \in Nat
                              /\ grads'[m][j] = IF j \in new(m) THEN grads[m][j] + 1 ELSE grads[m][j]
      BY <1>1, <1>2, <2>1 DEF TypeOK, Gradients, Accumulated
    <2> HIDE DEF new
    <2>q. QED
      BY <2>1, <2>2
  <1> HIDE DEF new
  <1>9. InTurn'
    <2> SUFFICES ASSUME NEW m \in Models
                 PROVE  /\ \A j \in DoneOf("forward_backward", m)', i \in OpenOf("optim_step", m)' : j < i
                        /\ \A i \in DoneOf("optim_step", m)', j \in OpenOf("forward_backward", m)' : i < j
      BY DEF InTurn
    <2>q. QED
      BY <1>4, <1>5 DEF InTurn, Steps, Trains
  <1>10. \A m \in Models \ DOMAIN adapter' :
             DoneOf("forward_backward", m)' \cup DoneOf("optim_step", m)' = {}
    BY <1>1, <1>4, <1>7 DEF Steps
  <1>11. ASSUME NEW m \in DOMAIN adapter PROVE Trained(m)'
    <2> DEFINE F == DoneOf("forward_backward", m)
               S == DoneOf("optim_step", m)
    <2>1. \A d \in new(m), s \in S : s < d
      BY <1>4, <1>7 DEF Steps, InTurn
    <2>2. F \in SUBSET Nat /\ S \in SUBSET Nat /\ new(m) \in SUBSET Nat
      BY <1>6, <1>7
    <2>3. Updates(F \cup new(m), S) = Updates(F, S) /\ Since(F \cup new(m), S) = Since(F, S) \cup new(m)
      <3> HIDE DEF F, S
      <3>q. QED
        BY <2>1, <2>2, MoreGradients
    <2>4. /\ {{j \in Requests : params[adapter[m]][k][j] > 0} : k \in DOMAIN params[adapter[m]]} = Updates(F, S)
          /\ {j \in Requests : grads[m][j] > 0} = Since(F, S)
      BY DEF Steps, Trained
    <2>5. DoneOf("forward_backward", m)' = F \cup new(m) /\ DoneOf("optim_step", m)' = S
      BY <1>4, <1>7
    <2> HIDE DEF F, S
    <2>6. /\ Updates(DoneOf("forward_backward", m)', DoneOf("optim_step", m)') = Updates(F, S)
          /\ Since(DoneOf("forward_backward", m)', DoneOf("optim_step", m)') = Since(F, S) \cup new(m)
      BY <2>3, <2>5
    <2>7. {j \in Requests : grads'[m][j] > 0} = Since(F, S) \cup new(m)
      BY <1>8, <2>4
    <2>q. QED
      BY <1>1, <2>4, <2>6, <2>7 DEF Trained
  <1>q. QED
    BY <1>1, <1>9, <1>10, <1>11 DEF Steps

(* An update that overtakes no gradients takes all that are accumulated.   *)
LEMMA OptimStepKeepsSteps ==
  ASSUME EngineOK, SavesInv, Ordered, OthersInOrder, Steps, lapses' = {},
         NEW x \in DOMAIN futures, OptimStep(x)
  PROVE  Steps'
  <1>a. PICK m : m = futures[x].model
    OBVIOUS
  <1>0. TypeOK /\ UNCHANGED <<futures, adapter>> /\ m \in DOMAIN adapter /\ m \in Models
        /\ futures[x].kind = "optim_step" /\ lapses = {}
    BY <1>a, OptimStepCases, TurnHasOutcome DEF EngineOK, table, TypeOK
  <1>2. /\ x \in Singles /\ ~Taken(x) /\ Pending(x) /\ x \notin DOMAIN results
        /\ \A i \in DOMAIN futures : Taken(i)' <=> Taken(i) \/ i = x
    BY TurnTakes DEF Taken
  <1>b. CASE UNCHANGED <<params, grads>> /\ Result(x, "failed")
    <2>1. DOMAIN results' = DOMAIN results \cup {x} /\ results'[x] = "failed"
          /\ \A i \in DOMAIN results : results'[i] = results[i]
      BY <1>2, <1>b DEF Result, Put
    <2>2. \A i \in DOMAIN futures, kind \in Trains, k \in Models : Done(i, kind, k)' <=> Done(i, kind, k)
      BY <1>0, <1>2, <2>1 DEF Done, Pending
    <2>3. DoneSame /\ OpenLess
      BY <1>0, <1>2, <2>2 DEF DoneSame, OpenLess, DoneOf, OpenOf
    <2>q. QED
      BY <1>0, <1>b, <2>3, IdleKeepsSteps
  <1> SUFFICES ASSUME ~(UNCHANGED <<params, grads>> /\ Result(x, "failed")) PROVE Steps'
    BY <1>b
  <1>c. /\ Result(x, "completed") /\ ~Overtakes(x, {"forward_backward"})
        /\ \/ grads[m] = NoGrads /\ UNCHANGED <<params, grads>>
           \/ /\ grads[m] # NoGrads /\ grads' = [grads EXCEPT ![m] = NoGrads]
              /\ params' = [params EXCEPT ![adapter[m]] = Append(@, grads[m])]
    BY <1>a, <1>0, OptimStepCases
  <1>1. /\ TypeOK /\ UNCHANGED <<futures, adapter>> /\ m \in DOMAIN adapter /\ m \in Models
        /\ futures[x].kind = "optim_step" /\ lapses = {} /\ ~Overtakes(x, {"forward_backward"})
    BY <1>0, <1>c
  <1>3. DOMAIN results' = DOMAIN results \cup {x} /\ results'[x] = "completed"
        /\ \A i \in DOMAIN results : results'[i] = results[i]
    BY <1>2, <1>c DEF Result, Put
  <1>4. \A i \in DOMAIN futures, kind \in Trains, k \in Models :
            Done(i, kind, k)' <=> Done(i, kind, k) \/ (i = x /\ kind = "optim_step" /\ k = m)
    <2> SUFFICES ASSUME NEW i \in DOMAIN futures, NEW kind \in Trains, NEW k \in Models
                 PROVE  Done(i, kind, k)' <=> Done(i, kind, k) \/ (i = x /\ kind = "optim_step" /\ k = m)
      OBVIOUS
    <2>1. CASE i # x
      BY <1>1, <1>3, <2>1 DEF Done
    <2>2. CASE i = x
      BY <1>a, <1>1, <1>2, <1>3, <2>2 DEF Done, Pending
    <2>q. QED
      BY <2>1, <2>2
  <1>5. \A k \in Models : /\ DoneOf("forward_backward", k)' = DoneOf("forward_backward", k)
                          /\ k # m => DoneOf("optim_step", k)' = DoneOf("optim_step", k)
                          /\ \A kind \in Trains : \A i \in OpenOf(kind, k)' : i \in OpenOf(kind, k)
    BY <1>1, <1>2, <1>4 DEF DoneOf, OpenOf, Trains
  <1>6. DoneOf("optim_step", m)' = DoneOf("optim_step", m) \cup {x}
    BY <1>1, <1>4 DEF DoneOf, Trains
  <1>7. DOMAIN futures \subseteq Nat /\ DOMAIN adapter \subseteq Models 
        /\ \A i \in DOMAIN futures : futures[i].kind \in Kinds
    <2>1. TypeOK
      BY <1>1
    <2>2. DOMAIN futures = 1 .. Len(futures) /\ Len(futures) \in Nat /\ \A i \in DOMAIN futures : futures[i] \in Futures
      BY <2>1, FuturesIndexed
    <2>q. QED
      BY <2>1, <2>2 DEF TypeOK, Futures
  <1>8. ASSUME NEW j \in OpenOf("forward_backward", m) PROVE x < j
    <2>1. j \in PendingOf({"forward_backward"}) /\ futures[j].model = futures[x].model /\ j # x
      BY <1>a, <1>1 DEF OpenOf, Taken, PendingOf
    <2>2. ~(j < x)
      BY <1>1, <2>1 DEF Overtakes
    <2>3. j \in Nat /\ x \in Nat
      BY <1>7 DEF OpenOf
    <2>q. QED
      BY <2>1, <2>2, <2>3
  <1>9. InTurn'
    <2> SUFFICES ASSUME NEW k \in Models
                 PROVE  /\ \A j \in DoneOf("forward_backward", k)', i \in OpenOf("optim_step", k)' : j < i
                        /\ \A i \in DoneOf("optim_step", k)', j \in OpenOf("forward_backward", k)' : i < j
      BY DEF InTurn
    <2>q. QED
      BY <1>5, <1>6, <1>8 DEF InTurn, Steps, Trains
  <1>10. \A k \in Models \ DOMAIN adapter' :
             DoneOf("forward_backward", k)' \cup DoneOf("optim_step", k)' = {}
    BY <1>1, <1>5 DEF Steps
  <1>11. /\ grads' = [grads EXCEPT ![m] = NoGrads]
         /\ \/ grads[m] = NoGrads /\ UNCHANGED params
            \/ grads[m] # NoGrads /\ params' = [params EXCEPT ![adapter[m]] = Append(@, grads[m])]
    BY <1>1, <1>c DEF TypeOK
  <1>12. ASSUME NEW k \in DOMAIN adapter, k # m PROVE Trained(k)'
    <2>1. adapter[k] # adapter[m] /\ k \in DOMAIN grads /\ adapter[k] \in Slots
      BY <1>1, <1>12 DEF TypeOK
    <2>2. grads'[k] = grads[k] /\ params'[adapter[k]] = params[adapter[k]]
      BY <1>1, <1>11, <1>12, <2>1 DEF TypeOK
    <2>3. /\ Updates(DoneOf("forward_backward", k)', DoneOf("optim_step", k)')
             = Updates(DoneOf("forward_backward", k), DoneOf("optim_step", k))
          /\ Since(DoneOf("forward_backward", k)', DoneOf("optim_step", k)')
             = Since(DoneOf("forward_backward", k), DoneOf("optim_step", k))
      BY <1>5, <1>7, <1>12
    <2>q. QED
      BY <1>1, <2>2, <2>3 DEF Steps, Trained
  <1>13. Trained(m)'
    <2> DEFINE F == DoneOf("forward_backward", m)
               S == DoneOf("optim_step", m)
               taken(g) == {j \in Requests : g[j] > 0}
               w == params[adapter[m]]
    <2>1. \A s \in S : s < x
      <3>1. \A s \in S : s \in DOMAIN futures /\ Done(s, "optim_step", m)
        BY DEF DoneOf
      <3>2. \A s \in S : s \in Singles
        BY <1>7, <3>1 DEF Done, Singles, RequestsOf, Batched
      <3>3. \A s \in S : Taken(s)
        BY <3>1 DEF Done, Taken, Pending
      <3>q. QED
        BY <1>1, <1>2, <3>2, <3>3 DEF OthersInOrder
    <2>2. \A j \in F : j < x
      BY <1>a, <1>1, <1>2 DEF Steps, InTurn, OpenOf
    <2>3. F \in SUBSET Nat /\ S \in SUBSET Nat /\ x \in Nat
      BY <1>7 DEF DoneOf
    <2>4. /\ Updates(F, S \cup {x}) = Updates(F, S) \cup ({Since(F, S)} \ {{}})
          /\ Since(F, S \cup {x}) = {}
      <3> HIDE DEF F, S
      <3>q. QED
        BY <2>1, <2>2, <2>3, OneUpdateMore
    <2>5. {taken(w[k]) : k \in DOMAIN w} = Updates(F, S) /\ taken(grads[m]) = Since(F, S)
      BY <1>1 DEF Steps, Trained
    <2>6. /\ Updates(DoneOf("forward_backward", m)', DoneOf("optim_step", m)') = Updates(F, S \cup {x})
          /\ Since(DoneOf("forward_backward", m)', DoneOf("optim_step", m)') = Since(F, S \cup {x})
      BY <1>1, <1>5, <1>6
    <2>7. /\ w \in Seq(Gradients) /\ grads[m] \in Gradients /\ m \in DOMAIN grads
          /\ adapter[m] \in Slots /\ params \in [Slots -> Seq(Gradients)]
      BY <1>1 DEF TypeOK
    <2>8. grads'[m] = NoGrads /\ taken(NoGrads) = {}
      BY <1>11, <2>7 DEF NoGrads
    <2>9. {taken(params'[adapter[m]][k]) : k \in DOMAIN params'[adapter[m]]}
          = {taken(w[k]) : k \in DOMAIN w} \cup ({taken(grads[m])} \ {{}})
      <3>1. CASE grads[m] = NoGrads
        BY <1>11, <2>8, <3>1
      <3>2. CASE grads[m] # NoGrads
        <4>1. taken(grads[m]) # {}
          BY <2>7, <3>2 DEF NoGrads, Gradients
        <4>2. params'[adapter[m]] = Append(w, grads[m])
          BY <1>11, <2>7, <3>2
        <4>3. /\ DOMAIN params'[adapter[m]] = DOMAIN w \cup {Len(w) + 1}
              /\ \A k \in DOMAIN w : params'[adapter[m]][k] = w[k]
              /\ params'[adapter[m]][Len(w) + 1] = grads[m]
          BY <2>7, <4>2
        <4> HIDE DEF taken, w
        <4>q. QED
          BY <4>1, <4>3
      <3>q. QED
        BY <3>1, <3>2
    <2> HIDE DEF F, S, w
    <2>10. {taken(params'[adapter[m]][k]) : k \in DOMAIN params'[adapter[m]]} = Updates(F, S \cup {x})
           /\ taken(grads'[m]) = Since(F, S \cup {x})
      BY <2>4, <2>5, <2>8, <2>9
    <2>11. /\ {taken(params'[adapter'[m]][k]) : k \in DOMAIN params'[adapter'[m]]}
              = Updates(DoneOf("forward_backward", m)', DoneOf("optim_step", m)')
           /\ taken(grads'[m]) = Since(DoneOf("forward_backward", m)', DoneOf("optim_step", m)')
      <3> HIDE DEF taken
      <3>q. QED
        BY <1>1, <2>6, <2>10
    <2>q. QED
      BY <2>11 DEF Trained
  <1>q. QED
    BY <1>1, <1>9, <1>10, <1>12, <1>13 DEF Steps

(* What has cost a model its place is not forgotten.                       *)
LEMMA LapsesKept == ASSUME [Next]_vars, lapses' = {} PROVE lapses = {}
  BY TurnHasOutcome DEF Next, Sends, Work, Send, FindBarriers, FindForwardBackward, FindSample, FindOther,
         ForwardBackward, Sample, Complete, Crash, vars, history

LEMMA StepsNext ==
  EngineOK /\ EngineOK' /\ Cycle /\ SavesInv /\ Ordered /\ OthersInOrder /\ Barriers /\ Creations
  /\ StepsInv /\ [Next]_vars => StepsInv'
  <1> SUFFICES ASSUME EngineOK, EngineOK', Cycle, SavesInv, Ordered, OthersInOrder, Barriers, Creations,
                      StepsInv, [Next]_vars, lapses' = {}
               PROVE  Steps'
    BY DEF StepsInv
  <1>1. Steps
    BY LapsesKept DEF StepsInv
  <1>2. CASE ForwardBackward
    BY <1>1, <1>2, ForwardBackwardKeepsSteps
  <1>3. ASSUME NEW x \in DOMAIN futures, OptimStep(x) PROVE Steps'
    BY <1>1, <1>3, OptimStepKeepsSteps
  <1>4. CASE ~ForwardBackward /\ \A x \in DOMAIN futures : ~OptimStep(x)
    BY <1>1, <1>4, OthersKeepSteps
  <1>q. QED
    BY <1>2, <1>3, <1>4

(* At the start nothing has been sent.                                     *)
LEMMA OrderInit == Init => Ordered /\ OthersInOrder /\ Barriers /\ Waiting /\ Creations /\ StepsInv
  <1> SUFFICES ASSUME Init PROVE Ordered /\ OthersInOrder /\ Barriers /\ Waiting /\ Creations /\ StepsInv
    OBVIOUS
  <1>1. /\ DOMAIN futures = {} /\ pc = "barriers" /\ lapses = {} /\ DOMAIN adapter = {}
        /\ \A s \in Slots : params[s] = <<>>
    BY DEF Init, NoModels, EmptyFn
  <1>2. Ordered /\ OthersInOrder /\ Barriers /\ Waiting
    BY <1>1 DEF Ordered, OthersInOrder, Barriers, Waiting, OneAtATime, Singles, RequestsOf, Handling
  <1>3. Creations
    BY <1>1 DEF Creations, RequestsOf
  <1>4. StepsInv
    BY <1>1 DEF StepsInv, Steps, InTurn, DoneOf, OpenOf
  <1>q. QED
    BY <1>2, <1>3, <1>4

(* The updates that the table stands for are those of the requests that    *)
(* are done.                                                               *)
LEMMA InOrderIsUpdates ==
  ASSUME TypeOK, NEW m \in Models
  PROVE  InOrder(m) = Updates(DoneOf("forward_backward", m), DoneOf("optim_step", m))
  <1> DEFINE F == DoneOf("forward_backward", m)
             S == DoneOf("optim_step", m)
             took(i) == {j \in 1 .. i : /\ Done(j, "forward_backward", m)
                                        /\ \A k \in S : k < i => k < j}
             takes(i) == {j \in F : j <= i /\ \A k \in S : k < i => k < j}
  <1>1. ASSUME NEW i \in S PROVE took(i) = takes(i)
    <2>1. DOMAIN futures = 1 .. Len(futures) /\ Len(futures) \in Nat /\ i \in DOMAIN futures
      BY FuturesIndexed DEF DoneOf
    <2>2. \A j : j \in 1 .. i <=> j \in DOMAIN futures /\ j <= i
      BY <2>1
    <2>3. \A j : j \in F <=> j \in DOMAIN futures /\ Done(j, "forward_backward", m)
      BY DEF DoneOf
    <2> HIDE DEF F, S
    <2>q. QED
      BY <2>2, <2>3
  <1>2. InOrder(m) = {took(i) : i \in S} \ {{}}
    BY DEF InOrder, DoneOf
  <1>3. Updates(F, S) = {takes(i) : i \in S} \ {{}}
    BY DEF Updates
  <1> HIDE DEF F, S, took, takes
  <1>4. Updates(F, S) = InOrder(m)
    BY <1>1, <1>2, <1>3
  <1>q. QED
    BY <1>4 DEF F, S

(* For any number of models, slots, requests and failures, clients that    *)
(* wait are not overtaken, and as long as nothing has gone wrong a model   *)
(* has been through the updates that the table of futures stands for.      *)
THEOREM StepsInOrderCorrect == Spec => []StepsInOrder
  <1>1. Init => SavesInv /\ Cycle
    BY DEF Init, NoModels, EmptyFn, Cycle, SavesInv, OthersWait, SavesKnown, RepeatedInTime, SamplesKnown,
           OneName, Handling, RequestsOf, NothingFound
  <1>2. EngineOK /\ Waiting /\ StepsInv => StepsInOrder
    <2> SUFFICES ASSUME EngineOK, Waiting, StepsInv PROVE StepsInOrder
      OBVIOUS
    <2>1. TypeOK /\ DOMAIN adapter \subseteq Models
      BY DEF EngineOK, TypeOK
    <2>2. ASSUME lapses = {}, NEW m \in DOMAIN adapter
          PROVE  {{j \in Requests : params[adapter[m]][k][j] > 0} : k \in DOMAIN params[adapter[m]]} = InOrder(m)
      BY <2>1, <2>2, InOrderIsUpdates DEF StepsInv, Steps, Trained
    <2>q. QED
      BY <2>2 DEF Waiting, StepsInOrder
  <1>q. QED
    BY <1>1, <1>2, OrderInit, CycleNext, SavesNext, OrderedNext, OthersInOrderNext, BarriersNext, WaitingNext,
       CreationsNext, StepsNext, EngineInvariance, PTL DEF Spec
=============================================================================
