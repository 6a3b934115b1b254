---------------------------- MODULE ModelRetrain ----------------------------
(* Retraining on recorded traffic (ml_analyst.py): the loop, an administrator  *)
(* and scripts/retrain_ml.py each train, write model, scaler and               *)
(* metadata to three files one after the other and install them; a thread of   *)
(* the start loads the files one by one, or takes the synthetic profile, and   *)
(* analyses read what is in use without the lock. What a training learns is    *)
(* abstracted to its number.                                                   *)
(* An operator that stands right above another one with the same parameters    *)
(* and is used nowhere is a faulty variant of it (PROJECT.json, "mutants").    *)
EXTENDS SocClock, Integers

CONSTANTS MinReal, TooFew,      \* 3000 rows without "force"; 50, the least for a hold-out
          RetrainEvery,         \* auto_interval_seconds
          AutoRetrain,          \* ML_AUTO_RETRAIN
          Analysts,             \* threads that analyse: "loop" and those of requests
          MaxLive, MaxTrainings, MaxCuts, MaxForeign, RetrainEnd    \* bounds

ASSUME RetrainAssumption == {MinReal, TooFew, RetrainEvery} \subseteq Nat /\ AutoRetrain \in BOOLEAN

Trainers == {"auto", "manual", "script"}
Parts3 == {"model", "scaler", "meta"}

VARIABLES idleRows, liveRows,   \* recorded rows of origin real: from windows without and with traffic
          trained,      \* trainings begun
          modelFiles,   \* per file: None, Torn, or the training it comes from
          trainer,      \* per trainer: None, or [step, forced, made, alone]
          starting,     \* _init_models: [step, got]; doubt (history): got from files in disorder
          inUse,        \* iso_forest, scaler, real_model, trained_on; doubt: as it was loaded
          analysis,     \* per analyst: None, or [left, used, late]
          since,        \* since_model: the training it is of, and who counted what was of others
          overtaken,    \* history: the last installation fell into the start
          disorder, cuts   \* history: a writer was stopped or crossed, and no other one put it right

filesRest == <<trained, modelFiles, trainer, disorder>>
usedRest == <<starting, inUse, analysis, since, overtaken>>
retrainVars == <<now, idleRows, liveRows, filesRest, usedRest, cuts>>

-----------------------------------------------------------------------------
Training(kind, n) == [kind |-> kind, n |-> n, at |-> now]
Torn == [kind |-> "torn", n |-> 0, at |-> 0]
Profile == [kind |-> "profile", n |-> 0, at |-> 0]
Marks == [kind : {"real", "torn", "profile"}, n : Nat, at : Nat]
Jobs == [step : Parts3 \cup {"fit", "install"}, forced : BOOLEAN, made : Marks, alone : BOOLEAN]
Analyses == [left : 0..3, used : SUBSET (Marks \cup {None}), late : BOOLEAN]
ASSUME NoneIsNoJob == None \notin Marks \cup Jobs
ASSUME NoneIsNoAnalysis == None \notin Analyses
Nothing == [p \in Parts3 |-> None]

RecordWindow(traffic) ==
    /\ idleRows + liveRows < MaxLive
    /\ IF traffic THEN liveRows' = liveRows + 1 /\ UNCHANGED idleRows ELSE idleRows' = idleRows + 1 /\ UNCHANGED liveRows
    /\ UNCHANGED <<now, filesRest, usedRest, cuts>>

\* auto_retrain_due counts every real row and goes by the metadata in memory.
AutoRetrainDue ==
    /\ idleRows + liveRows >= MinReal
    /\ inUse.meta # None => now - inUse.meta.at >= RetrainEvery

Begins(t, forced) ==
    /\ trainer[t] = None /\ trained < MaxTrainings
    /\ trained' = trained + 1
    /\ trainer' = [trainer EXCEPT ![t] =
          [step |-> "fit", forced |-> forced, made |-> Training("real", trained'), alone |-> FALSE]]
    /\ UNCHANGED <<now, idleRows, liveRows, modelFiles, disorder, usedRest, cuts>>

\* Only the loop takes _retrain_lock, so it is always free. It starts with the
\* analysis loop, once the start is through.
AutoBegins == AutoRetrain /\ starting.step = "done" /\ AutoRetrainDue /\ Begins("auto", FALSE)

\* Nothing keeps a request from crossing the start or another training.
RequestBegins(forced) == Begins("manual", forced)
ScriptBegins(forced) == Begins("script", forced)

Writing(t) == trainer[t] # None /\ trainer[t].step \in Parts3

\* The rows of windows without traffic are left out; too few end the training.
\* A training that comes to write while another writes spoils it for both.
Fit(t) ==
    /\ trainer[t] # None /\ trainer[t].step = "fit"
    /\ IF (liveRows < MinReal /\ ~trainer[t].forced) \/ liveRows < TooFew
       THEN trainer' = [trainer EXCEPT ![t] = None] /\ UNCHANGED disorder
       ELSE LET crossed == \E other \in Trainers \ {t} : Writing(other)
            IN /\ trainer' = [u \in Trainers |->
                     IF u = t THEN [step |-> "model", forced |-> FALSE, made |-> Training("real", trainer[t].made.n),
                                    alone |-> ~crossed]
                     ELSE IF Writing(u) THEN [trainer[u] EXCEPT !.alone = FALSE] ELSE trainer[u]]
               /\ disorder' = (disorder \/ crossed)
    /\ UNCHANGED <<now, idleRows, liveRows, trained, modelFiles, usedRest, cuts>>

\* The order of the files.
AfterFileSkipsScaler(step) == [model |-> "meta", scaler |-> "meta", meta |-> "install"][step]
AfterFile(step) == [model |-> "scaler", scaler |-> "meta", meta |-> "install"][step]

\* What the start has got of the files counts no more as one.
Passed(st) == IF st.step \in {"scaler", "meta"} THEN [st EXCEPT !.doubt = TRUE] ELSE st

WriteModelFile(t) ==
    /\ Writing(t)
    /\ modelFiles' = [modelFiles EXCEPT ![trainer[t].step] = trainer[t].made]
    /\ trainer' = [trainer EXCEPT ![t].step = AfterFile(@)]
    /\ disorder' = (disorder /\ ~(trainer[t].alone /\ trainer[t].step = "meta"))
    /\ starting' = Passed(starting)
    /\ UNCHANGED <<now, idleRows, liveRows, trained, inUse, analysis, since, overtaken, cuts>>

\* A write fails in the middle of a file; the exception ends the training.
WriteFails(t) ==
    /\ Writing(t) /\ cuts < MaxCuts
    /\ cuts' = cuts + 1
    /\ modelFiles' = [modelFiles EXCEPT ![trainer[t].step] = Torn]
    /\ trainer' = [trainer EXCEPT ![t] = None]
    /\ disorder' = TRUE
    /\ UNCHANGED <<now, idleRows, liveRows, trained, usedRest>>

\* All names change under the lock, and the counts begin again; the script has no
\* program to install in. The analyses on their way go on with what they read.
Install(t) ==
    /\ trainer[t] # None /\ trainer[t].step = "install"
    /\ LET made == trainer[t].made
       IN IF t = "script" THEN UNCHANGED <<inUse, analysis, since, overtaken>>
          ELSE /\ inUse' = [model |-> made, scaler |-> made, meta |-> made, on |-> "real", doubt |-> FALSE]
               /\ since' = [of |-> made, foreign |-> [a \in Analysts |-> 0]]
               /\ analysis' = [a \in Analysts |-> IF analysis[a] = None THEN None ELSE [analysis[a] EXCEPT !.late = TRUE]]
               /\ overtaken' = (starting.step \notin {"done", "dead"})
    /\ trainer' = [trainer EXCEPT ![t] = None]
    /\ UNCHANGED <<now, idleRows, liveRows, trained, modelFiles, starting, disorder, cuts>>

-----------------------------------------------------------------------------
(* The start, in a thread of its own.                                          *)

Started == [step |-> "model", got |-> Nothing, doubt |-> FALSE]
NotReady == [model |-> None, scaler |-> None, meta |-> None, on |-> "synthetic", doubt |-> FALSE]

\* A file that is being written may be read in part.
Readable(p) == {modelFiles[p]} \cup (IF \E t \in Trainers : Writing(t) /\ trainer[t].step = p THEN {Torn} ELSE {})

\* Model and scaler have to be there, the metadata may be missing; a file that
\* does not load sends the start to the synthetic profile.
LoadFile(p, mark) ==
    LET missing == p = "model" /\ None \in {modelFiles.model, modelFiles.scaler}
    IN /\ starting.step = p
       /\ starting' =
             IF missing \/ mark = Torn THEN [starting EXCEPT !.step = "profile"]
             ELSE [step |-> [model |-> "scaler", scaler |-> "meta", meta |-> "put"][p],
                   got |-> [starting.got EXCEPT ![p] = mark],
                   doubt |-> starting.doubt \/ (p = "model" /\ (disorder \/ \E t \in Trainers : Writing(t)))]
       /\ UNCHANGED <<now, idleRows, liveRows, filesRest, inUse, analysis, since, overtaken, cuts>>

PutLoaded ==
    /\ starting.step = "put"
    /\ inUse' = [model |-> starting.got.model, scaler |-> starting.got.scaler, meta |-> starting.got.meta,
                 on |-> "real", doubt |-> starting.doubt]
    /\ starting' = [starting EXCEPT !.step = "done"]
    /\ UNCHANGED <<now, idleRows, liveRows, filesRest, analysis, since, overtaken, cuts>>

\* The profile's forest and then its scaler come from files; or, where one of
\* these does not load, scaler and forest are fitted and saved, and a save that
\* fails ends the start before its loops. None of it is under the lock.
TakeProfile(part, next) ==
    /\ \/ starting.step = "profile" /\ part = "model" /\ next = "scaler left"
       \/ starting.step = "profile" /\ part = "scaler" /\ next = "forest left"
       \/ starting.step = "scaler left" /\ part = "scaler" /\ next \in {"done", "forest left"}
       \/ starting.step = "forest left" /\ part = "model" /\ next \in {"done", "dead"}
    /\ inUse' = [inUse EXCEPT ![part] = Profile]
    /\ starting' = [starting EXCEPT !.step = next]
    /\ UNCHANGED <<now, idleRows, liveRows, filesRest, analysis, since, overtaken, cuts>>

\* The program dies, perhaps in the middle of a file, and starts again; a script
\* goes on.
RestartAnalyst ==
    /\ cuts < MaxCuts
    /\ cuts' = cuts + 1
    /\ \E torn \in SUBSET {trainer[t].step : t \in {u \in {"auto", "manual"} : Writing(u)}} :
          modelFiles' = [p \in Parts3 |-> IF p \in torn THEN Torn ELSE modelFiles[p]]
    /\ disorder' = (disorder \/ \E t \in {"auto", "manual"} : Writing(t))
    /\ trainer' = [trainer EXCEPT !["auto"] = None, !["manual"] = None]
    /\ starting' = Started /\ inUse' = NotReady /\ overtaken' = FALSE
    /\ analysis' = [a \in Analysts |-> None] /\ since' = [of |-> None, foreign |-> [a \in Analysts |-> 0]]
    /\ UNCHANGED <<now, idleRows, liveRows, trained>>

-----------------------------------------------------------------------------
(* An analysis reads the scaler once and the forest twice, for the label and   *)
(* for the score, and then adds its verdict to the counts of the model.        *)

BeginAnalysis(a) ==
    /\ analysis[a] = None /\ since.foreign[a] < MaxForeign
    /\ a = "loop" => starting.step = "done"
    /\ inUse.model # None /\ inUse.scaler # None
    /\ analysis' = [analysis EXCEPT ![a] = [left |-> 3, used |-> {}, late |-> FALSE]]
    /\ UNCHANGED <<now, idleRows, liveRows, filesRest, starting, inUse, since, overtaken, cuts>>

ReadModel(a) ==
    /\ analysis[a] # None /\ analysis[a].left > 0
    /\ analysis' = [analysis EXCEPT ![a].left = @ - 1,
                       ![a].used = @ \cup {IF analysis[a].left = 3 THEN inUse.scaler ELSE inUse.model}]
    /\ UNCHANGED <<now, idleRows, liveRows, filesRest, starting, inUse, since, overtaken, cuts>>

CountAnalysis(a) ==
    /\ analysis[a] # None /\ analysis[a].left = 0
    /\ since' = IF since.of # None /\ analysis[a].used # {since.of} THEN [since EXCEPT !.foreign[a] = @ + 1] ELSE since
    /\ analysis' = [analysis EXCEPT ![a] = None]
    /\ UNCHANGED <<now, idleRows, liveRows, filesRest, starting, inUse, overtaken, cuts>>

RetrainTick ==
    /\ now < RetrainEnd
    /\ now' = now + 1
    /\ UNCHANGED <<idleRows, liveRows, filesRest, usedRest, cuts>>

RetrainInit ==
    /\ now = 0
    /\ idleRows = 0 /\ liveRows = 0 /\ trained = 0 /\ modelFiles = Nothing
    /\ trainer = [t \in Trainers |-> None] /\ disorder = FALSE /\ cuts = 0
    /\ starting = Started /\ inUse = NotReady /\ overtaken = FALSE
    /\ analysis = [a \in Analysts |-> None] /\ since = [of |-> None, foreign |-> [a \in Analysts |-> 0]]

RetrainNext ==
    \/ \E traffic \in BOOLEAN : RecordWindow(traffic)
    \/ AutoBegins
    \/ \E forced \in BOOLEAN : RequestBegins(forced) \/ ScriptBegins(forced)
    \/ \E t \in Trainers : Fit(t) \/ WriteModelFile(t) \/ WriteFails(t) \/ Install(t)
    \/ \E p \in Parts3 : \E mark \in Readable(p) : LoadFile(p, mark)
    \/ PutLoaded
    \/ \E part \in {"model", "scaler"}, next \in {"scaler left", "forest left", "done", "dead"} : TakeProfile(part, next)
    \/ RestartAnalyst
    \/ \E a \in Analysts : BeginAnalysis(a) \/ ReadModel(a) \/ CountAnalysis(a)
    \/ RetrainTick

RetrainSpec == RetrainInit /\ [][RetrainNext]_retrainVars

-----------------------------------------------------------------------------
\* The scaler in use belongs to the forest in use and the metadata speaks of them
\* after every installation, whatever trainings, requests and the script cross and
\* whatever was stopped before, unless the installation fell into the start; what
\* a start loads does unless the files were written while it read them or are in
\* disorder, and one training that nobody crosses puts them in order again.  An
\* analysis under way when a training is installed may use both models, and its
\* verdict counts for the new one, but no thread adds more than that one.
ModelIsOne ==
    /\ inUse.doubt \/ overtaken \/ None \in {inUse.model, inUse.scaler}
         \/ (inUse.model = inUse.scaler /\ (inUse.on = "real" <=> inUse.meta = inUse.model))
    /\ overtaken \/ \A a \in Analysts : since.foreign[a] <= 1
    /\ disorder \/ (\E t \in Trainers : Writing(t))
         \/ \A p, q \in Parts3 : modelFiles[p] = modelFiles[q]

=============================================================================
