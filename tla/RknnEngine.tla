---------------------------- MODULE RknnEngine -----------------------------
(***************************************************************************)
(* model/rknn_engine.cpp and pipeline/inference_pipeline_bridge.cpp: one   *)
(* engine, the bridge that owns it, and the NPU driver below.              *)
(*                                                                         *)
(* The engine holds a context of the driver (ctx_), the bytes of the model *)
(* file (model_buffer_) and its own idea of being open (initialized_); the *)
(* bridge copies the outcome of its last load into ready_.  The four are   *)
(* updated at different places and any call of the driver or of the file   *)
(* system may fail, so the question is what they say of each other after   *)
(* any sequence of initialize, run, release and destruction.               *)
(*                                                                         *)
(* A file is a member of Models; the driver remembers which model each     *)
(* live context was made from.  It has finitely many contexts: rknn_init   *)
(* fails when all are taken, as it may at any other time.                  *)
(***************************************************************************)
CONSTANTS
    Contexts,    \* the handles the driver can give out
    Models,      \* the contents a model file can have
    Classifies,  \* the models whose first output holds kClassCount floats
    Windows,     \* the non-empty sequences of samples a caller passes to run
    WithRknn     \* PIPEAI_WITH_RKNN

NoCtx   == "no context"    \* ctx_ == 0
NoModel == "no model"      \* an empty model_buffer_; a free context
EmptyWindow == "empty"     \* run called with no samples

\* A caller's InferenceResult before any run.
NoResult == [window |-> EmptyWindow, model |-> NoModel]

ASSUME RknnAssumption ==
    /\ NoCtx \notin Contexts
    /\ NoModel \notin Models
    /\ Classifies \subseteq Models
    /\ EmptyWindow \notin Windows
    /\ WithRknn \in BOOLEAN

VARIABLES
    loaded,       \* the driver: the model of every context, NoModel if free
    ctx,          \* ctx_
    initialized,  \* initialized_
    buffer,       \* model_buffer_
    ready,        \* the bridge's ready_
    result,       \* the caller's InferenceResult, written by run
    last          \* the last call of the bridge, "failed run" if run gave false

engine == <<loaded, ctx, initialized, buffer>>
vars == <<engine, ready, result, last>>

Call(name) == last' = name

Free == {c \in Contexts : loaded[c] = NoModel}
Live == Contexts \ Free

\* The driver's memory once the context the engine points at is destroyed.
Destroyed == IF ctx = NoCtx THEN loaded ELSE [loaded EXCEPT ![ctx] = NoModel]

Init ==
    /\ loaded = [c \in Contexts |-> NoModel]
    /\ ctx = NoCtx
    /\ initialized = FALSE
    /\ buffer = NoModel
    /\ ready = FALSE
    /\ result = NoResult
    /\ last = "none"
-----------------------------------------------------------------------------
\* RknnEngine::load and close, as the bridge calls them.

\* A missing or empty file leaves the old bytes; one that breaks off in the
\* middle leaves none.
FileFails ==
    /\ buffer' \in {buffer, NoModel}
    /\ UNCHANGED <<loaded, ctx, initialized>>

\* The file is read, and rknn_init fails or is not compiled in: nothing is
\* undone, the new bytes stay beside the old context.
InitFails(m) ==
    /\ buffer' = m
    /\ UNCHANGED <<loaded, ctx, initialized>>

CloseEngine ==
    /\ loaded' = Destroyed
    /\ ctx' = NoCtx
    /\ initialized' = FALSE
    /\ buffer' = NoModel

\* Mutant: the context is destroyed, but the engine is not reset.
QueryFailsMutant(m) ==
    /\ WithRknn
    /\ \E c \in Free : ctx' = c
    /\ buffer' = m
    /\ UNCHANGED <<loaded, initialized>>

\* rknn_init gave a context, which overwrites ctx_, and rknn_query fails:
\* close destroys the new context.  An older one stays in the driver.
QueryFails(m) ==
    /\ WithRknn
    /\ Free # {}
    /\ ctx' = NoCtx
    /\ initialized' = FALSE
    /\ buffer' = NoModel
    /\ UNCHANGED loaded

LoadSucceeds(m) ==
    /\ WithRknn
    /\ \E c \in Free :
          /\ loaded' = [loaded EXCEPT ![c] = m]
          /\ ctx' = c
    /\ initialized' = TRUE
    /\ buffer' = m
-----------------------------------------------------------------------------
\* InferencePipelineBridge.

\* initialize(nullptr) returns false before it looks at anything.
InitializeNull ==
    /\ Call("initialize")
    /\ UNCHANGED <<engine, ready, result>>

\* Mutant: a failed load does not take ready_ back.
InitializeFailsMutant ==
    /\ \/ FileFails
       \/ \E m \in Models : InitFails(m) \/ QueryFails(m)
    /\ Call("initialize")
    /\ UNCHANGED <<ready, result>>

InitializeFails ==
    /\ \/ FileFails
       \/ \E m \in Models : InitFails(m) \/ QueryFails(m)
    /\ ready' = FALSE
    /\ Call("initialize")
    /\ UNCHANGED result

InitializeSucceeds ==
    /\ \E m \in Models : LoadSucceeds(m)
    /\ ready' = TRUE
    /\ Call("initialize")
    /\ UNCHANGED result

\* run returns false: the bridge is not ready, the preprocessor refuses an
\* empty window, the engine is not open, or one of rknn_inputs_set, rknn_run
\* and rknn_outputs_get fails.
RunFails(w) ==
    /\ ~ready \/ w = EmptyWindow \/ ~initialized \/ WithRknn
    /\ Call("failed run")
    /\ UNCHANGED <<engine, ready, result>>

Infers(w) ==
    /\ ready /\ initialized
    /\ w # EmptyWindow

\* Mutant: the logits are copied before they are counted.
TooFewLogitsMutant(w) ==
    /\ Infers(w)
    /\ result' = [window |-> w, model |-> loaded[ctx]]
    /\ Call("failed run")
    /\ UNCHANGED <<engine, ready>>

\* The driver hands out no buffer, or fewer floats than there are classes.
TooFewLogits(w) ==
    /\ Infers(w)
    /\ Call("failed run")
    /\ UNCHANGED <<engine, ready, result>>

RunSucceeds(w) ==
    /\ Infers(w)
    /\ loaded[ctx] \in Classifies
    /\ result' = [window |-> w, model |-> loaded[ctx]]
    /\ Call("run")
    /\ UNCHANGED <<engine, ready>>

\* Mutant: the handle is forgotten, its context is not destroyed.
ReleaseEngineMutant ==
    /\ UNCHANGED <<loaded, result>>
    /\ ctx' = NoCtx
    /\ initialized' = FALSE
    /\ buffer' = NoModel
    /\ ready' = FALSE
    /\ Call("release")

\* release, and the destructor followed by the construction of a new bridge:
\* both close the engine and leave ready_ false.
ReleaseEngine ==
    /\ CloseEngine
    /\ ready' = FALSE
    /\ Call("release")
    /\ UNCHANGED result

Next ==
    \/ InitializeNull
    \/ InitializeFails
    \/ InitializeSucceeds
    \/ ReleaseEngine
    \/ \E w \in Windows \cup {EmptyWindow} :
          RunFails(w) \/ TooFewLogits(w) \/ RunSucceeds(w)

Spec == Init /\ [][Next]_vars
-----------------------------------------------------------------------------
TypeOK ==
    /\ loaded \in [Contexts -> Models \cup {NoModel}]
    /\ ctx \in Contexts \cup {NoCtx}
    /\ initialized \in BOOLEAN
    /\ buffer \in Models \cup {NoModel}
    /\ ready \in BOOLEAN
    /\ result \in [window : Windows, model : Classifies] \cup {NoResult}
    /\ last \in {"none", "initialize", "run", "failed run", "release"}

\* An open engine holds a context the driver still knows, and only an open one
\* holds any, whichever call failed before: infer never reaches the driver with
\* a destroyed context, and close never destroys one twice.
ContextAlive ==
    /\ initialized <=> ctx # NoCtx
    /\ ctx # NoCtx => ctx \in Live

\* While the bridge says it is ready, its context was made from the very model
\* whose bytes the engine still keeps.  After a failed reload the engine alone
\* does not have this property (it stays open beside other bytes, or none):
\* ready_ is what keeps such an engine from being used.
ReadyKeepsItsModel ==
    ready => initialized /\ buffer \in Models /\ loaded[ctx] = buffer

\* No context of the driver gets out of reach except when the bridge is
\* initialised again over an open engine: release and the destructor free
\* what the engine holds, and a failing first load leaves nothing behind.
Unreachable == Live \ {ctx}
LostOnlyByReload ==
    [][Unreachable' \subseteq Unreachable
        \/ /\ initialized /\ last' = "initialize"
           /\ Unreachable' \subseteq Unreachable \cup {ctx}]_vars

\* run writes the caller's result only as a whole, from a ready bridge, and from
\* the model the engine holds: a run that fails half-way leaves it as it was.
ResultFromReadyModel ==
    [][result' # result =>
        last' = "run" /\ ready /\ result'.model = buffer]_vars
=============================================================================
