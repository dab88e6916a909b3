------------------------------ MODULE MCLibrary -----------------------------
\* The components that nothing in the program connects to the pipeline or to
\* each other, side by side: in a behaviour one of them, chosen at the
\* beginning, is used, and the others stay as built, with one value for what
\* their Init leaves open.
EXTENDS Watchdog, BufferPool, WorkerManager, Logger, Quantizer, Classifier

CONSTANTS b1, b2, x1, x2, x3, w1, w2, w3, f1, f2

\* Codes of 3 bits, an int of 4.
MCMinCode == -4
MCIntMin == -8
MCQuarters == -48..48
MCZeroPoints == -2..2

VARIABLE used

vars == <<used, dogVars, poolVars, managerVars, loggerVars, quantVars, classVars>>

InUse(c) == used = c

Init ==
    /\ used \in {"watchdog", "pool", "manager", "logger", "quantizer", "classifier"}
    /\ InUse("watchdog") \/ now = 0
    /\ InUse("pool") \/ free = SetToSeq(Buffers)
    /\ InUse("manager") \/ waits = [w \in Workers |-> Nobody]
    /\ InUse("quantizer") \/ (quotient = 0 /\ zero = 0)
    /\ InUse("classifier") \/ (logits = [i \in Classes |-> 0]
                               /\ expOf = [d \in 0..MaxLogit |-> One])
    /\ DogInit /\ PoolInit /\ ManagerInit /\ LoggerInit /\ QuantInit /\ ClassInit

Dog == InUse("watchdog") /\ DogNext
    /\ UNCHANGED <<used, poolVars, managerVars, loggerVars, quantVars, classVars>>
Pool == InUse("pool") /\ PoolNext
    /\ UNCHANGED <<used, dogVars, managerVars, loggerVars, quantVars, classVars>>

Beside(action) ==
    /\ InUse("manager")
    /\ action
    /\ UNCHANGED <<used, dogVars, poolVars, loggerVars, quantVars, classVars>>
Manager == Beside(ManagerNext)

Logs == InUse("logger") /\ LoggerNext
    /\ UNCHANGED <<used, dogVars, poolVars, managerVars, quantVars, classVars>>
Quant == InUse("quantizer") /\ QuantNext
    /\ UNCHANGED <<used, dogVars, poolVars, managerVars, loggerVars, classVars>>
Class == InUse("classifier") /\ ClassNext
    /\ UNCHANGED <<used, dogVars, poolVars, managerVars, loggerVars, quantVars>>

Next == Dog \/ Pool \/ Manager \/ Logs \/ Quant \/ Class

\* The threads of the manager's workers and the thread inside stop_all run.
Fairness ==
    /\ WF_vars(Beside(OwnerStops))
    /\ \A w \in Workers : WF_vars(Beside(ThreadRuns(w)))

Spec == Init /\ [][Next]_vars /\ Fairness
=============================================================================
