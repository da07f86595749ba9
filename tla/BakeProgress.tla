---------------------------- MODULE BakeProgress ----------------------------
(***************************************************************************)
(* SProgress and CProgressor: tasks registered one by one share one        *)
(* progress counter, and every registration reweighs all of them.  The     *)
(* threads of a bake call Update, the UI thread sets the cancel flag.      *)
(* Src: src/Utils/Progress.h, Progress.cpp.                                *)
(***************************************************************************)
EXTENDS Integers, FiniteSets, Functions

CONSTANTS
  Tasks,     (* the tasks a bake may register                               *)
  Reserved,  (* those that own a fixed percentage of the progress           *)
  Share      (* that percentage                                             *)

ASSUME ProgressAssumption ==
  /\ IsFiniteSet(Tasks) /\ Reserved \subseteq Tasks
  /\ Share \in 1 .. 100 /\ Cardinality(Reserved) * Share <= 100

VARIABLES
  progress,  (* SProgress::progress                                         *)
  cancelled, (* SProgress::bIsCancelled                                     *)
  ops,       (* totalOperations of every registered task                    *)
  reported,  (* m_lastReportedContribution of every registered task         *)
  late       (* history: a task was registered after one had reported       *)

progressVars == <<progress, cancelled, ops, reported, late>>

Registered == DOMAIN ops
NoTasks    == [t \in {} |-> 0]

ProgressInit ==
  /\ progress = 0 /\ cancelled = FALSE
  /\ ops = NoTasks /\ reported = NoTasks
  /\ late = FALSE

(* SProgress::Reset; the CProgressor of the last bake is gone.              *)
Reset ==
  /\ progress' = 0 /\ cancelled' = FALSE
  /\ ops' = NoTasks /\ reported' = NoTasks
  /\ late' = FALSE

(* RegisterProgressTask gives no task for zero operations.  A reserved task *)
(* does not know its operations yet.                                        *)
Register(t, n) ==
  IF n = 0 /\ t \notin Reserved
  THEN UNCHANGED progressVars
  ELSE /\ ops' = [x \in Registered \cup {t} |-> IF x = t THEN n ELSE ops[x]]
       /\ reported' = [x \in Registered \cup {t} |-> IF x = t THEN 0 ELSE reported[x]]
       /\ late' = (late \/ \E x \in Registered : reported[x] > 0)
       /\ UNCHANGED <<progress, cancelled>>

MutantContribution(t, done, size) ==  (* forgets the reserved share *)
  IF t \in Reserved THEN (done * Share) \div size
  ELSE (done * 100) \div SumFunctionOnSet(ops, Registered \ Reserved)

(* The percentage task t of size operations has earned once done of them    *)
(* are over: RecalculateContexts gives reserved tasks their share and       *)
(* divides the rest by operations.                                          *)
Contribution(t, done, size) ==
  IF t \in Reserved THEN (done * Share) \div size
  ELSE (done * (100 - Share * Cardinality(Registered \cap Reserved)))
         \div SumFunctionOnSet(ops, Registered \ Reserved)

MutantReport(t, done, size) ==  (* adds a negative difference *)
  LET earned == Contribution(t, done, size)
  IN  /\ progress' = progress + earned - reported[t]
      /\ reported' = [reported EXCEPT ![t] = earned]
      /\ UNCHANGED <<cancelled, ops, late>>

(* SProgressTask::Update when nothing is cancelled; size is the task's      *)
(* totalOperations, which SetMaxValue has just set if t is reserved.        *)
Report(t, done, size) ==
  LET earned == Contribution(t, done, size)
  IN  /\ IF earned > reported[t]
         THEN /\ progress' = progress + earned - reported[t]
              /\ reported' = [reported EXCEPT ![t] = earned]
         ELSE UNCHANGED <<progress, reported>>
      /\ UNCHANGED <<cancelled, ops, late>>

Cancel == cancelled' = TRUE /\ UNCHANGED <<progress, ops, reported, late>>
=============================================================================
