-------------------------- MODULE ExecutionLimiter --------------------------
(***************************************************************************)
(* The bounded execution slots of one process and the shutdown drain that  *)
(* takes all of them, src/app/services/render_execution.py.                *)
(*                                                                         *)
(* The semaphore's counter is Concurrency less the slots held by renders   *)
(* and the slots the drain has taken for good.  Each operation is one      *)
(* action, with the call it serves as a parameter; RenderLifecycle takes   *)
(* them as steps of a submission.                                          *)
(***************************************************************************)
EXTENDS Naturals, FiniteSets

CONSTANTS
    Submissions,    \* the calls that may hold a slot
    Concurrency     \* render_execution_concurrency_limit

ASSUME ConcurrencyAssumption == Concurrency \in Nat \ {0}

VARIABLES
    held,           \* the renders inside acquire ... release
    drain,          \* where the shutdown drain is
    drained         \* how many slots it has taken so far

limiterVars == <<held, drain, drained>>

DrainStates == {"off", "draining", "drained", "timed_out"}

LimiterInit == held = {} /\ drain = "off" /\ drained = 0

Free == Cardinality(held) + drained < Concurrency

-----------------------------------------------------------------------------
\* acquire: never waits.
Acquire(s) ==
    /\ Free
    /\ held' = held \cup {s}
    /\ UNCHANGED <<drain, drained>>

\* release: one permit back.
Release(s) ==
    /\ held' = held \ {s}
    /\ UNCHANGED <<drain, drained>>

\* lifespan's finally block calls drain once.
StartDrain ==
    /\ drain = "off"
    /\ drain' = "draining"
    /\ UNCHANGED <<held, drained>>

\* One turn of drain's loop: a slot taken and never given back.
DrainSlot ==
    /\ drain = "draining"
    /\ drained < Concurrency
    /\ Free
    /\ drained' = drained + 1
    /\ UNCHANGED <<held, drain>>

\* Mutant of DrainComplete: the loop stops one slot short.
DrainCompleteShort ==
    /\ drain = "draining"
    /\ drained = Concurrency - 1
    /\ drain' = "drained"
    /\ UNCHANGED <<held, drained>>

DrainComplete ==
    /\ drain = "draining"
    /\ drained = Concurrency
    /\ drain' = "drained"
    /\ UNCHANGED <<held, drained>>

\* The deadline passes while the loop waits for a slot.  A free slot is taken
\* even then: acquire(timeout=0) still succeeds.
DrainTimeout ==
    /\ drain = "draining"
    /\ drained < Concurrency
    /\ ~Free
    /\ drain' = "timed_out"
    /\ UNCHANGED <<held, drained>>

Drain == DrainSlot \/ DrainComplete \/ DrainTimeout

-----------------------------------------------------------------------------
LimiterNext ==
    \/ \E s \in Submissions :
          \/ s \notin held /\ Acquire(s)
          \/ s \in held /\ Release(s)
    \/ StartDrain
    \/ Drain

LimiterSpec == LimiterInit /\ [][LimiterNext]_limiterVars

\* The drain's own thread runs; no render need ever end.
LimiterFairSpec == LimiterSpec /\ WF_limiterVars(Drain)

-----------------------------------------------------------------------------
\* The limiter's variables hold what a semaphore and a drain can hold.
LimiterTypeOK ==
    /\ held \subseteq Submissions
    /\ IsFiniteSet(held)
    /\ drain \in DrainStates
    /\ drained \in 0..Concurrency

\* Renders and the drain together never hold more slots than there are: a
\* permit leaked or doubled on any path would break the bound
\* (render_execution.py:18-22, 35-40).
SlotsBounded == Cardinality(held) + drained <= Concurrency

\* A drain that reported success found every render finished, and nothing
\* can start after it: its slots are never released (render_execution.py:30).
DrainedMeansQuiet == drain = "drained" => held = {}

\* A shutdown gets through its drain, by taking every slot or by its
\* deadline, though no render ever ends (render_execution.py:24-40).
DrainEnds == drain = "draining" ~> drain # "draining"

=============================================================================
