--------------------------- MODULE RenderOutcome ---------------------------
(***************************************************************************)
(* What the render service promises about a job, with no attempts, claims, *)
(* clocks or crashes in sight.                                             *)
(*                                                                         *)
(* A job is opened once, for one owner.  It is decided once: it has one    *)
(* artifact or one failure.  Archive takes custody of nothing but the      *)
(* artifact decided, on behalf of the owner.  RenderLifecycle implements   *)
(* this specification under the mapping stated there.                      *)
(***************************************************************************)
CONSTANTS
    Jobs,
    Owners,         \* <<tenant, package>>
    Digests,
    Failures

VARIABLES
    owner,          \* per job: {} or the one owner it was opened for
    outcome,        \* per job: {} or the one result it came to
    custody         \* the documents Archive holds

outcomeVars == <<owner, outcome, custody>>

Results == ({"rendered"} \X Digests) \cup ({"failed"} \X Failures)

\* Jobs of an earlier release may be open, or decided, from the start.
OutcomeInit ==
    /\ owner \in [Jobs -> {{}} \cup {{o} : o \in Owners}]
    /\ outcome \in [Jobs -> {{}} \cup {{r} : r \in Results}]
    /\ \A j \in Jobs : owner[j] = {} => outcome[j] = {}
    /\ custody = {}

Open(j, o) ==
    /\ owner[j] = {}
    /\ owner' = [owner EXCEPT ![j] = {o}]
    /\ UNCHANGED <<outcome, custody>>

Decide(j, r) ==
    /\ owner[j] # {} /\ outcome[j] = {}
    /\ outcome' = [outcome EXCEPT ![j] = {r}]
    /\ UNCHANGED <<owner, custody>>

Deposit(j, o, sha) ==
    /\ owner[j] = {o} /\ outcome[j] = {<<"rendered", sha>>}
    /\ custody' = custody \cup {[job |-> j, sha |-> sha, tenant |-> o[1]]}
    /\ UNCHANGED <<owner, outcome>>

OutcomeNext ==
    \E j \in Jobs :
        \/ \E o \in Owners : Open(j, o)
        \/ \E r \in Results : Decide(j, r)
        \/ \E o \in Owners, sha \in Digests : Deposit(j, o, sha)

OutcomeSpec == OutcomeInit /\ [][OutcomeNext]_outcomeVars

\* A job never has two documents in custody: a second rendering of it, under
\* other bytes, is not filed beside the first.
OneDocumentPerJob ==
    \A d, e \in custody : d.job = e.job => d = e

=============================================================================
