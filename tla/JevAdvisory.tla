------------------------------- MODULE JevAdvisory ------------------------------
(***************************************************************************)
(* jev_task_router.py and jev_result_verifier.py: the advisories on one    *)
(* task and the decisions on them.  An advisory is about the state read    *)
(* before the judge is asked and is stored when it has answered; a         *)
(* decision checks it by several reads, no lock held, and writes in one    *)
(* transaction.  Requests for advisories run in threads, decisions on the  *)
(* event loop, one at a time; the task and the agent catalogue change all  *)
(* the while.                                                              *)
(***************************************************************************)
EXTENDS Naturals, FiniteSets

CONSTANTS
    Agents, Domains,
    DomainAgents,    \* DOMAIN_AGENT_IDS
    Keys,            \* Idempotency-Keys
    Signals,         \* the verifier's questions
    None,
    MaxFacts,        \* bound on the changes of the task
    MaxAdvisories    \* bound on each kind of advisory

VARIABLES
    facts, revision, \* what an advisory reads of the task, as a counter; its revision
    eligible,        \* agents the catalogue lists as execution-eligible
    asking,          \* a request between its read and its row
    advisories,      \* jev_task_advisories, append-only
    deciding,        \* a decision between its reads
    decisions,       \* jev_task_decisions with their idempotency rows
    verifying,       \* a verifier request between its read and its rows
    verdicts         \* jev_result_verifier_advisories, one per signal

advice == <<facts, revision, eligible, asking, advisories, deciding, decisions, verifying,
            verdicts>>
Task   == <<facts, revision, eligible>>
Router == <<asking, advisories, deciding, decisions>>

Init ==
    /\ facts = 0 /\ revision = 0 /\ eligible = Agents
    /\ asking = None /\ advisories = {} /\ deciding = None /\ decisions = {}
    /\ verifying = None /\ verdicts = {}

\* The task moves, with or without a new revision, or the catalogue is edited.
Change ==
    /\ \/ /\ facts < MaxFacts /\ facts' = facts + 1
          /\ revision' \in {revision, revision + 1} /\ UNCHANGED eligible
       \/ \E a \in Agents :
             /\ eligible' = IF a \in eligible THEN eligible \ {a} ELSE eligible \cup {a}
             /\ UNCHANGED <<facts, revision>>
    /\ UNCHANGED <<Router, verifying, verdicts>>

\* registry_candidates: without a usable domain, every eligible agent.
Candidates(domain) ==
    IF domain \in Domains THEN eligible \cap DomainAgents[domain] ELSE eligible

(******************************** the router *******************************)

Ask ==
    /\ asking = None /\ Cardinality(advisories) < MaxAdvisories
    /\ asking' = [facts |-> facts, revision |-> revision, domain |-> None, listed |-> {}]
    /\ UNCHANGED <<Task, advisories, deciding, decisions, verifying, verdicts>>

Row(choice, ok) ==
    /\ advisories' = advisories \cup
          {[id |-> Cardinality(advisories), about |-> asking, choice |-> choice, ok |-> ok]}
    /\ asking' = None

\* A domain first; its candidates join the state the digest is taken of.
ChooseDomain ==
    /\ asking # None /\ asking.domain = None
    /\ \/ /\ \E d \in Domains \cup {"insufficient_evidence"} :
                asking' = [asking EXCEPT !.domain = d, !.listed = Candidates(d)]
          /\ UNCHANGED advisories
       \/ Row(None, FALSE)
    /\ UNCHANGED <<Task, deciding, decisions, verifying, verdicts>>

\* One of the listed agents, or none; a bad answer makes the advisory unavailable.
ChooseAgent ==
    /\ asking # None /\ asking.domain # None
    /\ \/ \E a \in asking.listed \cup {"insufficient_evidence"} : Row(a, TRUE)
       \/ asking.listed # {} /\ Row(None, FALSE)
    /\ UNCHANGED <<Task, deciding, decisions, verifying, verdicts>>

\* _stale: the digest of the task now against the one of the row.
NeverStale(a) == FALSE   \* mutant: an ACCEPT is taken whatever happened since
Stale(a) ==
    \/ a.about.revision # revision \/ a.about.facts # facts
    \/ a.about.listed # Candidates(a.about.domain)

\* decide_advisory, its reads one after the other.  The task first.
Decide(k, a, what) ==
    /\ deciding = None
    /\ \/ what = "ACCEPT" /\ a.ok
       \/ what \in eligible        \* OVERRIDE by an agent the catalogue has
       \/ what = "INSUFFICIENT"
    /\ deciding' = [key |-> k, of |-> a, what |-> what, revision |-> revision, at |-> "stale"]
    /\ UNCHANGED <<Task, asking, advisories, decisions, verifying, verdicts>>

Accepting == deciding.what = "ACCEPT"
Check ==
    /\ deciding # None /\ deciding.at = "stale"
    /\ deciding' = IF Accepting /\ Stale(deciding.of) THEN None   \* 409
                   ELSE [deciding EXCEPT !.at = "eligible"]
    /\ UNCHANGED <<Task, asking, advisories, decisions, verifying, verdicts>>

\* The chosen agent may have left the catalogue; then the flag of the row is read.
Flag ==
    /\ deciding # None /\ deciding.at = "eligible"
    /\ deciding' = IF Accepting /\ deciding.of.choice \notin Candidates(deciding.of.about.domain)
                   THEN None
                   ELSE [deciding EXCEPT !.at = IF Stale(deciding.of) THEN "stale row" ELSE "row"]
    /\ UNCHANGED <<Task, asking, advisories, decisions, verifying, verdicts>>

\* A key answers as it did before, for the same request, or with 409.
Known(k, a) == \E d \in decisions : d.key = k /\ d.of = a
Record ==
    /\ deciding # None /\ deciding.at \in {"row", "stale row"}
    /\ decisions' = IF Known(deciding.key, deciding.of) THEN decisions
                    ELSE decisions \cup {[key |-> deciding.key, of |-> deciding.of,
                             what |-> deciding.what, revision |-> deciding.revision,
                             stale |-> deciding.at = "stale row"]}
    /\ deciding' = None
    /\ UNCHANGED <<Task, asking, advisories, verifying, verdicts>>

(******************************* the verifier ******************************)

Verify ==
    /\ verifying = None /\ Cardinality({v.id : v \in verdicts}) < MaxAdvisories
    /\ verifying' = [id |-> Cardinality({v.id : v \in verdicts}), facts |-> facts]
    /\ UNCHANGED <<Task, Router, verdicts>>

\* A row per question in one transaction, each with its answer or unavailable.
Verdict ==
    /\ verifying # None /\ verifying' = None
    /\ \E answers \in [Signals -> {"true", "false", None}] :
          verdicts' = verdicts \cup
             {[id |-> verifying.id, facts |-> verifying.facts, signal |-> s,
               answer |-> answers[s]] : s \in Signals}
    /\ UNCHANGED <<Task, Router>>

Next ==
    \/ Change \/ Ask \/ ChooseDomain \/ ChooseAgent
    \/ \E k \in Keys, a \in advisories, w \in Agents \cup {"ACCEPT", "INSUFFICIENT"} :
          Decide(k, a, w)
    \/ Check \/ Flag \/ Record \/ Verify \/ Verdict

(******************************* properties ********************************)

\* "stale ACCEPT rejected": an accepted advisory had an answer, is recorded for the
\* revision it was made for, and names an agent that was a candidate then.
AcceptsItsOwn ==
    \A d \in decisions : d.what = "ACCEPT" =>
        d.of.ok /\ d.revision = d.of.about.revision /\ d.of.choice \in d.of.about.listed

\* A decision is recorded once per key and advisory, whatever was retried.
OncePerKey == \A c, d \in decisions : c.key = d.key /\ c.of = d.of => c = d

\* The answers of a verifier advisory are complete and about one state.
OneState == \A u, v \in verdicts : u.id = v.id =>
    u.facts = v.facts /\ {w.signal : w \in {x \in verdicts : x.id = u.id}} = Signals

Advised == AcceptsItsOwn /\ OncePerKey /\ OneState

\* An accepted advisory is not stale in its own row.  Violated: the task moves between
\* the check that would refuse it and the read that fills the row.
AcceptIsFresh == \A d \in decisions : d.what = "ACCEPT" => ~d.stale

(****************************** why it holds *******************************)

Asks == [facts : Nat, revision : Nat, domain : Domains \cup {None, "insufficient_evidence"},
         listed : SUBSET Agents]
Decisions == [key : Keys, of : advisories, what : Agents \cup {"ACCEPT", "INSUFFICIENT"},
              revision : Nat, at : {"stale", "eligible", "row", "stale row"}]
TypeOK ==
    /\ facts \in Nat /\ revision \in Nat /\ eligible \subseteq Agents
    /\ asking = None \/ asking \in Asks
    /\ \A a \in advisories : a.about \in Asks
    /\ deciding = None \/ deciding \in Decisions

\* An advisory is about a revision that has been, and names a candidate or none.
AdvisoriesTrue ==
    /\ asking # None => asking.revision <= revision
    /\ \A a \in advisories :
          /\ a.about.revision <= revision
          /\ a.ok => a.choice \in a.about.listed \cup {"insufficient_evidence"}

\* The revision does not return: one that is not stale when it is checked was the
\* task's when the decision read it.
DecidingTrue ==
    deciding # None =>
        /\ deciding.revision <= revision /\ deciding.of.about.revision <= deciding.revision
        /\ deciding.what = "ACCEPT" =>
              /\ deciding.of.ok
              /\ deciding.at # "stale" =>
                    /\ deciding.revision = deciding.of.about.revision
                    /\ deciding.at # "eligible" => deciding.of.choice \in deciding.of.about.listed

\* Verifier requests are numbered from 0, and the one under way comes next.
Numbered ==
    \E n \in 0..MaxAdvisories :
        /\ {v.id : v \in verdicts} = 0..(n - 1)
        /\ verifying # None => verifying.id = n /\ n < MaxAdvisories

IndInv == TypeOK /\ AdvisoriesTrue /\ DecidingTrue /\ Numbered /\ Advised
================================================================================
