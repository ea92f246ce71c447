------------------------------- MODULE AuthBroker -------------------------------
(***************************************************************************)
(* The admission of a dispatch: plachem_fast_gateway/auth_broker.py with   *)
(* war_room_authorization.py, direct_gateway_authorization.py and their    *)
(* caller, CoreEngine._dispatch.                                           *)
(*                                                                         *)
(* The engine lock admits one dispatch at a time; it runs through two      *)
(* stores and a memory table, whose own transactions are atomic: the war   *)
(* database (approval, stop state, call counter), the broker (grants) and  *)
(* the pending direct registrations.  Around it time passes, grants and    *)
(* approvals are revoked, projects stop, the process dies.                 *)
(***************************************************************************)
EXTENDS Naturals, FiniteSets

CONSTANTS
    War, Direct, Bearer,  \* runs by lane; a bearer run presents a token itself
    Grants,               \* fresh grant ids
    Casts,                \* which runs take part in a history
    NoOne,
    CallLimit,            \* call_limit of the war task all runs in War belong to
    Until,                \* expires_at of its approval, or its own deadline if that is earlier
    Ttl,                  \* the 30 seconds of a grant or a registration
    Horizon,              \* bound on the clock, in half seconds
    MaxCrashes

Runs   == War \cup Direct \cup Bearer
Phases == {"idle", "authorize", "issue", "present", "consume", "count", "submit"}

VARIABLES
    now,        \* half seconds: deadlines are stored in seconds, grants in ms
    record,     \* the run registry
    phase,      \* where the dispatch under the engine lock is
    who,        \* its run
    token,      \* the grant whose token it holds
    checked,    \* the clock as the war authorizer read it, once, for its checks and the ttl
    presented,  \* the clock as verify_and_consume read it, before its transaction
    grant,      \* the grant table of the broker
    pending,    \* direct registrations: expiry, 0 for none
    approved,   \* the latest decision on the task is an approval, not revoked
    stopped,    \* stop_state of its project
    leased,     \* war runs whose delivery is sent and has a claim token
    calls,      \* war_task_calls
    crashes

readings == <<checked, presented>>
auth == <<now, record, phase, who, token, readings, grant, pending, approved, stopped, leased,
          calls, crashes>>

NoGrant == [for |-> NoOne, issued |-> 0, expires |-> 0, revoked |-> FALSE, by |-> NoOne]

Init ==
    /\ now = 0
    /\ \E cast \in Casts : record = [r \in Runs |-> IF r \in cast THEN "none" ELSE "absent"]
    /\ phase = "idle" /\ who = NoOne /\ token = NoOne /\ checked = 0 /\ presented = 0
    /\ grant = [g \in Grants |-> NoGrant]
    /\ pending = [r \in Direct |-> 0]
    /\ approved = TRUE /\ stopped = FALSE /\ leased = War
    /\ calls = 0 /\ crashes = 0

Open(r)   == record[r] \in {"none", "QUEUED"}   \* the others are answered as they are
WarOpen   == \E r \in War : Open(r)             \* someone still reads the war database
Issued(g) == grant[g].for # NoOne

\* execution_auth_scope: a digest binds agent, action, workspace, project, goal,
\* instruction and run, so it is as good as the run's name.
Scope(r) == r

(****************************** the broker's store *************************)

\* issue: a fresh grant for one scope, counted from a reading of the clock of its own.
NewGrant(r, ttl) ==
    [for |-> Scope(r), issued |-> now, expires |-> now + 2 * ttl, revoked |-> FALSE, by |-> NoOne]
Fresh == {g \in Grants : ~Issued(g)}
Insert(r, ttl) ==
    /\ Fresh # {}
    /\ LET g == CHOOSE x \in Fresh : TRUE IN
       grant' = [grant EXCEPT ![g] = NewGrant(r, ttl)] /\ token' = g

\* verify_and_consume: _deny_reason, and the guarded update.  A run that presents its
\* consumed grant once more passes the former and fails the latter (CONFLICT).
Consumable(g, r) ==
    /\ ~grant[g].revoked /\ grant[g].by = NoOne
    /\ presented < grant[g].expires /\ grant[g].for = Scope(r)

\* A dispatch that is not admitted ends as BLOCKED; closing the war connection
\* without a commit drops its lock and its writes.
Block ==
    /\ record' = [record EXCEPT ![who] = "BLOCKED"]
    /\ phase' = "idle" /\ who' = NoOne /\ token' = NoOne
    /\ checked' = 0 /\ presented' = 0

\* verify_and_consume reads the clock, then waits for the broker's write lock.
Present ==
    /\ phase = "present" /\ phase' = "consume" /\ presented' = now
    /\ UNCHANGED <<now, record, who, token, checked, grant, pending, approved, stopped,
                   leased>>
    /\ UNCHANGED <<calls, crashes>>

Consume ==
    /\ phase = "consume"
    /\ \/ /\ Consumable(token, who)
          /\ grant' = [grant EXCEPT ![token].by = who]
          /\ phase' = IF who \in War THEN "count" ELSE "submit"
          /\ UNCHANGED <<record, who, token, readings>>
       \/ Block /\ UNCHANGED grant   \* denied, or STORE_BUSY
    /\ UNCHANGED <<now, pending, approved, stopped, leased, calls, crashes>>

\* revoke, by an operator of the broker.
RevokeGrant(g) ==
    /\ Issued(g) /\ ~grant[g].revoked /\ grant[g].by = NoOne
    /\ grant' = [grant EXCEPT ![g].revoked = TRUE]
    /\ UNCHANGED <<now, record, phase, who, token, readings, pending, approved, stopped,
                   leased, calls, crashes>>

\* A grant issued to the holder of a token ahead of its dispatch.
IssueBearer(r) ==
    /\ phase = "idle" /\ Open(r) /\ Fresh # {}
    /\ grant' = [grant EXCEPT ![CHOOSE x \in Fresh : TRUE] = NewGrant(r, Ttl)]
    /\ UNCHANGED <<now, record, phase, who, token, readings, pending, approved, stopped,
                   leased, calls, crashes>>

(**************************** CoreEngine._dispatch *************************)

Dispatch(r) ==
    /\ phase = "idle" /\ Open(r)
    /\ record' = [record EXCEPT ![r] = "QUEUED"] /\ who' = r
    /\ \/ r \notin Bearer /\ phase' = "authorize" /\ UNCHANGED token
       \/ r \in Bearer /\ phase' = "present" /\ \E g \in Grants : Issued(g) /\ token' = g
    /\ UNCHANGED <<now, readings, grant, pending, approved, stopped, leased, calls,
                   crashes>>

\* DirectIngressGrantAuthorizer.register: one exact scope per run, renewable.
Register(r) ==
    /\ Open(r)
    /\ pending' = [pending EXCEPT ![r] = now + 2 * Ttl]
    /\ UNCHANGED <<now, record, phase, who, token, readings, grant, approved, stopped,
                   leased, calls, crashes>>

\* DirectIngressGrantAuthorizer.authorize pops the registration, whatever follows.
AuthorizeDirect ==
    /\ phase = "authorize" /\ who \in Direct
    /\ pending' = [pending EXCEPT ![who] = 0]
    /\ IF pending[who] > now
       THEN phase' = "issue" /\ UNCHANGED <<record, who, token, readings>>
       ELSE Block
    /\ UNCHANGED <<now, grant, approved, stopped, leased, calls, crashes>>

\* WarRoomGrantAuthorizer.authorize up to the grant: BEGIN IMMEDIATE and the checks.
Admissible(r) ==
    /\ r \in leased /\ approved /\ now \div 2 < Until /\ ~stopped /\ calls < CallLimit

\* The war transaction is open from here until Count or Block.
HoldsNothing == FALSE   \* mutant: the read transaction takes no lock
HoldsWar == who \in War /\ phase \in {"issue", "present", "consume", "count"}

AuthorizeWar ==
    /\ phase = "authorize" /\ who \in War
    /\ \/ /\ Admissible(who) /\ phase' = "issue" /\ checked' = now
          /\ UNCHANGED <<record, who, token, presented>>
       \/ Block   \* a check fails, or the war database is locked for two seconds
    /\ UNCHANGED <<now, grant, pending, approved, stopped, leased, calls, crashes>>

\* min(30, expires_at - now, deadline_at - now): the whole seconds that were left when the
\* authorizer read the clock.  That is no bound on the clock at which the broker starts
\* counting them.
Left == Until - checked \div 2
FullLifetime(r) == Ttl   \* mutant: the approval does not shorten the grant
Lifetime(r) == IF r \in War /\ Left < Ttl THEN Left ELSE Ttl

IssueGrant ==
    /\ phase = "issue"
    /\ \/ Insert(who, Lifetime(who)) /\ phase' = "present" /\ UNCHANGED <<record, who, readings>>
       \/ Block /\ UNCHANGED grant   \* STORE_BUSY
    /\ UNCHANGED <<now, pending, approved, stopped, leased, calls, crashes>>

\* The admitted call is counted and the war transaction committed.
Count ==
    /\ phase = "count"
    /\ \/ calls' = calls + 1 /\ phase' = "submit" /\ UNCHANGED <<record, who, token, readings>>
       \/ Block /\ UNCHANGED calls
    /\ UNCHANGED <<now, grant, pending, approved, stopped, leased, crashes>>

Submit ==
    /\ phase = "submit"
    /\ record' = [record EXCEPT ![who] = "RUNNING"]
    /\ phase' = "idle" /\ who' = NoOne /\ token' = NoOne /\ checked' = 0 /\ presented' = 0
    /\ UNCHANGED <<now, grant, pending, approved, stopped, leased, calls, crashes>>

(******************************* surroundings ******************************)

\* The War Room's own transactions wait for the lock the authorizer holds.
RevokeApproval ==
    /\ WarOpen /\ ~HoldsWar /\ approved /\ approved' = FALSE
    /\ UNCHANGED <<now, record, phase, who, token, readings, grant, pending, stopped,
                   leased, calls, crashes>>
StopOrResume ==
    /\ WarOpen /\ ~HoldsWar /\ stopped' = ~stopped
    /\ UNCHANGED <<now, record, phase, who, token, readings, grant, pending, approved,
                   leased, calls, crashes>>
LoseLease(r) ==
    /\ Open(r) /\ ~HoldsWar /\ r \in leased /\ leased' = leased \ {r}
    /\ UNCHANGED <<now, record, phase, who, token, readings, grant, pending, approved,
                   stopped, calls, crashes>>

Tick ==
    /\ now < Horizon /\ now' = now + 1
    /\ UNCHANGED <<record, phase, who, token, readings, grant, pending, approved, stopped,
                   leased, calls, crashes>>

\* The process dies: registrations are memory, the open war transaction is rolled
\* back, the grants stay.
Crash ==
    /\ crashes < MaxCrashes /\ crashes' = crashes + 1
    /\ phase' = "idle" /\ who' = NoOne /\ token' = NoOne /\ checked' = 0 /\ presented' = 0
    /\ pending' = [r \in Direct |-> 0]
    /\ UNCHANGED <<now, record, grant, approved, stopped, leased, calls>>

Next ==
    \/ \E r \in Runs : Dispatch(r)
    \/ \E r \in Direct : Register(r)
    \/ \E r \in Bearer : IssueBearer(r)
    \/ \E g \in Grants : RevokeGrant(g)
    \/ \E r \in War : LoseLease(r)
    \/ AuthorizeDirect \/ AuthorizeWar \/ IssueGrant \/ Present \/ Consume \/ Count \/ Submit
    \/ RevokeApproval \/ StopOrResume \/ Tick \/ Crash

(******************************* properties ********************************)

\* "Serialize approval/stop changes through grant consumption": a war run consumes
\* its grant only while the approval it was checked against is unrevoked, its project
\* runs and its call is within the limit.  No lock holds an expiry back: the run uses,
\* from the grant's issue on, what whole seconds were left at the check, so it overruns
\* the approval by up to the time the authorizer took between the two.  A grant serves
\* one run, the one it was issued for, within its thirty seconds.
ConsumedInForce ==
    \A g \in Grants :
        LET r == grant'[g].by IN
        grant[g].by = NoOne /\ r # NoOne =>
            /\ grant[g].for = r /\ ~grant[g].revoked /\ presented < grant[g].issued + 2 * Ttl
            /\ r \in War => /\ approved /\ ~stopped /\ r \in leased /\ calls < CallLimit
                            /\ checked \div 2 < Until /\ checked <= grant[g].issued
                            /\ presented < grant[g].issued + 2 * Left

\* No worker of the task runs uncounted, whatever died in between, and the task's
\* call limit holds.
CallsCounted ==
    Cardinality({r \in War : record[r] = "RUNNING"}) <= calls /\ calls <= CallLimit

\* A worker runs on a grant that was consumed for it and never revoked.
WorkerHasGrant ==
    \A r \in Runs : record[r] = "RUNNING" =>
        \E g \in Grants : grant[g].by = r /\ ~grant[g].revoked

Admission == []CallsCounted /\ []WorkerHasGrant /\ [][ConsumedInForce]_auth

(**************************** why they hold ********************************)

GrantRows == [for : Runs \cup {NoOne}, issued : Nat, expires : Nat, revoked : BOOLEAN,
              by : Runs \cup {NoOne}]
TypeOK ==
    /\ now \in Nat /\ calls \in Nat /\ checked \in 0..now /\ presented \in 0..now
    /\ record \in [Runs -> {"absent", "none", "QUEUED", "RUNNING", "BLOCKED"}]
    /\ phase \in Phases
    /\ IF phase = "idle" THEN who = NoOne ELSE who \in Runs /\ record[who] = "QUEUED"
    /\ phase \in {"present", "consume", "count", "submit"} => token \in Grants
    /\ grant \in [Grants -> GrantRows]
    /\ pending \in [Direct -> Nat]
    /\ approved \in BOOLEAN /\ stopped \in BOOLEAN /\ leased \subseteq War

\* What AuthorizeWar has checked stays true while the war transaction is open.
StillAdmissible ==
    HoldsWar => /\ who \in leased /\ approved /\ ~stopped /\ calls < CallLimit
                /\ checked \div 2 < Until

\* A worker runs, or its submission is next: counted, and on its own grant.
Admitted == {r \in Runs : record[r] = "RUNNING" \/ (phase = "submit" /\ who = r)}
Counted  == Cardinality(Admitted \cap War) <= calls /\ calls <= CallLimit
Held     == \A r \in Admitted : \E g \in Grants : grant[g].by = r /\ ~grant[g].revoked

\* Nobody has used a grant that was not issued, no grant outlives its thirty seconds, and
\* the token a war run presents is one issued for what was left when it was checked.
GrantsSound ==
    /\ \A g \in Grants : grant[g].by # NoOne => Issued(g)
    /\ \A g \in Grants : grant[g].expires <= grant[g].issued + 2 * Ttl
    /\ who \in War /\ phase \in {"present", "consume"} =>
          /\ checked <= grant[token].issued
          /\ grant[token].expires <= grant[token].issued + 2 * Left
    /\ phase = "count" => who \in War
    /\ phase \in {"count", "submit"} => grant[token].by = who /\ ~grant[token].revoked

IndInv == TypeOK /\ StillAdmissible /\ Counted /\ Held /\ GrantsSound
================================================================================
