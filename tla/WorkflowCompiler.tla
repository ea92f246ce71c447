---------------------------- MODULE WorkflowCompiler ----------------------------
(***************************************************************************)
(* war_room_execution_compiler.compile_task_intent: a list of agents and a *)
(* workflow become execution units that depend on each other, or an error. *)
(* The cycle check is a depth-first visit; its stack is kept as a sequence *)
(* so that the recursion is a step of its own.  Requests and the ids the   *)
(* caller's factory hands out are arbitrary.                               *)
(***************************************************************************)
EXTENDS Naturals, Sequences, FiniteSets

CONSTANTS
    Agents,
    AgentLists,   \* lists of agents in a request; names are interchangeable, so one
                  \* list per pattern is enough
    MaxDepends    \* bound on the length of depends_on

VARIABLES
    request,      \* agents, and workflow: each entry's depends_on, a list
    ids,          \* agent_to_execution_id, filled in order
    stack,        \* calls of _visit: the node, and its dependencies still to visit
    visiting, visited,
    todo,         \* agents the outer loop has still to visit
    outcome       \* "compiling", the error, or "compiled" with the units

compiler == <<request, ids, stack, visiting, visited, todo, outcome>>

Lists(S, n) == UNION {[1..k -> S] : k \in 0..n}
Elements(s) == {s[i] : i \in DOMAIN s}

Requests == [agents : AgentLists,
             depends : UNION {[D -> Lists(Agents, MaxDepends)] : D \in SUBSET Agents}]
\* "Deduplicate while preserving order"
Deduped(s) ==
    LET kept[i \in 0..Len(s)] ==
            IF i = 0 THEN <<>>
            ELSE IF s[i] \in Elements(kept[i - 1]) THEN kept[i - 1]
            ELSE Append(kept[i - 1], s[i])
    IN  kept[Len(s)]
Ordered == Deduped(request.agents)
Units   == Elements(Ordered)
Deps(a) == Deduped(request.depends[a])

Init ==
    /\ request \in Requests
    /\ ids = <<>> /\ stack = <<>> /\ visiting = {} /\ visited = {}
    /\ todo = <<>> /\ outcome = [is |-> "compiling", units |-> <<>>]

Compiling == outcome.is = "compiling"
Reject(why) == outcome' = [outcome EXCEPT !.is = why] /\ UNCHANGED <<ids, stack, visiting, visited, todo>>

\* One id per agent; the factory may repeat itself.
Number ==
    /\ Compiling /\ Len(ids) < Len(Ordered)
    /\ \/ ids # <<>> /\ Reject("DUPLICATE_EXECUTION_ID")
       \/ ids' = Append(ids, Len(ids)) /\ UNCHANGED <<stack, visiting, visited, todo, outcome>>
    /\ UNCHANGED request

\* The workflow must name every agent and no dependency but them, none itself.
WellFormed ==
    /\ Units \subseteq DOMAIN request.depends
    /\ \A a \in Units : Elements(Deps(a)) \subseteq Units \ {a}

Resolve ==
    /\ Compiling /\ Len(ids) = Len(Ordered) /\ todo = <<>> /\ visited = {} /\ stack = <<>>
    /\ IF Ordered = <<>> \/ ~WellFormed THEN Reject("MALFORMED")
       ELSE todo' = Ordered /\ UNCHANGED <<ids, stack, visiting, visited, outcome>>
    /\ UNCHANGED request

\* _visit of a node: a node being visited closes a cycle, a visited one returns.
OnlyVisited(a) == a \in visited \cup visiting   \* mutant: no look at who is being visited
Done(a) == a \in visited
Visit(a, rest, left) ==
    IF Done(a) THEN stack' = rest /\ todo' = left /\ UNCHANGED <<visiting, outcome>>
    ELSE IF a \in visiting
         THEN outcome' = [outcome EXCEPT !.is = "WORKFLOW_CYCLE"] /\ UNCHANGED <<stack, visiting, todo>>
         ELSE /\ stack' = <<[node |-> a, left |-> Deps(a)]>> \o rest
              /\ visiting' = visiting \cup {a} /\ todo' = left /\ UNCHANGED outcome

Enter ==
    /\ Compiling /\ stack = <<>> /\ todo # <<>>
    /\ Visit(Head(todo), <<>>, Tail(todo))
    /\ UNCHANGED <<request, ids, visited>>

Top == Head(stack)
Descend ==
    /\ Compiling /\ stack # <<>> /\ Top.left # <<>>
    /\ Visit(Head(Top.left), <<[Top EXCEPT !.left = Tail(@)]>> \o Tail(stack), todo)
    /\ UNCHANGED <<request, ids, visited>>

Leave ==
    /\ Compiling /\ stack # <<>> /\ Top.left = <<>>
    /\ visiting' = visiting \ {Top.node} /\ visited' = visited \cup {Top.node}
    /\ stack' = Tail(stack)
    /\ UNCHANGED <<request, ids, todo, outcome>>

\* The graph, in ids: what each unit depends on.
Finish ==
    /\ Compiling /\ stack = <<>> /\ todo = <<>> /\ visited # {}
    /\ outcome' = [is |-> "compiled", units |-> [i \in DOMAIN Ordered |->
          [agent |-> Ordered[i], id |-> ids[i],
           depends |-> {ids[j] : j \in {k \in DOMAIN Ordered :
                                           Ordered[k] \in Elements(Deps(Ordered[i]))}}]]]
    /\ UNCHANGED <<request, ids, stack, visiting, visited, todo>>

Next == Number \/ Resolve \/ Enter \/ Descend \/ Leave \/ Finish

(******************************* properties ********************************)

\* The units can be run in some order: no set of them waits only for itself.
Runnable(units) ==
    \A S \in (SUBSET DOMAIN units) \ {{}} :
        \E i \in S : units[i].depends \cap {units[j].id : j \in S} = {}
Cyclic == \E S \in (SUBSET Units) \ {{}} : \A a \in S : Elements(Deps(a)) \cap S # {}

\* What is compiled is a graph of distinct units that can be run in some order, so
\* orchestration never waits in a circle; a cycle is reported only when there is
\* one.
CompilesDags ==
    /\ outcome.is = "compiled" =>
          LET U == outcome.units IN
          /\ {U[i].agent : i \in DOMAIN U} = Elements(request.agents)
          /\ Cardinality({U[i].id : i \in DOMAIN U}) = Len(U)
          /\ Runnable(U)
    /\ outcome.is = "WORKFLOW_CYCLE" => Cyclic

(****************************** why it holds *******************************)

Frames == [node : Agents, left : Seq(Agents)]
TypeOK ==
    /\ request \in Requests /\ ids \in Seq(Nat) /\ todo \in Seq(Agents)
    /\ stack \in Seq(Frames)
    /\ outcome = [is |-> outcome.is, units |-> outcome.units]

Needs(a) == Elements(Deps(a))

\* A stack is a path: who is being visited needs whoever is above it, and has nothing
\* else left to wait for than what it has not looked at.
Waiting(st, top) ==
    /\ visiting = {st[i].node : i \in DOMAIN st}
    /\ \A i, j \in DOMAIN st : st[i].node = st[j].node => i = j
    /\ \A i \in DOMAIN st :
          LET above == IF i = 1 THEN top ELSE {st[i - 1].node} IN
          /\ Elements(st[i].left) \cup above \subseteq Needs(st[i].node)
          /\ Needs(st[i].node) \subseteq Elements(st[i].left) \cup above \cup visited
Path == Waiting(stack, {}) /\ visiting \cap visited = {}

\* Among the visited, nobody waits for another one, and no set of them for itself.
Grounded ==
    /\ \A a \in visited : Needs(a) \subseteq visited
    /\ \A S \in (SUBSET visited) \ {{}} : \E a \in S : Needs(a) \cap S = {}

\* Once the workflow is resolved, every unit is somewhere on its way.
Resolved ==
    visited # {} \/ stack # <<>> \/ todo # <<>> =>
        /\ WellFormed /\ Len(ids) = Len(Ordered)
        /\ visited \cup visiting \cup Elements(todo) = Units

IndInv == /\ TypeOK /\ ids = [i \in 1..Len(ids) |-> i - 1]
          /\ Path /\ Grounded /\ Resolved /\ CompilesDags
================================================================================
