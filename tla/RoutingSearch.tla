--------------------------- MODULE RoutingSearch ---------------------------
(***************************************************************************)
(* Routing as the loops of module_router.py run it, step by step: the      *)
(* depth-first search by which validate_module_repository looks for a      *)
(* cycle of dependencies, the queue that adds to the chosen modules what   *)
(* they depend on, and the depth-first search that puts what is selected   *)
(* in order.  ModuleRouter says what they should come to.                  *)
(*                                                                         *)
(* A call of visit that did not return yet is a node on the stack; rest    *)
(* has the dependencies its loop is still to visit.                        *)
(***************************************************************************)
EXTENDS ModuleRouter, Sequences

CONSTANTS
  PhaseOrder,  \* PhaseOrder[p]: the place of phase p in the manifest
  IdOrder,     \* IdOrder[m]: the place of m's id in the alphabet
  Activations  \* the states of the gates a plan may have

VARIABLES
  bundle,    \* the root of the repository that is routed
  stage,     \* "validating", "selecting", "ordering", "refused" or "routed"
  states,    \* the states of the gates, None before the plan is looked at
  todo,      \* what the loop around visit is still to visit
  stack,     \* the nodes of the calls of visit, the innermost last
  rest,      \* rest[m]: what the loop in visit(m) is still to visit
  visiting,  \* visiting; temporary in the second search
  visited,   \* visited; permanent in the second search
  cycle,     \* the cycle that was found, or <<>>
  selected,
  queue,     \* the selected whose dependencies were not added yet
  order      \* result: the selected modules that have their place

vars == <<bundle, stage, states, todo, stack, rest, visiting, visited, cycle, selected, queue, order>>

R == Contents[bundle]

-----------------------------------------------------------------------------
(* The modules that could be read.  The others are not in the graph, and   *)
(* as dependencies of others depend on nothing: graph.get(node, ()).       *)
Loaded == {m \in R.listed : DocumentSound(R, m) /\ R.files[m].state = "sound"}

Graph == [m \in Modules |-> IF m \in Loaded THEN R.documents[m].deps ELSE {}]

(* sort_key: first phase, priority, id.                                    *)
FirstPhase(m) == Min({PhaseOrder[p] : p \in R.documents[m].phases})

SortsBefore(m, n) ==
  LET p == FirstPhase(m)
      q == FirstPhase(n)
      i == R.documents[m].priority
      j == R.documents[n].priority
  IN \/ p < q
     \/ p = q /\ i < j
     \/ p = q /\ i = j /\ IdOrder[m] < IdOrder[n]

-----------------------------------------------------------------------------
(* What both searches do.                                                  *)

Top == stack[Len(stack)]

(* What the innermost loop is still to visit.                              *)
Pending == IF stack = <<>> THEN todo ELSE rest[Top]

(* Mutant: the loop starts over with what it visited.                      *)
TakeNone(m) == UNCHANGED <<todo, rest>>

Take(m) ==
  IF stack = <<>> THEN todo' = todo \ {m} /\ UNCHANGED rest
                  ELSE rest' = [rest EXCEPT ![Top] = @ \ {m}] /\ UNCHANGED todo

Enter(m) ==
  /\ visiting' = visiting \cup {m}
  /\ stack' = Append(stack, m)

(* The loop of the innermost call is over: visit returns.                  *)
Leave ==
  /\ stage \in {"validating", "ordering"}
  /\ stack # <<>>
  /\ rest[Top] = {}
  /\ stack' = SubSeq(stack, 1, Len(stack) - 1)
  /\ visiting' = visiting \ {Top}
  /\ visited' = visited \cup {Top}
  /\ order' = IF stage = "ordering" THEN Append(order, Top) ELSE order
  /\ UNCHANGED <<bundle, stage, states, todo, rest, cycle, selected, queue>>

-----------------------------------------------------------------------------
(* _find_cycle.                                                            *)

Init ==
  /\ bundle \in Bundles
  /\ stage = "validating"
  /\ states = None
  /\ todo = Loaded
  /\ stack = <<>>
  /\ rest = Graph
  /\ visiting = {}
  /\ visited = {}
  /\ cycle = <<>>
  /\ selected = {}
  /\ queue = {}
  /\ order = <<>>

(* The outer loop goes by the ids, the inner one as the document has it.   *)
IdFirst(m) == stack = <<>> => \A n \in todo : IdOrder[m] <= IdOrder[n]

(* stack[index:] + [node].                                                 *)
CycleTo(m) ==
  LET index == CHOOSE i \in DOMAIN stack : stack[i] = m
  IN Append(SubSeq(stack, index, Len(stack)), m)

(* Mutant: one set of nodes seen instead of visiting and visited.          *)
VisitSeen ==
  /\ stage = "validating"
  /\ \E m \in Pending :
       /\ IdFirst(m)
       /\ Take(m)
       /\ \/ m \in visiting \cup visited /\ UNCHANGED <<stage, cycle, visiting, stack>>
          \/ m \notin visiting \cup visited /\ Enter(m) /\ UNCHANGED <<stage, cycle>>
  /\ UNCHANGED <<bundle, states, visited, selected, queue, order>>

Visit ==
  /\ stage = "validating"
  /\ \E m \in Pending :
       /\ IdFirst(m)
       /\ Take(m)
       /\ \/ m \in visiting /\ cycle' = CycleTo(m) /\ stage' = "refused" /\ UNCHANGED <<visiting, stack>>
          \/ m \in visited \ visiting /\ UNCHANGED <<stage, cycle, visiting, stack>>
          \/ m \notin visiting \cup visited /\ Enter(m) /\ UNCHANGED <<stage, cycle>>
  /\ UNCHANGED <<bundle, states, visited, selected, queue, order>>

(* Mutant: the search ends with the first module that is on no cycle.      *)
SearchedFirst == stack = <<>> /\ (todo = {} \/ visited # {})

SearchedAll == stack = <<>> /\ todo = {}

(* No cycle was found.  With no other issue the plan is looked at.         *)
EndValidation ==
  /\ stage = "validating"
  /\ SearchedAll
  /\ IF DocumentsValid(R)
       THEN \E plan \in Activations :
              /\ stage' = "selecting"
              /\ states' = plan
              /\ selected' = Chosen(R, plan)
              /\ queue' = Chosen(R, plan)
       ELSE stage' = "refused" /\ UNCHANGED <<states, selected, queue>>
  /\ UNCHANGED <<bundle, todo, stack, rest, visiting, visited, cycle, order>>

-----------------------------------------------------------------------------
(* _route_modules_unchecked and _topological_order.                        *)

AddDependencies ==
  /\ stage = "selecting"
  /\ \E m \in queue :
       /\ selected' = selected \cup R.documents[m].deps
       /\ queue' = (queue \ {m}) \cup (R.documents[m].deps \ selected)
  /\ UNCHANGED <<bundle, stage, states, todo, stack, rest, visiting, visited, cycle, order>>

(* Of the dependencies only those that are selected are visited.           *)
SelectedGraph == [m \in Modules |-> R.documents[m].deps \cap selected]

StartOrdering ==
  /\ stage = "selecting"
  /\ queue = {}
  /\ stage' = "ordering"
  /\ todo' = selected
  /\ stack' = <<>>
  /\ rest' = SelectedGraph
  /\ visiting' = {}
  /\ visited' = {}
  /\ UNCHANGED <<bundle, states, cycle, selected, queue, order>>

(* Mutant: sets are gone through as they come.                             *)
KeyAny(m) == TRUE

KeyFirst(m) == \A n \in Pending : ~SortsBefore(n, m)

(* visit(m) raises for a module that is in temporary.                      *)
Place ==
  /\ stage = "ordering"
  /\ \E m \in Pending :
       /\ KeyFirst(m)
       /\ Take(m)
       /\ IF m \in visited \cup visiting THEN UNCHANGED <<visiting, stack>> ELSE Enter(m)
       /\ stage' = IF m \in visiting \ visited THEN "refused" ELSE "ordering"
  /\ UNCHANGED <<bundle, states, visited, cycle, selected, queue, order>>

EndOrdering ==
  /\ stage = "ordering"
  /\ SearchedAll
  /\ stage' = "routed"
  /\ UNCHANGED <<bundle, states, todo, stack, rest, visiting, visited, cycle, selected, queue, order>>

Next ==
  \/ Visit
  \/ Leave
  \/ EndValidation
  \/ AddDependencies
  \/ StartOrdering
  \/ Place
  \/ EndOrdering

(* Routing is one call of one thread.                                      *)
Spec == Init /\ [][Next]_vars /\ WF_vars(Next)

-----------------------------------------------------------------------------
(* Properties.                                                             *)

(* The types of the variables.                                             *)
TypeOK ==
  /\ bundle \in Bundles
  /\ stage \in {"validating", "selecting", "ordering", "refused", "routed"}
  /\ states \in Activations \cup {None}
  /\ todo \subseteq Modules
  /\ stack \in Seq(Modules)
  /\ rest \in [Modules -> SUBSET Modules]
  /\ visiting \subseteq Modules
  /\ visited \subseteq Modules
  /\ cycle \in Seq(Modules)
  /\ selected \subseteq Modules
  /\ queue \subseteq Modules
  /\ order \in Seq(Modules)

(* A part of the graph each of whose nodes has a next one in it.           *)
Circular(S) == S # {} /\ \A m \in S : Graph[m] \cap S # {}

(* _find_cycle returns a closed walk along dependencies, and it returns    *)
(* one exactly if there is one, whatever else is wrong with the modules.   *)
CycleExact ==
  /\ cycle # <<>> =>
       /\ Len(cycle) > 1
       /\ cycle[1] = cycle[Len(cycle)]
       /\ \A i \in 1..(Len(cycle) - 1) : cycle[i + 1] \in Graph[cycle[i]]
  /\ stage # "validating" => (cycle # <<>> <=> \E S \in SUBSET Modules : Circular(S))

(* A repository is refused exactly if it is not valid.  In particular the  *)
(* search for an order never raises: what has a dependency cycle was       *)
(* refused before.                                                         *)
RefusedIfInvalid ==
  /\ stage = "refused" => ~RepositoryValid(R)
  /\ stage \in {"selecting", "ordering", "routed"} => RepositoryValid(R)

(* The queue ends with the least set that has what was chosen and what the *)
(* members depend on.                                                      *)
SelectedExact == stage \in {"ordering", "routed"} => selected = Selected(R, states)

(* What n depends on, step by step, n included.                            *)
Under(n) ==
  {m \in Modules : \A S \in SUBSET Modules :
     n \in S /\ (\A k \in S : R.documents[k].deps \subseteq S) => m \in S}

(* The order has each module that ModuleRouter selects once, after what it *)
(* depends on; and one overtakes another of a smaller key only where that one, or a module *)
(* of no greater key than that, depends on it.                             *)
OrderExact ==
  stage = "routed" =>
    /\ {order[i] : i \in DOMAIN order} = Selected(R, states)
    /\ \A i, j \in DOMAIN order :
         /\ order[i] = order[j] => i = j
         /\ order[i] \in R.documents[order[j]].deps => i < j
         /\ SortsBefore(order[j], order[i]) /\ i < j =>
              \E k \in selected : order[i] \in Under(k) /\ (k = order[j] \/ ~SortsBefore(order[j], k))

(* What is still to be done gets less: no loop is given back what it       *)
(* visited, no module is left or settled twice, and every step visits,     *)
(* leaves or settles one.                                                  *)
Shrinks ==
  /\ todo' \subseteq todo
  /\ \A m \in Modules : rest'[m] \subseteq rest[m]
  /\ visited \subseteq visited'
  /\ selected \ queue \subseteq selected' \ queue'
  /\ <<todo', rest', visited', selected' \ queue'>> # <<todo, rest, visited, selected \ queue>>

(* Each step shrinks what is to be done or ends a stage for good: as there *)
(* are finitely many modules, no repository, cyclic or not, keeps the      *)
(* loops running.                                                          *)
NearsEnd ==
  [][\/ stage' = stage /\ Shrinks
     \/ stage = "validating" /\ stage' \in {"refused", "selecting"}
     \/ stage = "selecting" /\ stage' = "ordering"
     \/ stage = "ordering" /\ stage' = "routed"]_vars

(* Routing comes to an end.                                                *)
Ends == <>(stage \in {"refused", "routed"})
=============================================================================
