---------------------------- MODULE ModuleRouter ----------------------------
(***************************************************************************)
(* The module registry and the routing of an activation plan to modules    *)
(* (module_router.py).  A repository is what the router reads from disk:   *)
(* the registry with its pins and budgets, and per module its document and *)
(* its instruction file.  Routing is a pure function of a repository and   *)
(* of the states of the gates, and refuses a repository that is not valid. *)
(*                                                                         *)
(* A digest is modelled by the revision of the file it is taken of.  The   *)
(* loops that compute what is defined here are those of RoutingSearch.     *)
(***************************************************************************)
EXTENDS Integers, FiniteSets, FiniteSetsExt

CONSTANTS
  Modules,
  Gates,
  Phases,
  PhaseOf,        \* PhaseOf[g]: the phase the manifest puts gate g in
  ContextFields,  \* what modules may require of a context
  Bundles,        \* bundle roots the repository on disk may have
  Contents,       \* Contents[b]: the repository of bundle root b
  None

ASSUME PhaseAssumption == PhaseOf \in [Gates -> Phases]

(* The schema of the registry and of a module document.                    *)
ASSUME ContentsAssumption ==
  \A b \in Bundles :
    /\ Contents[b].listed \subseteq Modules
    /\ \A m \in Modules :
         /\ Contents[b].documents[m].policy \in {"any_active_gate", "all_active_gates"}
         /\ Contents[b].documents[m].deps \subseteq Modules

(* Two revisions of a file are two files.                                  *)
ASSUME RevisionsAssumption ==
  \A b, c \in Bundles : \A m \in Modules :
    /\ Contents[b].documents[m].rev = Contents[c].documents[m].rev =>
         Contents[b].documents[m] = Contents[c].documents[m]
    /\ Contents[b].files[m].rev = Contents[c].files[m].rev =>
         Contents[b].files[m] = Contents[c].files[m]

-----------------------------------------------------------------------------
(* validate_module_repository.                                             *)

(* A pinned document under modules/, no link, that parses and follows its  *)
(* schema, and its instruction file, likewise.                             *)
DocumentSound(R, m) ==
  /\ R.documents[m].state = "sound"
  /\ R.documents[m].rev = R.pins[m]

InstructionsSound(R, m) ==
  /\ R.files[m].state = "sound"
  /\ R.files[m].rev = R.documents[m].instructions
  /\ R.files[m].tokens <= R.documents[m].budget

PhasesDeclared(R, m) ==
  /\ R.documents[m].covers \subseteq Gates
  /\ R.documents[m].phases \subseteq Phases
  /\ {PhaseOf[g] : g \in R.documents[m].covers} \subseteq R.documents[m].phases

(* Network and execute must be among the tools if the runtime requires     *)
(* them.                                                                   *)
ContractSound(R, m) ==
  /\ R.documents[m].reads \subseteq ContextFields
  /\ R.documents[m].requires \subseteq R.documents[m].tools

Covered(R) == UNION {R.documents[m].covers : m \in R.listed}

OwnedOnce(R) ==
  \A m, n \in R.listed : m # n => R.documents[m].covers \cap R.documents[n].covers = {}

NeighboursKnown(R) ==
  \A m \in R.listed :
    /\ R.documents[m].deps \cup R.documents[m].conflicts \subseteq R.listed
    /\ \A n \in R.documents[m].conflicts : m \in R.documents[n].conflicts

(* What the dependencies of m produce under an output's name.              *)
Available(R, m, output) ==
  {out.schema : out \in {o \in UNION {R.documents[n].makes : n \in R.documents[m].deps} :
                           o.output = output}}

InputsProduced(R) ==
  \A m \in R.listed : \A need \in R.documents[m].needs :
    IF Available(R, m, need.output) = {} THEN ~need.required
    ELSE need.schema \in Available(R, m, need.output)

ClosedUnder(R, S) == \A m \in S : R.documents[m].deps \subseteq S

(* A set of modules has no dependency cycle when every part of it has a    *)
(* member that depends on no member of the part.                           *)
Acyclic(R) ==
  \A S \in (SUBSET R.listed) \ {{}} : \E m \in S : R.documents[m].deps \cap S = {}

CoverageKept(R) ==
  /\ R.required \subseteq Covered(R)
  /\ R.complete => Gates \subseteq Covered(R)

(* All that is asked of it but that no dependency cycle is found.          *)
DocumentsValid(R) ==
  /\ R.sound  \* the skill file, registry and versions are as the manifest says
  /\ \A m \in R.listed :
       DocumentSound(R, m) /\ PhasesDeclared(R, m) /\ InstructionsSound(R, m) /\ ContractSound(R, m)
  /\ NeighboursKnown(R)
  /\ OwnedOnce(R)
  /\ InputsProduced(R)
  /\ CoverageKept(R)

RepositoryValid(R) == DocumentsValid(R) /\ Acyclic(R)

-----------------------------------------------------------------------------
(* _route_modules_unchecked.                                               *)

GatesIn(state, states) == {g \in Gates : states[g] = state}

Satisfied(R, m, states) ==
  LET covers == R.documents[m].covers
      active == covers \cap GatesIn("active", states)
  IN IF R.documents[m].policy = "any_active_gate" THEN active # {}
     ELSE covers # {} /\ active = covers

Chosen(R, states) == {m \in R.listed : Satisfied(R, m, states)}

(* Mutant: what is chosen is selected as it stands.                        *)
NoDependencies(R, states) == Chosen(R, states)

Selected(R, states) ==
  LET chosen == Chosen(R, states)
  IN {m \in R.listed : \A S \in SUBSET R.listed :
                         chosen \subseteq S /\ ClosedUnder(R, S) => m \in S}

(* A module that may still be needed: found before dependencies are added, *)
(* and left so when one of them turns out to be this module.               *)
Unresolved(R, states) ==
  {m \in R.listed \ Chosen(R, states) :
     R.documents[m].covers \cap GatesIn("unknown", states) # {}}

Conflicts(R, selected) ==
  {pair \in SUBSET selected : \E m, n \in pair :
     m # n /\ pair = {m, n} /\ n \in R.documents[m].conflicts}

DisclosureBudget(R) == (R.hard * R.percent) \div 100

InPhase(R, selected, phase) == {m \in selected : phase \in R.documents[m].phases}

Exceeded(R, selected) ==
  {phase \in Phases :
     MapThenSumSet(LAMBDA m : R.files[m].tokens, InPhase(R, selected, phase)) > DisclosureBudget(R)}

(* Mutant: only the outputs that are required are passed on.               *)
EntryRequired(R, m) ==
  [id |-> m, digest |-> R.documents[m].rev, instructions |-> R.files[m].rev,
   makes |-> {out \in R.documents[m].makes : out.required}, covers |-> R.documents[m].covers]

Entry(R, m) ==
  [id |-> m, digest |-> R.documents[m].rev, instructions |-> R.files[m].rev,
   makes |-> R.documents[m].makes, covers |-> R.documents[m].covers]

(* The selection, with the instructions of one phase when asked for.       *)
Routed(R, states, disclosed) ==
  LET selected == Selected(R, states)
  IN [entries    |-> {Entry(R, m) : m \in selected},
      unresolved |-> Unresolved(R, states),
      unknown    |-> GatesIn("unknown", states),
      conflicts  |-> Conflicts(R, selected),
      exceeded   |-> Exceeded(R, selected),
      disclosed  |-> IF disclosed = None THEN {} ELSE InPhase(R, selected, disclosed),
      phase      |-> disclosed]

(* summary.completion_blocked.                                             *)
CompletionBlocked(selection) ==
  \/ selection.conflicts # {}
  \/ selection.unresolved # {}
  \/ selection.unknown # {}
  \/ selection.exceeded # {}

(* load_and_route: the repository is validated again, and the plan was     *)
(* evaluated for the bundle that is on disk.                               *)
MayRoute(bundle, plan) == plan.bundle = bundle /\ RepositoryValid(Contents[bundle])
=============================================================================
