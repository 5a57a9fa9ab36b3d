--------------------------- MODULE MCRoutingSearch ---------------------------
(***************************************************************************)
(* Instances of RoutingSearch: the dependency graphs of three modules,     *)
(* those of four that have no cycle, with keys that go with them or        *)
(* against them, and                                                       *)
(* repositories that are refused for another reason.                       *)
(***************************************************************************)
EXTENDS RoutingSearch, TLC

CONSTANTS K, L, M, N, gK, gL, gM, gN

MCModules == {K, L, M, N}
MCGates == {gK, gL, gM, gN}
MCPhaseOf == gK :> "T" @@ gL :> "E" @@ gM :> "T" @@ gN :> "E"
MCPhaseOrder == [E |-> 1, T |-> 2]
MCIdOrder == K :> 1 @@ L :> 2 @@ M :> 3 @@ N :> 4

Gate == K :> gK @@ L :> gL @@ M :> gM @@ N :> gN

(* A revision tells the priority and the dependencies.                     *)
Weight == K :> 1 @@ L :> 2 @@ M :> 4 @@ N :> 8
Revision(priority, deps) == 100 * priority + MapThenSumSet(LAMBDA n : Weight[n], deps)

(* Every module has its own gate, so that any set of them may be chosen.   *)
Document(m, priority, deps) ==
  [rev |-> Revision(priority, deps), priority |-> priority, state |-> "sound", covers |-> {Gate[m]}, phases |-> {PhaseOf[Gate[m]]},
   deps |-> deps, conflicts |-> {}, policy |-> "any_active_gate", needs |-> {}, makes |-> {},
   reads |-> {}, requires |-> {}, tools |-> {}, instructions |-> 1, budget |-> 1]

Each(f(_)) == K :> f(K) @@ L :> f(L) @@ M :> f(M) @@ N :> f(N)

Repository(listed, graph, priority) ==
  [listed |-> listed, sound |-> TRUE, complete |-> FALSE, required |-> {}, hard |-> 4, percent |-> 75,
   documents |-> Each(LAMBDA m : Document(m, priority[m], graph[m])),
   files |-> Each(LAMBDA m : [rev |-> 1, state |-> "sound", tokens |-> 1]),
   pins |-> Each(LAMBDA m : Revision(priority[m], graph[m]))]

Even == Each(LAMBDA m : 1)
Turned == K :> 2 @@ L :> 1 @@ M :> 2 @@ N :> 1

(* The graph whose edges are those with a 1 in the binary digits of n.     *)
GraphOf(edges, n) ==
  LET present == {edges[i] : i \in {j \in DOMAIN edges : (n \div 2^(j - 1)) % 2 = 1}}
  IN Each(LAMBDA m : {e[2] : e \in {d \in present : d[1] = m}})

(* Of three modules, of which one is enough to depend on itself; and of    *)
(* four, without a cycle, with phases and priorities that go with the      *)
(* dependencies or against them.                                           *)
Three == <<<<K, K>>, <<K, L>>, <<K, M>>, <<L, K>>, <<L, M>>, <<M, K>>, <<M, L>>>>
Four == <<<<L, K>>, <<M, K>>, <<M, L>>, <<N, K>>, <<N, L>>, <<N, M>>>>

Small == {K, L, M}
Ring == Repository(Small, K :> {L} @@ L :> {M} @@ M :> {K} @@ N :> {}, Even)
Unlisted == Repository(Small, K :> {L, N} @@ L :> {} @@ M :> {} @@ N :> {}, Even)

(* What else a repository may be refused for.                              *)
Faulty ==
  <<[Ring EXCEPT !.sound = FALSE],
    [Ring EXCEPT !.pins[L] = 0],
    [Ring EXCEPT !.files[L] = [@ EXCEPT !.rev = 2, !.state = "link"]],
    Unlisted,
    [Unlisted EXCEPT !.pins[K] = 0]>>

MCBundles == 0..260
Repositories ==
  [b \in 0..127   |-> Repository(Small, GraphOf(Three, b), Even)] @@
  [b \in 128..191 |-> Repository(MCModules, GraphOf(Four, b - 128), Even)] @@
  [b \in 192..255 |-> Repository(MCModules, GraphOf(Four, b - 192), Turned)] @@
  [b \in 256..260 |-> Faulty[b - 255]]

MCContents == Repositories

MCActivations == [MCGates -> {"active", "inactive"}]
=============================================================================
