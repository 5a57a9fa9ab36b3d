------------------------- MODULE RoutingSearchProofs -------------------------
(***************************************************************************)
(* What routing computes for every repository and plan: the properties of  *)
(* RoutingSearch as theorems.                                              *)
(*                                                                         *)
(* The two searches have one invariant, SearchInv, of the graph they go    *)
(* through and of the modules they start from.                             *)
(***************************************************************************)
EXTENDS RoutingSearch, SequenceTheorems, TLAPS

(* The stack is a path without repetitions.                                *)
StackInv(G) ==
  /\ visiting = {stack[i] : i \in 1..Len(stack)}
  /\ \A i, j \in 1..Len(stack) : stack[i] = stack[j] => i = j
  /\ \A i \in 1..(Len(stack) - 1) : stack[i + 1] \in G[stack[i]]

(* What a node on the stack depends on is still to be visited, was         *)
(* visited, or is next on the stack; what was visited needs nothing else.  *)
RestInv(G) ==
  /\ \A m \in Modules : rest[m] \subseteq G[m]
  /\ visiting \cap visited = {}
  /\ \A m \in Modules \ (visiting \cup visited) : rest[m] = G[m]
  /\ \A m \in visited : G[m] \subseteq visited
  /\ \A i \in 1..Len(stack) : \A d \in G[stack[i]] \ rest[stack[i]] :
       d \in visited \/ (i < Len(stack) /\ d = stack[i + 1])

RootInv(roots) ==
  \A m \in roots \ todo : m \in visited \/ (stack # <<>> /\ m = stack[1])

(* No part of what was visited is circular.                                *)
NoCircle(G) == \A S \in SUBSET visited : S # {} => \E m \in S : G[m] \cap S = {}

SearchInv(G, roots) ==
  StackInv(G) /\ RestInv(G) /\ RootInv(roots) /\ NoCircle(G)

(* The types a search needs.                                               *)
SearchTypes ==
  /\ todo \subseteq Modules
  /\ stack \in Seq(Modules)
  /\ rest \in [Modules -> SUBSET Modules]
  /\ visiting \subseteq Modules
  /\ visited \subseteq Modules

-----------------------------------------------------------------------------
(* Stacks.                                                                 *)

LEMMA Pushed ==
  ASSUME NEW S, NEW s \in Seq(S), NEW e \in S
  PROVE  /\ Append(s, e) \in Seq(S) /\ Append(s, e) # <<>>
         /\ Len(Append(s, e)) = Len(s) + 1
         /\ \A i \in 1..Len(s) : Append(s, e)[i] = s[i]
         /\ Append(s, e)[Len(s) + 1] = e
BY AppendProperties

LEMMA Popped ==
  ASSUME NEW S, NEW s \in Seq(S), s # <<>>
  PROVE  /\ Len(s) \in Nat /\ Len(s) >= 1
         /\ SubSeq(s, 1, Len(s) - 1) \in Seq(S)
         /\ Len(SubSeq(s, 1, Len(s) - 1)) = Len(s) - 1
         /\ \A i \in 1..(Len(s) - 1) : SubSeq(s, 1, Len(s) - 1)[i] = s[i]
<1>1. Len(s) \in Nat /\ Len(s) >= 1
  BY LenProperties, EmptySeq
<1>2. \A i \in 1..(Len(s) - 1) : s[i] \in S
  BY <1>1, ElementOfSeq
<1>3. PICK n \in Nat : n = Len(s) - 1
  BY <1>1
<1>4. /\ SubSeq(s, 1, n) \in Seq(S)
      /\ Len(SubSeq(s, 1, n)) = IF 1 <= n THEN n - 1 + 1 ELSE 0
      /\ \A i \in 1..(n - 1 + 1) : SubSeq(s, 1, n)[i] = s[1 + i - 1]
  BY <1>2, <1>3, SubSeqProperties
<1>5. /\ Len(SubSeq(s, 1, n)) = n
      /\ \A i \in 1..n : SubSeq(s, 1, n)[i] = s[i]
  BY <1>3, <1>4
<1> QED
  BY <1>1, <1>3, <1>4, <1>5

LEMMA Sliced ==
  ASSUME NEW S, NEW s \in Seq(S), NEW k \in 1..Len(s)
  PROVE  /\ SubSeq(s, k, Len(s)) \in Seq(S)
         /\ Len(SubSeq(s, k, Len(s))) = Len(s) - k + 1
         /\ \A i \in 1..(Len(s) - k + 1) : SubSeq(s, k, Len(s))[i] = s[k + i - 1]
<1>1. Len(s) \in Nat
  BY LenProperties
<1>2. \A i \in k..Len(s) : s[i] \in S
  BY <1>1, ElementOfSeq
<1>3. k \in Int /\ Len(s) \in Int /\ k <= Len(s)
  BY <1>1
<1> QED
  BY <1>1, <1>2, <1>3, SubSeqProperties

LEMMA TopOnStack ==
  ASSUME NEW G, SearchTypes, StackInv(G), stack # <<>>
  PROVE  /\ Len(stack) \in Nat /\ Len(stack) >= 1
         /\ Top \in visiting /\ Top \in Modules /\ stack[1] \in visiting
<1>1. Len(stack) \in Nat /\ Len(stack) >= 1
  BY Popped DEF SearchTypes
<1>2. Len(stack) \in 1..Len(stack) /\ 1 \in 1..Len(stack)
  BY <1>1
<1>3. Top \in visiting /\ stack[1] \in visiting
  BY <1>2 DEF StackInv, Top
<1> QED
  BY <1>1, <1>3 DEF SearchTypes

-----------------------------------------------------------------------------
(* Steps of a search.                                                      *)

LEMMA TakeRest ==
  ASSUME NEW G, NEW roots, NEW m \in Pending, SearchTypes, StackInv(G), Take(m)
  PROVE  /\ m \in Modules
         /\ todo' \subseteq Modules /\ rest' \in [Modules -> SUBSET Modules]
         /\ stack = <<>> => todo' = todo \ {m} /\ rest' = rest
         /\ stack # <<>> => todo' = todo /\ rest'[Top] = rest[Top] \ {m}
         /\ \A n \in Modules : (stack = <<>> \/ n # Top) => rest'[n] = rest[n]
<1>1. CASE stack = <<>>
  BY <1>1 DEF Pending, Take, SearchTypes
<1>2. CASE stack # <<>>
  <2>1. Top \in Modules
    BY <1>2, TopOnStack
  <2> QED
    BY <1>2, <2>1 DEF Pending, Take, SearchTypes
<1> QED
  BY <1>1, <1>2

(* What is visited in a loop of visit is what its node depends on.         *)
LEMMA PendingBelow ==
  ASSUME NEW G \in [Modules -> SUBSET Modules], NEW roots, NEW m \in Pending,
         SearchTypes, SearchInv(G, roots), stack # <<>>
  PROVE  m \in G[Top]
<1>1. Top \in Modules
  BY TopOnStack DEF SearchInv
<1> QED
  BY <1>1 DEF Pending, SearchInv, RestInv

(* visit(m) is entered.                                                    *)
LEMMA EnterKeeps ==
  ASSUME NEW G \in [Modules -> SUBSET Modules], NEW roots, NEW m \in Pending,
         SearchTypes, SearchInv(G, roots), Take(m), m \notin visiting \cup visited,
         Enter(m), visited' = visited
  PROVE  SearchTypes' /\ SearchInv(G, roots)'
<1>1. /\ m \in Modules
      /\ todo' \subseteq Modules /\ rest' \in [Modules -> SUBSET Modules]
      /\ stack = <<>> => todo' = todo \ {m} /\ rest' = rest
      /\ stack # <<>> => todo' = todo /\ rest'[Top] = rest[Top] \ {m}
      /\ \A n \in Modules : (stack = <<>> \/ n # Top) => rest'[n] = rest[n]
  BY TakeRest DEF SearchInv
<1>2. /\ stack' \in Seq(Modules) /\ stack' # <<>>
      /\ Len(stack) \in Nat /\ Len(stack') = Len(stack) + 1
      /\ \A i \in 1..Len(stack) : stack'[i] = stack[i] /\ stack[i] \in Modules
      /\ stack'[Len(stack) + 1] = m
  BY <1>1, Pushed, LenProperties, ElementOfSeq DEF SearchTypes, Enter
<1>3. visiting' = visiting \cup {m}
  BY DEF Enter
<1>4. SearchTypes'
  BY <1>1, <1>2, <1>3 DEF SearchTypes
<1>5. stack = <<>> => Len(stack) = 0
  BY EmptySeq
<1>6. stack # <<>> => Len(stack) >= 1
  BY Popped DEF SearchTypes
<1>7. StackInv(G)'
  <2>0. stack # <<>> => m \in G[Top]
    BY PendingBelow
  <2>1. visiting' = {stack'[i] : i \in 1..Len(stack')}
    BY <1>2, <1>3 DEF SearchInv, StackInv
  <2>2. \A i, j \in 1..Len(stack') : stack'[i] = stack'[j] => i = j
    BY <1>2 DEF SearchInv, StackInv
  <2>3. ASSUME NEW i \in 1..(Len(stack') - 1) PROVE stack'[i + 1] \in G[stack'[i]]
    <3>1. CASE i < Len(stack)
      BY <3>1, <1>2 DEF SearchInv, StackInv
    <3>2. CASE i = Len(stack)
      BY <2>0, <3>2, <1>2, <1>5 DEF Top
    <3> QED
      BY <3>1, <3>2, <1>2
  <2> QED
    BY <2>1, <2>2, <2>3 DEF StackInv
<1>8. RestInv(G)'
  <2>0. \A n \in Modules : rest'[n] \subseteq G[n]
    BY <1>1 DEF SearchInv, RestInv
  <2>1. visiting' \cap visited' = {}
    BY <1>3 DEF SearchInv, RestInv
  <2>2. ASSUME NEW n \in Modules \ (visiting' \cup visited') PROVE rest'[n] = G[n]
    <3>1. n \notin visiting
      BY <1>3
    <3>2. stack # <<>> => n # Top
      BY <3>1, TopOnStack DEF SearchInv
    <3> QED
      BY <3>1, <3>2, <1>1 DEF SearchInv, RestInv
  <2>3. ASSUME NEW i \in 1..Len(stack'), NEW d \in G[stack'[i]] \ rest'[stack'[i]]
        PROVE  d \in visited' \/ (i < Len(stack') /\ d = stack'[i + 1])
    <3>1. CASE i = Len(stack) + 1
      <4>1. stack'[i] = m /\ (stack # <<>> => m # Top)
        BY <3>1, <1>2, TopOnStack DEF SearchInv
      <4>2. rest'[m] = G[m]
        BY <4>1, <1>1 DEF SearchInv, RestInv
      <4> QED
        BY <4>1, <4>2
    <3>2. CASE i \in 1..Len(stack)
      <4>1. stack'[i] = stack[i] /\ stack[i] \in Modules /\ stack # <<>> /\ i < Len(stack')
        BY <3>2, <1>2, <1>5
      <4>2. CASE d = m /\ i = Len(stack)
        BY <4>1, <4>2, <1>2
      <4>3. CASE ~(d = m /\ i = Len(stack))
        <5>1. d \notin rest[stack[i]]
          BY <4>1, <4>3, <1>1, <3>2 DEF Top, SearchInv, StackInv
        <5>2. d \in visited \/ (i < Len(stack) /\ d = stack[i + 1])
          BY <5>1, <4>1, <3>2 DEF SearchInv, RestInv
        <5>3. i < Len(stack) => stack'[i + 1] = stack[i + 1]
          BY <3>2, <1>2
        <5> QED
          BY <5>2, <5>3, <4>1
      <4> QED
        BY <4>2, <4>3
    <3> QED
      BY <3>1, <3>2, <1>2
  <2> QED
    BY <2>0, <2>1, <2>2, <2>3 DEF SearchInv, RestInv
<1>9. RootInv(roots)'
  <2> SUFFICES ASSUME NEW n \in roots \ todo' PROVE n \in visited' \/ (stack' # <<>> /\ n = stack'[1])
    BY DEF RootInv
  <2>1. CASE stack = <<>>
    BY <2>1, <1>1, <1>2, <1>5 DEF SearchInv, RootInv
  <2>2. CASE stack # <<>>
    BY <2>2, <1>1, <1>2, <1>6 DEF SearchInv, RootInv
  <2> QED
    BY <2>1, <2>2
<1>10. NoCircle(G)'
  BY DEF SearchInv, NoCircle
<1> QED
  BY <1>4, <1>7, <1>8, <1>9, <1>10 DEF SearchInv

(* visit(m) returns at once.                                               *)
LEMMA SkipKeeps ==
  ASSUME NEW G \in [Modules -> SUBSET Modules], NEW roots, NEW m \in Pending,
         SearchTypes, SearchInv(G, roots), Take(m), m \in visited,
         UNCHANGED <<stack, visiting, visited>>
  PROVE  SearchTypes' /\ SearchInv(G, roots)'
<1>1. /\ m \in Modules
      /\ todo' \subseteq Modules /\ rest' \in [Modules -> SUBSET Modules]
      /\ stack = <<>> => todo' = todo \ {m} /\ rest' = rest
      /\ stack # <<>> => todo' = todo /\ rest'[Top] = rest[Top] \ {m}
      /\ \A n \in Modules : (stack = <<>> \/ n # Top) => rest'[n] = rest[n]
  BY TakeRest DEF SearchInv
<1>2. SearchTypes'
  BY <1>1 DEF SearchTypes
<1>3. StackInv(G)'
  BY DEF SearchInv, StackInv
<1>4. RestInv(G)'
  <2>0. \A n \in Modules : rest'[n] \subseteq G[n]
    BY <1>1 DEF SearchInv, RestInv
  <2>1. ASSUME NEW n \in Modules \ (visiting' \cup visited') PROVE rest'[n] = G[n]
    <3>1. stack # <<>> => n # Top
      BY TopOnStack DEF SearchInv
    <3> QED
      BY <3>1, <1>1 DEF SearchInv, RestInv
  <2>2. ASSUME NEW i \in 1..Len(stack'), NEW d \in G[stack'[i]] \ rest'[stack'[i]]
        PROVE  d \in visited' \/ (i < Len(stack') /\ d = stack'[i + 1])
    <3>1. stack' = stack /\ visited' = visited /\ stack[i] \in Modules
      BY ElementOfSeq DEF SearchTypes
    <3>2. d = m \/ d \notin rest[stack[i]]
      BY <3>1, <1>1
    <3> QED
      BY <3>1, <3>2 DEF SearchInv, RestInv
  <2> QED
    BY <2>0, <2>1, <2>2 DEF SearchInv, RestInv
<1>5. RootInv(roots)'
  BY <1>1 DEF SearchInv, RootInv
<1>6. NoCircle(G)'
  BY DEF SearchInv, NoCircle
<1> QED
  BY <1>2, <1>3, <1>4, <1>5, <1>6 DEF SearchInv

(* visit(Top) returns after its loop.                                      *)
LEMMA LeaveKeeps ==
  ASSUME NEW G \in [Modules -> SUBSET Modules], NEW roots,
         SearchTypes, SearchInv(G, roots), Leave
  PROVE  SearchTypes' /\ SearchInv(G, roots)'
<1>1. /\ stack # <<>> /\ rest[Top] = {}
      /\ stack' = SubSeq(stack, 1, Len(stack) - 1)
      /\ visiting' = visiting \ {Top} /\ visited' = visited \cup {Top}
      /\ todo' = todo /\ rest' = rest
  BY DEF Leave
<1>2. /\ Len(stack) \in Nat /\ Len(stack) >= 1
      /\ stack' \in Seq(Modules) /\ Len(stack') = Len(stack) - 1
      /\ \A i \in 1..(Len(stack) - 1) : stack'[i] = stack[i]
  BY <1>1, Popped DEF SearchTypes
<1>3. Top \in visiting /\ Top \in Modules /\ Top = stack[Len(stack)]
  BY <1>1, TopOnStack DEF SearchInv, Top
<1>4. SearchTypes'
  BY <1>1, <1>2, <1>3 DEF SearchTypes
<1>5. G[Top] \subseteq visited
  <2>1. Len(stack) \in 1..Len(stack)
    BY <1>2
  <2> QED
    BY <2>1, <1>1, <1>3 DEF SearchInv, RestInv
<1>6. Top \notin visited
  BY <1>3 DEF SearchInv, RestInv
<1>7. StackInv(G)'
  <2>1. visiting' = {stack'[i] : i \in 1..Len(stack')}
    <3>1. ASSUME NEW n \in visiting' PROVE \E i \in 1..Len(stack') : n = stack'[i]
      <4>1. PICK i \in 1..Len(stack) : n = stack[i]
        BY <1>1 DEF SearchInv, StackInv
      <4>2. i # Len(stack)
        BY <4>1, <1>1, <1>3
      <4>3. i \in 1..(Len(stack) - 1)
        BY <4>2, <1>2
      <4> QED
        BY <4>1, <4>3, <1>2
    <3>2. ASSUME NEW i \in 1..Len(stack') PROVE stack'[i] \in visiting'
      <4>1. i \in 1..Len(stack) /\ i # Len(stack) /\ Len(stack) \in 1..Len(stack) /\ stack'[i] = stack[i]
        BY <1>2
      <4>2. stack[i] \in visiting /\ stack[i] # Top
        BY <4>1, <1>3 DEF SearchInv, StackInv
      <4> QED
        BY <4>1, <4>2, <1>1
    <3> QED
      BY <3>1, <3>2
  <2>2. \A i, j \in 1..Len(stack') : stack'[i] = stack'[j] => i = j
    BY <1>2 DEF SearchInv, StackInv
  <2>3. \A i \in 1..(Len(stack') - 1) : stack'[i + 1] \in G[stack'[i]]
    BY <1>2 DEF SearchInv, StackInv
  <2> QED
    BY <2>1, <2>2, <2>3 DEF StackInv
<1>8. RestInv(G)'
  <2>0. \A n \in Modules : rest'[n] \subseteq G[n]
    BY <1>1 DEF SearchInv, RestInv
  <2>1. visiting' \cap visited' = {}
    BY <1>1 DEF SearchInv, RestInv
  <2>2. \A n \in Modules \ (visiting' \cup visited') : rest'[n] = G[n]
    BY <1>1 DEF SearchInv, RestInv
  <2>3. \A n \in visited' : G[n] \subseteq visited'
    BY <1>1, <1>5 DEF SearchInv, RestInv
  <2>4. ASSUME NEW i \in 1..Len(stack'), NEW d \in G[stack'[i]] \ rest'[stack'[i]]
        PROVE  d \in visited' \/ (i < Len(stack') /\ d = stack'[i + 1])
    <3>1. i \in 1..Len(stack) /\ i < Len(stack) /\ stack'[i] = stack[i]
      BY <1>2
    <3>2. d \in visited \/ d = stack[i + 1]
      BY <3>1, <1>1 DEF SearchInv, RestInv
    <3>3. CASE i + 1 = Len(stack)
      BY <3>2, <3>3, <1>1, <1>3
    <3>4. CASE i + 1 < Len(stack)
      <4>1. i + 1 \in 1..(Len(stack) - 1) /\ i < Len(stack')
        BY <3>4, <3>1, <1>2
      <4> QED
        BY <3>2, <4>1, <1>1, <1>2
    <3> QED
      BY <3>1, <3>3, <3>4, <1>2
  <2> QED
    BY <2>0, <2>1, <2>2, <2>3, <2>4 DEF RestInv
<1>9. RootInv(roots)'
  <2> SUFFICES ASSUME NEW n \in roots \ todo' PROVE n \in visited' \/ (stack' # <<>> /\ n = stack'[1])
    BY DEF RootInv
  <2>1. n \in visited \/ n = stack[1]
    BY <1>1 DEF SearchInv, RootInv
  <2>2. CASE Len(stack) = 1
    BY <2>1, <2>2, <1>1, <1>3
  <2>3. CASE Len(stack) > 1
    <3>1. stack'[1] = stack[1] /\ stack' # <<>>
      BY <2>3, <1>2, EmptySeq
    <3> QED
      BY <2>1, <3>1, <1>1
  <2> QED
    BY <2>2, <2>3, <1>2
<1>10. NoCircle(G)'
  <2> SUFFICES ASSUME NEW S \in SUBSET visited', S # {} PROVE \E m \in S : G[m] \cap S = {}
    BY DEF NoCircle
  <2>1. CASE S \ {Top} = {}
    <3>1. S = {Top} /\ Top \notin G[Top]
      BY <2>1, <1>5, <1>6
    <3> QED
      BY <3>1
  <2>2. CASE S \ {Top} # {}
    <3>1. S \ {Top} \in SUBSET visited
      BY <1>1
    <3>2. PICK m \in S \ {Top} : G[m] \cap (S \ {Top}) = {}
      BY <2>2, <3>1 DEF SearchInv, NoCircle
    <3>3. Top \notin G[m]
      BY <3>1, <1>6 DEF SearchInv, RestInv
    <3> QED
      BY <3>2, <3>3
  <2> QED
    BY <2>1, <2>2
<1> QED
  BY <1>4, <1>7, <1>8, <1>9, <1>10 DEF SearchInv

(* When the loop around visit is over, everything was visited.             *)
LEMMA SearchedNoCircle ==
  ASSUME NEW G, NEW roots, SearchInv(G, roots), SearchedAll
  PROVE  roots \subseteq visited /\ NoCircle(G)
BY DEF SearchInv, SearchedAll, RootInv

(* A node on the stack that is visited again closes a walk.                *)
LEMMA CycleCloses ==
  ASSUME NEW G \in [Modules -> SUBSET Modules], NEW roots, NEW m \in Pending, NEW c,
         SearchTypes, SearchInv(G, roots), m \in visiting, c = CycleTo(m)
  PROVE  /\ c \in Seq(Modules) /\ Len(c) \in Nat /\ Len(c) > 1 /\ c[1] = c[Len(c)]
         /\ \A i \in 1..(Len(c) - 1) : c[i + 1] \in G[c[i]]
<1>0. stack # <<>>
  BY EmptySeq DEF SearchInv, StackInv
<1>1. /\ Len(stack) \in Nat /\ Len(stack) >= 1 /\ Top = stack[Len(stack)] /\ m \in Modules
      /\ m \in G[Top]
  BY <1>0, TopOnStack, PendingBelow DEF SearchInv, SearchTypes, Top
<1>2. PICK k : k = (CHOOSE i \in DOMAIN stack : stack[i] = m)
  OBVIOUS
<1>3. DOMAIN stack = 1..Len(stack)
  BY LenProperties DEF SearchTypes
<1>4. \E i \in DOMAIN stack : stack[i] = m
  BY <1>3 DEF SearchInv, StackInv
<1>5. k \in 1..Len(stack) /\ stack[k] = m
  BY <1>2, <1>3, <1>4
<1>6. PICK s : s = SubSeq(stack, k, Len(stack))
  OBVIOUS
<1>7. /\ s \in Seq(Modules) /\ Len(s) = Len(stack) - k + 1
      /\ \A i \in 1..(Len(stack) - k + 1) : s[i] = stack[k + i - 1]
  BY <1>5, <1>6, Sliced DEF SearchTypes
<1>8. c = Append(s, m)
  BY <1>2, <1>6 DEF CycleTo
<1>9. /\ c \in Seq(Modules) /\ Len(c) = Len(s) + 1 /\ c[Len(s) + 1] = m
      /\ \A i \in 1..Len(s) : c[i] = s[i]
  BY <1>1, <1>7, <1>8, Pushed
<1>10. Len(c) \in Nat /\ Len(c) > 1 /\ c[1] = m /\ c[Len(c)] = m
  BY <1>5, <1>7, <1>9, <1>1
<1>11. ASSUME NEW i \in 1..(Len(c) - 1) PROVE c[i + 1] \in G[c[i]]
  <2> DEFINE n == Len(stack)
  <2>0. /\ n \in Nat /\ k \in 1..n /\ i \in 1..(n - k + 1) /\ Len(s) = n - k + 1
        /\ k + i - 1 \in 1..n
    BY <1>1, <1>5, <1>7, <1>9
  <2>1. c[i] = stack[k + i - 1] /\ k + i - 1 \in 1..Len(stack)
    BY <2>0, <1>7, <1>9
  <2>2. CASE i = Len(s)
    <3>1. c[i + 1] = m /\ k + i - 1 = n
      BY <2>0, <2>2, <1>9
    <3> QED
      BY <3>1, <2>1, <1>1
  <2>3. CASE i < Len(s)
    <3>0. i + 1 \in 1..(n - k + 1) /\ k + i - 1 \in 1..(n - 1) /\ k + (i + 1) - 1 = k + i
      BY <2>3, <2>0
    <3>1. c[i + 1] = stack[k + i] /\ k + i - 1 \in 1..(Len(stack) - 1)
      BY <3>0, <2>0, <1>7, <1>9
    <3>2. stack[(k + i - 1) + 1] \in G[stack[k + i - 1]]
      BY <3>1 DEF SearchInv, StackInv
    <3> QED
      BY <3>1, <3>2, <2>1, <1>5, <1>1
  <2> QED
    BY <2>0, <2>2, <2>3
<1> QED
  BY <1>9, <1>10, <1>11

(* The nodes of a closed walk are a circular part.                         *)
LEMMA WalkCircular ==
  ASSUME NEW G, NEW c \in Seq(Modules), Len(c) > 1, c[1] = c[Len(c)],
         \A i \in 1..(Len(c) - 1) : c[i + 1] \in G[c[i]]
  PROVE  \E S \in SUBSET Modules : S # {} /\ \A m \in S : G[m] \cap S # {}
<1> DEFINE S == {c[i] : i \in 1..Len(c)}
<1>1. Len(c) \in Nat /\ \A i \in 1..Len(c) : c[i] \in Modules
  BY LenProperties, ElementOfSeq
<1>2. S \in SUBSET Modules /\ S # {}
  BY <1>1
<1>3. ASSUME NEW m \in S PROVE G[m] \cap S # {}
  <2>1. PICK i \in 1..Len(c) : m = c[i]
    OBVIOUS
  <2>2. PICK j \in 1..(Len(c) - 1) : m = c[j]
    <3>1. CASE i = Len(c)
      BY <3>1, <2>1, <1>1
    <3>2. CASE i # Len(c)
      BY <3>2, <2>1, <1>1
    <3> QED
      BY <3>1, <3>2
  <2>3. j + 1 \in 1..Len(c)
    BY <1>1
  <2>4. c[j + 1] \in S /\ c[j + 1] \in G[m]
    BY <2>2, <2>3
  <2> QED
    BY <2>4
<1> QED
  BY <1>2, <1>3

-----------------------------------------------------------------------------
(* The graph of a repository.                                              *)

LEMMA RepositoryTypes ==
  ASSUME bundle \in Bundles
  PROVE  /\ R.listed \subseteq Modules /\ Loaded \subseteq R.listed
         /\ \A m \in Modules : R.documents[m].deps \subseteq Modules
         /\ Graph \in [Modules -> SUBSET Modules]
<1>1. R.listed \subseteq Modules /\ \A m \in Modules : R.documents[m].deps \subseteq Modules
  BY ContentsAssumption DEF R
<1>2. Graph \in [Modules -> SUBSET Modules]
  BY <1>1 DEF Graph
<1>3. Loaded \subseteq R.listed
  BY DEF Loaded
<1> QED
  BY <1>1, <1>2, <1>3

(* What depends on something was loaded.                                   *)
LEMMA CircularLoaded ==
  ASSUME NEW S \in SUBSET Modules, Circular(S)
  PROVE  S \subseteq Loaded
BY DEF Circular, Graph

(* With no other issue all modules were loaded.                            *)
LEMMA ValidLoaded ==
  ASSUME bundle \in Bundles, DocumentsValid(R)
  PROVE  Loaded = R.listed /\ \A m \in R.listed : Graph[m] = R.documents[m].deps
<1>1. Loaded = R.listed
  BY DEF DocumentsValid, InstructionsSound, Loaded
<1> QED
  BY <1>1, RepositoryTypes DEF Graph

(* For a repository with no other issue, the graph has a circular part     *)
(* exactly if the repository is not valid.                                 *)
LEMMA CircularInvalid ==
  ASSUME bundle \in Bundles, DocumentsValid(R)
  PROVE  (\E S \in SUBSET Modules : Circular(S)) <=> ~RepositoryValid(R)
<1>1. ASSUME NEW S \in SUBSET Modules, Circular(S) PROVE ~Acyclic(R)
  <2>1. S \in (SUBSET R.listed) \ {{}} /\ \A m \in S : R.documents[m].deps \cap S # {}
    BY <1>1, CircularLoaded, ValidLoaded DEF Circular
  <2> QED
    BY <2>1 DEF Acyclic
<1>2. ASSUME ~Acyclic(R) PROVE \E S \in SUBSET Modules : Circular(S)
  <2>1. PICK S \in (SUBSET R.listed) \ {{}} : \A m \in S : R.documents[m].deps \cap S # {}
    BY <1>2 DEF Acyclic
  <2>2. S \in SUBSET Modules /\ Circular(S)
    BY <2>1, RepositoryTypes, ValidLoaded DEF Circular
  <2> QED
    BY <2>2
<1> QED
  BY <1>1, <1>2 DEF RepositoryValid

-----------------------------------------------------------------------------
(* The invariant.                                                          *)

(* Before the plan is looked at.                                           *)
ValidatingInv ==
  stage = "validating" =>
    /\ SearchInv(Graph, Loaded)
    /\ cycle = <<>>
    /\ order = <<>>

(* What was selected is needed, and what is not in the queue has all it    *)
(* depends on.                                                             *)
SelectingInv ==
  stage = "selecting" =>
    /\ Chosen(R, states) \subseteq selected
    /\ selected \subseteq Selected(R, states)
    /\ queue \subseteq selected
    /\ \A m \in selected \ queue : R.documents[m].deps \subseteq selected
    /\ order = <<>>

(* What is placed was visited, each module after what it depends on; all   *)
(* on the stack is under the module the loop around visit is at, which is  *)
(* the least of those that are left; and for each that is placed there is  *)
(* one it was needed for, which was the least of those then left.          *)
PlacedInv ==
  /\ visited = {order[i] : i \in 1..Len(order)}
  /\ \A i, j \in 1..Len(order) : order[i] = order[j] => i = j
  /\ \A j \in 1..Len(order) : \A d \in R.documents[order[j]].deps :
       \E i \in 1..(j - 1) : order[i] = d

RootsLeast ==
  stack # <<>> =>
    /\ \A i \in 1..Len(stack) : stack[i] \in Under(stack[1])
    /\ \A n \in todo : ~SortsBefore(n, stack[1])

Overtakes(i, k) ==
  /\ order[i] \in Under(k)
  /\ \A m \in selected : (\A j \in 1..i : order[j] # m) => m = k \/ ~SortsBefore(m, k)

KeysInv == \A i \in 1..Len(order) : \E k \in selected : Overtakes(i, k)

OrderingInv ==
  stage \in {"ordering", "routed"} =>
    /\ selected = Selected(R, states)
    /\ SearchInv(SelectedGraph, selected)
    /\ todo \cup visited \cup visiting \subseteq selected
    /\ PlacedInv
    /\ RootsLeast
    /\ KeysInv

IInv ==
  /\ TypeOK
  /\ ValidatingInv
  /\ CycleExact
  /\ RefusedIfInvalid
  /\ SelectingInv
  /\ OrderingInv
  /\ stage = "routed" => SearchedAll

-----------------------------------------------------------------------------
(* Routing.                                                                *)

(* What is selected is listed, with all it depends on.                     *)
LEMMA SelectionClosed ==
  ASSUME bundle \in Bundles, RepositoryValid(R), NEW plan
  PROVE  /\ Chosen(R, plan) \subseteq Selected(R, plan)
         /\ Selected(R, plan) \subseteq R.listed
         /\ \A m \in Selected(R, plan) : R.documents[m].deps \subseteq Selected(R, plan)
<1>1. Chosen(R, plan) \subseteq Selected(R, plan) /\ Selected(R, plan) \subseteq R.listed
  BY DEF Selected, Chosen
<1>2. ASSUME NEW m \in Selected(R, plan), NEW d \in R.documents[m].deps
      PROVE  d \in Selected(R, plan)
  <2>1. d \in R.listed
    BY <1>1 DEF RepositoryValid, DocumentsValid, NeighboursKnown
  <2>2. ASSUME NEW S \in SUBSET R.listed, Chosen(R, plan) \subseteq S, ClosedUnder(R, S)
        PROVE  d \in S
    <3>1. m \in S
      BY <2>2 DEF Selected
    <3> QED
      BY <3>1, <2>2 DEF ClosedUnder
  <2> QED
    BY <2>1, <2>2 DEF Selected
<1> QED
  BY <1>1, <1>2

(* It is the least such set.                                               *)
LEMMA SelectionLeast ==
  ASSUME NEW plan, NEW S \in SUBSET R.listed, Chosen(R, plan) \subseteq S, ClosedUnder(R, S)
  PROVE  Selected(R, plan) \subseteq S
BY DEF Selected

LEMMA UnderSelf ==
  ASSUME NEW n \in Modules
  PROVE  n \in Under(n)
BY DEF Under

LEMMA UnderDeeper ==
  ASSUME bundle \in Bundles, NEW n, NEW m \in Under(n), NEW d \in R.documents[m].deps
  PROVE  d \in Under(n)
<1>1. m \in Modules /\ d \in Modules
  BY RepositoryTypes DEF Under
<1>2. ASSUME NEW S \in SUBSET Modules, n \in S, \A k \in S : R.documents[k].deps \subseteq S
      PROVE  d \in S
  <2>1. m \in S
    BY <1>2 DEF Under
  <2> QED
    BY <1>2, <2>1
<1> QED
  BY <1>1, <1>2 DEF Under

-----------------------------------------------------------------------------
(* Steps.                                                                  *)

LEMMA TypesOfSearch == TypeOK => SearchTypes
BY DEF TypeOK, SearchTypes

(* The repository is the same all the time.                                *)
LEMMA SameRepository ==
  ASSUME bundle' = bundle
  PROVE  /\ R' = R /\ Loaded' = Loaded /\ Graph' = Graph
         /\ \A S : Circular(S)' <=> Circular(S)
         /\ \A m, n : SortsBefore(m, n)' <=> SortsBefore(m, n)
         /\ \A n : Under(n)' = Under(n)
<1>1. R' = R
  BY DEF R
<1>2. Loaded' = Loaded /\ Graph' = Graph
  BY <1>1 DEF Loaded, Graph
<1>3. \A S : Circular(S)' <=> Circular(S)
  BY <1>2 DEF Circular
<1>4. \A m, n : SortsBefore(m, n)' <=> SortsBefore(m, n)
  BY <1>1 DEF SortsBefore, FirstPhase
<1>5. \A n : Under(n)' = Under(n)
  BY <1>1 DEF Under
<1> QED
  BY <1>1, <1>2, <1>3, <1>4, <1>5

(* What is established when the search is over stays so.                   *)
LEMMA VerdictsStay ==
  ASSUME CycleExact, RefusedIfInvalid, bundle' = bundle, cycle' = cycle,
         stage \in {"selecting", "ordering", "routed"},
         stage' \in {"selecting", "ordering", "routed"}
  PROVE  CycleExact' /\ RefusedIfInvalid'
<1>1. CycleExact'
  BY SameRepository DEF CycleExact
<1>2. RefusedIfInvalid'
  BY SameRepository DEF RefusedIfInvalid
<1> QED
  BY <1>1, <1>2

LEMMA InitIInv == Init => IInv
<1> SUFFICES ASSUME Init PROVE IInv
  OBVIOUS
<1> USE DEF Init
<1>1. Loaded \subseteq Modules /\ Graph \in [Modules -> SUBSET Modules]
  BY RepositoryTypes
<1>2. TypeOK
  <2>1. <<>> \in Seq(Modules)
    BY EmptySeq
  <2> QED
    BY <1>1, <2>1 DEF TypeOK
<1>3. SearchInv(Graph, Loaded)
  <2>1. Len(stack) = 0
    BY EmptySeq
  <2>2. StackInv(Graph)
    BY <2>1 DEF StackInv
  <2>3. RestInv(Graph)
    BY <2>1 DEF RestInv
  <2>4. RootInv(Loaded) /\ NoCircle(Graph)
    BY DEF RootInv, NoCircle
  <2> QED
    BY <2>2, <2>3, <2>4 DEF SearchInv
<1>4. CycleExact /\ RefusedIfInvalid
  BY DEF CycleExact, RefusedIfInvalid
<1> QED
  BY <1>2, <1>3, <1>4 DEF IInv, ValidatingInv, SelectingInv, OrderingInv

LEMMA VisitKeeps == IInv /\ Visit => IInv'
<1> SUFFICES ASSUME IInv, Visit PROVE IInv'
  OBVIOUS
<1>1. TypeOK /\ SearchTypes /\ stage = "validating" /\ bundle \in Bundles
  BY TypesOfSearch DEF IInv, Visit, TypeOK
<1>2. SearchInv(Graph, Loaded) /\ cycle = <<>> /\ order = <<>>
  BY <1>1 DEF IInv, ValidatingInv
<1>3. Graph \in [Modules -> SUBSET Modules]
  BY <1>1, RepositoryTypes
<1>4. UNCHANGED <<bundle, states, visited, selected, queue, order>>
  BY DEF Visit
<1>5. PICK m \in Pending :
        /\ Take(m)
        /\ \/ m \in visiting /\ cycle' = CycleTo(m) /\ stage' = "refused" /\ UNCHANGED <<visiting, stack>>
           \/ m \in visited \ visiting /\ UNCHANGED <<stage, cycle, visiting, stack>>
           \/ m \notin visiting \cup visited /\ Enter(m) /\ UNCHANGED <<stage, cycle>>
  BY DEF Visit
<1>6. PICK G : G = Graph
  OBVIOUS
<1>7. PICK roots : roots = Loaded
  OBVIOUS
<1>8. G = Graph' /\ roots = Loaded'
  BY <1>4, <1>6, <1>7, SameRepository
<1>9. CASE m \in visiting
  <2>1. cycle' = CycleTo(m) /\ stage' = "refused" /\ UNCHANGED <<visiting, stack, visited>>
    BY <1>4, <1>5, <1>9, <1>2 DEF SearchInv, RestInv
  <2>2. PICK c : c = CycleTo(m)
    OBVIOUS
  <2>3. /\ c \in Seq(Modules) /\ Len(c) \in Nat /\ Len(c) > 1 /\ c[1] = c[Len(c)]
        /\ \A i \in 1..(Len(c) - 1) : c[i + 1] \in Graph[c[i]]
    BY <1>1, <1>2, <1>3, <1>9, <2>2, CycleCloses
  <2>4. \E S \in SUBSET Modules : Circular(S)
    BY <2>3, WalkCircular DEF Circular
  <2>5. c # <<>>
    BY <2>3, EmptySeq
  <2>6. CycleExact'
    BY <2>1, <2>2, <2>3, <2>4, <2>5, <1>4, SameRepository DEF CycleExact
  <2>7. ~RepositoryValid(R)
    BY <1>1, <2>4, CircularInvalid DEF RepositoryValid
  <2>8. RefusedIfInvalid'
    BY <2>1, <2>7, <1>4, SameRepository DEF RefusedIfInvalid
  <2>9. TypeOK'
    <3>1. todo' \subseteq Modules /\ rest' \in [Modules -> SUBSET Modules]
      BY <1>1, <1>2, <1>5, TakeRest DEF SearchInv
    <3> QED
      BY <3>1, <1>1, <1>4, <2>1, <2>2, <2>3 DEF TypeOK
  <2> QED
    BY <2>1, <2>6, <2>8, <2>9 DEF IInv, ValidatingInv, SelectingInv, OrderingInv
<1>10. CASE m \notin visiting
  <2>1. UNCHANGED <<stage, cycle>>
    BY <1>5, <1>10
  <2>2. SearchTypes' /\ SearchInv(G, roots)'
    <3>1. SearchInv(G, roots) /\ G \in [Modules -> SUBSET Modules]
      BY <1>2, <1>3, <1>6, <1>7
    <3>2. CASE m \in visited
      BY <3>1, <3>2, <1>1, <1>4, <1>5, <1>10, SkipKeeps
    <3>3. CASE m \notin visited
      BY <3>1, <3>3, <1>1, <1>4, <1>5, <1>10, EnterKeeps
    <3> QED
      BY <3>2, <3>3
  <2>3. SearchInv(Graph, Loaded)'
    BY <2>2, <1>8
  <2>4. TypeOK'
    BY <1>1, <1>4, <2>1, <2>2 DEF TypeOK, SearchTypes
  <2>5. CycleExact' /\ RefusedIfInvalid'
    BY <1>1, <1>2, <2>1 DEF CycleExact, RefusedIfInvalid
  <2> QED
    BY <1>1, <1>2, <1>4, <2>1, <2>3, <2>4, <2>5 DEF IInv, ValidatingInv, SelectingInv, OrderingInv
<1> QED
  BY <1>9, <1>10

LEMMA LeaveValidating ==
  ASSUME IInv, Leave, stage = "validating"
  PROVE  IInv'
<1>1. TypeOK /\ SearchTypes /\ bundle \in Bundles
  BY TypesOfSearch DEF IInv, TypeOK
<1>2. SearchInv(Graph, Loaded) /\ cycle = <<>> /\ order = <<>>
  BY DEF IInv, ValidatingInv
<1>3. UNCHANGED <<bundle, stage, states, cycle, selected, queue, order>>
  BY DEF Leave
<1>4. PICK G \in [Modules -> SUBSET Modules] : G = Graph
  BY <1>1, RepositoryTypes
<1>5. PICK roots : roots = Loaded
  OBVIOUS
<1>6. G = Graph' /\ roots = Loaded'
  BY <1>3, <1>4, <1>5, SameRepository
<1>7. SearchTypes' /\ SearchInv(G, roots)'
  BY <1>1, <1>2, <1>4, <1>5, LeaveKeeps
<1>8. SearchInv(Graph, Loaded)'
  BY <1>6, <1>7
<1>9. TypeOK'
  BY <1>1, <1>3, <1>7 DEF TypeOK, SearchTypes
<1>10. CycleExact' /\ RefusedIfInvalid'
  BY <1>2, <1>3 DEF CycleExact, RefusedIfInvalid
<1> QED
  BY <1>2, <1>3, <1>8, <1>9, <1>10 DEF IInv, ValidatingInv, SelectingInv, OrderingInv

(* The search is over and found nothing.                                   *)
LEMMA EndValidationKeeps == IInv /\ EndValidation => IInv'
<1> SUFFICES ASSUME IInv, EndValidation PROVE IInv'
  OBVIOUS
<1>1. /\ TypeOK /\ SearchTypes /\ bundle \in Bundles /\ stage = "validating" /\ SearchedAll
      /\ UNCHANGED <<bundle, todo, stack, rest, visiting, visited, cycle, order>>
  BY TypesOfSearch DEF IInv, TypeOK, EndValidation
<1>2. SearchInv(Graph, Loaded) /\ cycle = <<>> /\ order = <<>>
  BY <1>1 DEF IInv, ValidatingInv
<1>3. ASSUME NEW S \in SUBSET Modules, Circular(S) PROVE FALSE
  <2>1. S \in SUBSET visited /\ NoCircle(Graph)
    BY <1>1, <1>2, <1>3, CircularLoaded, SearchedNoCircle
  <2> QED
    BY <2>1, <1>3 DEF NoCircle, Circular
<1>4. CycleExact'
  BY <1>1, <1>2, <1>3, SameRepository DEF CycleExact
<1>5. CASE DocumentsValid(R)
  <2>1. PICK plan \in Activations :
          stage' = "selecting" /\ states' = plan /\ selected' = Chosen(R, plan) /\ queue' = Chosen(R, plan)
    BY <1>5 DEF EndValidation
  <2>2. RepositoryValid(R)
    BY <1>1, <1>3, <1>5, CircularInvalid
  <2>3. RefusedIfInvalid'
    BY <1>1, <2>1, <2>2, SameRepository DEF RefusedIfInvalid
  <2>4. Chosen(R, plan) \subseteq Selected(R, plan) /\ Chosen(R, plan) \subseteq Modules
    BY <1>1, <2>2, SelectionClosed, RepositoryTypes
  <2>5. SelectingInv'
    BY <1>1, <1>2, <2>1, <2>4, SameRepository DEF SelectingInv
  <2>6. TypeOK'
    BY <1>1, <2>1, <2>4 DEF TypeOK
  <2> QED
    BY <1>4, <2>1, <2>3, <2>5, <2>6 DEF IInv, ValidatingInv, OrderingInv
<1>6. CASE ~DocumentsValid(R)
  <2>1. stage' = "refused" /\ UNCHANGED <<states, selected, queue>>
    BY <1>6 DEF EndValidation
  <2>2. RefusedIfInvalid'
    BY <1>1, <1>6, <2>1, SameRepository DEF RefusedIfInvalid, RepositoryValid
  <2>3. TypeOK'
    BY <1>1, <2>1 DEF TypeOK
  <2> QED
    BY <1>4, <2>1, <2>2, <2>3 DEF IInv, ValidatingInv, SelectingInv, OrderingInv
<1> QED
  BY <1>5, <1>6

LEMMA AddDependenciesKeeps == IInv /\ AddDependencies => IInv'
<1> SUFFICES ASSUME IInv, AddDependencies PROVE IInv'
  OBVIOUS
<1>1. /\ TypeOK /\ bundle \in Bundles /\ stage = "selecting" /\ RepositoryValid(R)
      /\ UNCHANGED <<bundle, stage, states, todo, stack, rest, visiting, visited, cycle, order>>
  BY DEF IInv, TypeOK, AddDependencies, RefusedIfInvalid
<1>2. PICK m \in queue :
        /\ selected' = selected \cup R.documents[m].deps
        /\ queue' = (queue \ {m}) \cup (R.documents[m].deps \ selected)
  BY DEF AddDependencies
<1>3. /\ Chosen(R, states) \subseteq selected
      /\ selected \subseteq Selected(R, states) /\ queue \subseteq selected
      /\ \A n \in selected \ queue : R.documents[n].deps \subseteq selected
      /\ order = <<>>
  BY <1>1 DEF IInv, SelectingInv
<1>4. R.documents[m].deps \subseteq Selected(R, states) /\ R.documents[m].deps \subseteq Modules
  BY <1>1, <1>2, <1>3, SelectionClosed, RepositoryTypes
<1>5. SelectingInv'
  <2>1. R' = R /\ states' = states
    BY <1>1, SameRepository
  <2>2. \A n \in selected' \ queue' : R.documents[n].deps \subseteq selected'
    BY <1>2, <1>3
  <2> QED
    BY <1>1, <1>2, <1>3, <1>4, <2>1, <2>2 DEF SelectingInv
<1>6. TypeOK'
  BY <1>1, <1>2, <1>4 DEF TypeOK
<1>7. CycleExact' /\ RefusedIfInvalid'
  BY <1>1, VerdictsStay DEF IInv
<1> QED
  BY <1>1, <1>5, <1>6, <1>7 DEF IInv, ValidatingInv, OrderingInv

(* The queue is empty: what was added is closed, and no more than needed.  *)
LEMMA StartOrderingKeeps == IInv /\ StartOrdering => IInv'
<1> SUFFICES ASSUME IInv, StartOrdering PROVE IInv'
  OBVIOUS
<1>1. /\ TypeOK /\ bundle \in Bundles /\ stage = "selecting" /\ RepositoryValid(R) /\ queue = {}
      /\ stage' = "ordering" /\ todo' = selected /\ stack' = <<>> /\ rest' = SelectedGraph
      /\ visiting' = {} /\ visited' = {} /\ UNCHANGED <<bundle, states, cycle, selected, queue, order>>
  BY DEF IInv, TypeOK, StartOrdering, RefusedIfInvalid
<1>2. /\ Chosen(R, states) \subseteq selected
      /\ selected \subseteq Selected(R, states)
      /\ \A n \in selected : R.documents[n].deps \subseteq selected
      /\ order = <<>>
  BY <1>1 DEF IInv, SelectingInv
<1>3. selected = Selected(R, states)
  <2>1. selected \in SUBSET R.listed /\ ClosedUnder(R, selected)
    BY <1>1, <1>2, SelectionClosed DEF ClosedUnder
  <2> QED
    BY <1>2, <2>1, SelectionLeast
<1>4. R' = R /\ SelectedGraph' = SelectedGraph
  BY <1>1, SameRepository DEF SelectedGraph
<1>5. Len(stack') = 0 /\ Len(order') = 0
  BY <1>1, <1>2, EmptySeq
<1>6. SearchInv(SelectedGraph, selected)'
  <2>1. StackInv(SelectedGraph)'
    BY <1>1, <1>5 DEF StackInv
  <2>2. RestInv(SelectedGraph)'
    BY <1>1, <1>4, <1>5 DEF RestInv
  <2>3. RootInv(selected)' /\ NoCircle(SelectedGraph)'
    BY <1>1 DEF RootInv, NoCircle
  <2> QED
    BY <2>1, <2>2, <2>3 DEF SearchInv
<1>7. PlacedInv' /\ RootsLeast' /\ KeysInv'
  BY <1>1, <1>5 DEF PlacedInv, RootsLeast, KeysInv
<1>8. OrderingInv'
  BY <1>1, <1>3, <1>4, <1>6, <1>7 DEF OrderingInv
<1>9. TypeOK'
  <2>1. rest' \in [Modules -> SUBSET Modules] /\ stack' \in Seq(Modules)
    BY <1>1, RepositoryTypes, EmptySeq DEF SelectedGraph
  <2> QED
    BY <1>1, <2>1 DEF TypeOK
<1>10. CycleExact' /\ RefusedIfInvalid'
  BY <1>1, VerdictsStay DEF IInv
<1> QED
  BY <1>1, <1>8, <1>9, <1>10 DEF IInv, ValidatingInv, SelectingInv

(* What the ordering of modules rests on.                                  *)
LEMMA OrderingFacts ==
  ASSUME IInv, stage \in {"ordering", "routed"}
  PROVE  /\ TypeOK /\ SearchTypes /\ bundle \in Bundles /\ RepositoryValid(R)
         /\ SelectedGraph \in [Modules -> SUBSET Modules]
         /\ selected = Selected(R, states) /\ selected \subseteq R.listed /\ selected \subseteq Modules
         /\ \A m \in selected : R.documents[m].deps \subseteq selected /\ SelectedGraph[m] = R.documents[m].deps
         /\ SearchInv(SelectedGraph, selected)
         /\ todo \cup visited \cup visiting \subseteq selected
         /\ PlacedInv /\ RootsLeast /\ KeysInv
<1>1. /\ TypeOK /\ SearchTypes /\ bundle \in Bundles /\ RepositoryValid(R)
      /\ selected = Selected(R, states)
      /\ SearchInv(SelectedGraph, selected)
      /\ todo \cup visited \cup visiting \subseteq selected
      /\ PlacedInv /\ RootsLeast /\ KeysInv
  BY TypesOfSearch DEF IInv, TypeOK, RefusedIfInvalid, OrderingInv
<1>2. /\ selected \subseteq R.listed /\ selected \subseteq Modules
      /\ \A m \in selected : R.documents[m].deps \subseteq selected
  BY <1>1, SelectionClosed, RepositoryTypes
<1>3. SelectedGraph \in [Modules -> SUBSET Modules]
  BY <1>1, RepositoryTypes DEF SelectedGraph
<1>4. \A m \in selected : SelectedGraph[m] = R.documents[m].deps
  BY <1>2 DEF SelectedGraph
<1> QED
  BY <1>1, <1>2, <1>3, <1>4

(* No module in temporary is visited again.                                *)
LEMMA NeverRaises ==
  ASSUME IInv, stage = "ordering", NEW m \in Pending
  PROVE  m \notin visiting
<1> SUFFICES ASSUME m \in visiting PROVE FALSE
  OBVIOUS
<1>1. PICK G \in [Modules -> SUBSET Modules] : G = SelectedGraph
  BY OrderingFacts
<1>2. PICK roots : roots = selected
  OBVIOUS
<1>3. PICK c : c = CycleTo(m)
  OBVIOUS
<1>4. SearchTypes /\ SearchInv(G, roots)
  BY <1>1, <1>2, OrderingFacts
<1>5. /\ c \in Seq(Modules) /\ Len(c) > 1 /\ c[1] = c[Len(c)]
      /\ \A i \in 1..(Len(c) - 1) : c[i + 1] \in G[c[i]]
  BY <1>3, <1>4, CycleCloses
<1>6. PICK S \in SUBSET Modules : S # {} /\ \A n \in S : G[n] \cap S # {}
  BY <1>5, WalkCircular
<1> DEFINE T == S \cap selected
<1>7. T # {} /\ \A n \in T : R.documents[n].deps \cap T # {}
  <2>1. \A n \in S : G[n] \subseteq selected /\ G[n] \subseteq R.documents[n].deps
    BY <1>1 DEF SelectedGraph
  <2>2. PICK n \in S : TRUE
    BY <1>6
  <2>3. T # {}
    BY <2>1, <2>2, <1>6
  <2>4. ASSUME NEW k \in T PROVE R.documents[k].deps \cap T # {}
    BY <2>1, <1>6
  <2> QED
    BY <2>3, <2>4
<1>8. T \in (SUBSET R.listed) \ {{}}
  BY <1>7, OrderingFacts
<1>9. Acyclic(R)
  BY OrderingFacts DEF RepositoryValid
<1> QED
  BY <1>7, <1>8, <1>9 DEF Acyclic

LEMMA PlaceKeeps == IInv /\ Place => IInv'
<1> SUFFICES ASSUME IInv, Place PROVE IInv'
  OBVIOUS
<1>1. stage = "ordering" /\ UNCHANGED <<bundle, states, visited, cycle, selected, queue, order>>
  BY DEF Place
<1>2. PICK m \in Pending :
        /\ KeyFirst(m)
        /\ Take(m)
        /\ IF m \in visited \cup visiting THEN UNCHANGED <<visiting, stack>> ELSE Enter(m)
        /\ stage' = IF m \in visiting \ visited THEN "refused" ELSE "ordering"
  BY DEF Place
<1>3. m \notin visiting /\ stage' = "ordering"
  BY <1>1, <1>2, NeverRaises
<1>4. PICK G \in [Modules -> SUBSET Modules] : G = SelectedGraph
  BY <1>1, OrderingFacts
<1>5. PICK roots : roots = selected
  OBVIOUS
<1>6. SearchTypes /\ SearchInv(G, roots)
  BY <1>1, <1>4, <1>5, OrderingFacts
<1>7. R' = R /\ SelectedGraph' = SelectedGraph
  BY <1>1, SameRepository DEF SelectedGraph
<1>8. SearchTypes' /\ SearchInv(G, roots)'
  <2>1. CASE m \in visited
    BY <2>1, <1>1, <1>2, <1>6, SkipKeeps
  <2>2. CASE m \notin visited
    BY <2>2, <1>1, <1>2, <1>3, <1>6, EnterKeeps
  <2> QED
    BY <2>1, <2>2
<1>9. SearchInv(SelectedGraph, selected)'
  BY <1>1, <1>4, <1>5, <1>7, <1>8
<1>10. TypeOK'
  BY <1>1, <1>3, <1>8, OrderingFacts DEF TypeOK, SearchTypes
<1>11. CycleExact' /\ RefusedIfInvalid'
  BY <1>1, <1>3, VerdictsStay DEF IInv
<1>12. PlacedInv'
  BY <1>1, <1>7, OrderingFacts DEF PlacedInv
<1>13. KeysInv'
  BY <1>1, SameRepository, OrderingFacts DEF KeysInv, Overtakes
<1>14. m \in selected /\ m \in Modules /\ todo' \subseteq todo
  <2>1. CASE stack = <<>>
    BY <2>1, <1>1, <1>2, OrderingFacts DEF Pending, Take
  <2>2. CASE stack # <<>>
    <3>1. m \in G[Top] /\ Top \in Modules
      BY <2>2, <1>6, PendingBelow, TopOnStack DEF SearchInv
    <3> QED
      BY <3>1, <2>2, <1>1, <1>2, <1>4, OrderingFacts DEF SelectedGraph, Take
  <2> QED
    BY <2>1, <2>2
<1>15. (todo \cup visited \cup visiting)' \subseteq selected'
  BY <1>1, <1>2, <1>3, <1>14, OrderingFacts DEF Enter
<1>16. RootsLeast'
  <2>1. CASE m \in visited
    <3>1. stack' = stack
      BY <1>2, <2>1
    <3> QED
      BY <3>1, <1>1, <1>14, SameRepository, OrderingFacts DEF RootsLeast
  <2>2. CASE m \notin visited /\ stack = <<>>
    <3>1. stack' = Append(<<>>, m) /\ todo' \subseteq todo
      BY <1>2, <1>3, <1>14, <2>2 DEF Enter
    <3>2. Len(stack') = 1 /\ stack'[1] = m
      BY <3>1, <1>14
    <3>3. \A n \in todo : ~SortsBefore(n, m)
      BY <1>2, <2>2 DEF KeyFirst, Pending
    <3>4. m \in Under(m)
      BY <1>14, UnderSelf
    <3> QED
      BY <3>1, <3>2, <3>3, <3>4, <1>1, SameRepository DEF RootsLeast
  <2>3. CASE m \notin visited /\ stack # <<>>
    <3>1. /\ stack' = Append(stack, m) /\ stack \in Seq(Modules)
      BY <1>2, <1>3, <1>6, <2>3 DEF Enter, SearchTypes
    <3>2. /\ Len(stack) \in Nat /\ Len(stack) >= 1 /\ Len(stack') = Len(stack) + 1
          /\ \A i \in 1..Len(stack) : stack'[i] = stack[i]
          /\ stack'[Len(stack) + 1] = m
      BY <3>1, <2>3, <1>14, Pushed, Popped
    <3>3. Top \in Under(stack[1])
      <4>1. Len(stack) \in 1..Len(stack)
        BY <3>2
      <4> QED
        BY <4>1, <2>3, <1>1, OrderingFacts DEF RootsLeast, Top
    <3>4. m \in R.documents[Top].deps
      BY <2>3, <1>4, <1>6, PendingBelow, TopOnStack DEF SelectedGraph, SearchInv
    <3>5. m \in Under(stack[1])
      BY <3>3, <3>4, <1>1, OrderingFacts, UnderDeeper
    <3>6. stack'[1] = stack[1]
      BY <3>2
    <3>7. \A i \in 1..Len(stack') : stack'[i] \in Under(stack[1])
      <4> SUFFICES ASSUME NEW i \in 1..Len(stack') PROVE stack'[i] \in Under(stack[1])
        OBVIOUS
      <4>1. CASE i = Len(stack) + 1
        BY <4>1, <3>2, <3>5
      <4>2. CASE i \in 1..Len(stack)
        BY <4>2, <3>2, <2>3, <1>1, OrderingFacts DEF RootsLeast
      <4> QED
        BY <4>1, <4>2, <3>2
    <3>8. \A n \in todo' : ~SortsBefore(n, stack[1])
      BY <2>3, <1>1, <1>14, OrderingFacts DEF RootsLeast
    <3> QED
      BY <3>6, <3>7, <3>8, <1>1, SameRepository DEF RootsLeast
  <2> QED
    BY <2>1, <2>2, <2>3
<1>17. OrderingInv'
  BY <1>1, <1>7, <1>9, <1>12, <1>13, <1>15, <1>16, OrderingFacts DEF OrderingInv
<1> QED
  BY <1>3, <1>10, <1>11, <1>17 DEF IInv, ValidatingInv, SelectingInv

(* A module is placed when all it depends on is.                           *)
LEMMA LeaveOrdering ==
  ASSUME IInv, Leave, stage = "ordering"
  PROVE  IInv'
<1>1. /\ stack # <<>> /\ rest[Top] = {} /\ stack' = SubSeq(stack, 1, Len(stack) - 1)
      /\ visiting' = visiting \ {Top} /\ visited' = visited \cup {Top} /\ order' = Append(order, Top)
      /\ UNCHANGED <<bundle, stage, states, todo, rest, cycle, selected, queue>>
  BY DEF Leave
<1>2. PICK G \in [Modules -> SUBSET Modules] : G = SelectedGraph
  BY OrderingFacts
<1>3. PICK roots : roots = selected
  OBVIOUS
<1>4. SearchTypes /\ SearchInv(G, roots)
  BY <1>2, <1>3, OrderingFacts
<1>5. R' = R /\ SelectedGraph' = SelectedGraph
  BY <1>1, SameRepository DEF SelectedGraph
<1>6. SearchTypes' /\ SearchInv(G, roots)'
  BY <1>2, <1>4, LeaveKeeps
<1>7. SearchInv(SelectedGraph, selected)'
  BY <1>1, <1>2, <1>3, <1>5, <1>6
<1>8. /\ Len(stack) \in Nat /\ Len(stack) >= 1 /\ Len(stack') = Len(stack) - 1
      /\ \A i \in 1..(Len(stack) - 1) : stack'[i] = stack[i]
  BY <1>1, <1>4, Popped DEF SearchTypes
<1>9. Top \in visiting /\ Top \in Modules /\ Top = stack[Len(stack)] /\ stack[1] \in visiting /\ Top \notin visited
  BY <1>1, <1>4, TopOnStack DEF SearchInv, RestInv, Top
<1>10. /\ order' \in Seq(Modules) /\ Len(order) \in Nat /\ Len(order') = Len(order) + 1
       /\ \A i \in 1..Len(order) : order'[i] = order[i]
       /\ order'[Len(order) + 1] = Top
  BY <1>1, <1>9, OrderingFacts, Pushed, LenProperties DEF TypeOK
<1>11. Top \in selected /\ stack[1] \in selected
  BY <1>9, OrderingFacts
<1>12. PlacedInv'
  <2>1. R.documents[Top].deps \subseteq visited
    <3>1. Len(stack) \in 1..Len(stack)
      BY <1>8
    <3>2. G[Top] \subseteq visited
      BY <3>1, <1>1, <1>4, <1>9 DEF SearchInv, RestInv
    <3> QED
      BY <3>2, <1>2, <1>11, OrderingFacts
  <2>2. visited' = {order'[i] : i \in 1..Len(order')}
    BY <1>1, <1>10, OrderingFacts DEF PlacedInv
  <2>3. ASSUME NEW i \in 1..Len(order') , NEW j \in 1..Len(order'), order'[i] = order'[j] PROVE i = j
    <3>1. \A k \in 1..Len(order) : order'[k] # Top
      BY <1>9, <1>10, OrderingFacts DEF PlacedInv
    <3>2. CASE i \in 1..Len(order) /\ j \in 1..Len(order)
      BY <3>2, <2>3, <1>10, OrderingFacts DEF PlacedInv
    <3>3. CASE i = Len(order) + 1 \/ j = Len(order) + 1
      BY <3>1, <3>3, <2>3, <1>10
    <3> QED
      BY <3>2, <3>3, <1>10
  <2>4. ASSUME NEW j \in 1..Len(order'), NEW d \in R.documents[order'[j]].deps
        PROVE  \E i \in 1..(j - 1) : order'[i] = d
    <3>1. CASE j \in 1..Len(order)
      <4>1. PICK i \in 1..(j - 1) : order[i] = d
        BY <3>1, <1>10, OrderingFacts DEF PlacedInv
      <4>2. i \in 1..Len(order)
        BY <3>1, <1>10
      <4> QED
        BY <4>1, <4>2, <1>10
    <3>2. CASE j = Len(order) + 1
      <4>1. PICK i \in 1..Len(order) : order[i] = d
        BY <3>2, <2>1, <1>10, OrderingFacts DEF PlacedInv
      <4> QED
        BY <4>1, <3>2, <1>10
    <3> QED
      BY <3>1, <3>2, <1>10
  <2> QED
    BY <2>2, <2>3, <2>4, <1>5 DEF PlacedInv
<1>13. RootsLeast'
  <2> SUFFICES ASSUME stack' # <<>>
               PROVE  /\ \A i \in 1..Len(stack') : stack'[i] \in Under(stack'[1])
                      /\ \A n \in todo' : ~SortsBefore(n, stack'[1])
    BY <1>1, SameRepository DEF RootsLeast
  <2>1. Len(stack') >= 1
    BY <1>6, Popped DEF SearchTypes
  <2>2. stack'[1] = stack[1] /\ \A i \in 1..Len(stack') : stack'[i] = stack[i] /\ i \in 1..Len(stack)
    BY <2>1, <1>8
  <2> QED
    BY <2>2, <1>1, OrderingFacts DEF RootsLeast
<1>14. KeysInv'
  <2> SUFFICES ASSUME NEW i \in 1..Len(order')
               PROVE  \E k \in selected : /\ order'[i] \in Under(k)
                                           /\ \A m \in selected : (\A j \in 1..i : order'[j] # m) =>
                                                m = k \/ ~SortsBefore(m, k)
    BY <1>1, SameRepository DEF KeysInv, Overtakes
  <2>1. CASE i \in 1..Len(order)
    <3>1. PICK k \in selected : Overtakes(i, k)
      BY <2>1, OrderingFacts DEF KeysInv
    <3>2. \A j \in 1..i : order'[j] = order[j]
      BY <2>1, <1>10
    <3>3. order'[i] \in Under(k)
      BY <2>1, <3>1, <1>10 DEF Overtakes
    <3> QED
      BY <3>1, <3>2, <3>3 DEF Overtakes
  <2>2. CASE i = Len(order) + 1
    <3>1. order'[i] \in Under(stack[1])
      <4>1. Len(stack) \in 1..Len(stack)
        BY <1>8
      <4> QED
        BY <4>1, <2>2, <1>1, <1>9, <1>10, OrderingFacts DEF RootsLeast
    <3>2. ASSUME NEW m \in selected, \A j \in 1..i : order'[j] # m
          PROVE  m = stack[1] \/ ~SortsBefore(m, stack[1])
      <4>1. m \notin visited
        BY <2>2, <3>2, <1>10, OrderingFacts DEF PlacedInv
      <4>2. m \in todo \/ m = stack[1]
        BY <4>1, <1>3, <1>4 DEF SearchInv, RootInv
      <4> QED
        BY <4>2, <1>1, OrderingFacts DEF RootsLeast
    <3> QED
      BY <3>1, <3>2, <1>11
  <2> QED
    BY <2>1, <2>2, <1>10
<1>15. TypeOK'
  BY <1>1, <1>6, <1>10, OrderingFacts DEF TypeOK, SearchTypes
<1>16. CycleExact' /\ RefusedIfInvalid'
  BY <1>1, VerdictsStay DEF IInv
<1>17. (todo \cup visited \cup visiting)' \subseteq selected'
  BY <1>1, <1>11, OrderingFacts
<1>18. OrderingInv'
  BY <1>1, <1>5, <1>7, <1>12, <1>13, <1>14, <1>17, OrderingFacts DEF OrderingInv
<1> QED
  BY <1>1, <1>15, <1>16, <1>18 DEF IInv, ValidatingInv, SelectingInv

LEMMA EndOrderingKeeps == IInv /\ EndOrdering => IInv'
<1> SUFFICES ASSUME IInv, EndOrdering PROVE IInv'
  OBVIOUS
<1>1. /\ stage = "ordering" /\ SearchedAll /\ stage' = "routed"
      /\ UNCHANGED <<bundle, states, todo, stack, rest, visiting, visited, cycle, selected, queue, order>>
  BY DEF EndOrdering
<1>2. R' = R /\ SelectedGraph' = SelectedGraph
  BY <1>1, SameRepository DEF SelectedGraph
<1>3. SearchInv(SelectedGraph, selected)'
  BY <1>1, <1>2, OrderingFacts DEF SearchInv, StackInv, RestInv, RootInv, NoCircle
<1>4. PlacedInv' /\ RootsLeast' /\ KeysInv'
  <2>1. PlacedInv'
    BY <1>1, <1>2, OrderingFacts DEF PlacedInv
  <2>2. RootsLeast'
    BY <1>1, SameRepository, OrderingFacts DEF RootsLeast
  <2>3. KeysInv'
    BY <1>1, SameRepository, OrderingFacts DEF KeysInv, Overtakes
  <2> QED
    BY <2>1, <2>2, <2>3
<1>5. OrderingInv'
  BY <1>1, <1>2, <1>3, <1>4, OrderingFacts DEF OrderingInv
<1>6. TypeOK'
  BY <1>1, OrderingFacts DEF TypeOK
<1>7. CycleExact' /\ RefusedIfInvalid'
  BY <1>1, VerdictsStay DEF IInv
<1>8. SearchedAll'
  BY <1>1 DEF SearchedAll
<1> QED
  BY <1>1, <1>5, <1>6, <1>7, <1>8 DEF IInv, ValidatingInv, SelectingInv

LEMMA StutterKeeps == IInv /\ UNCHANGED vars => IInv'
<1> SUFFICES ASSUME IInv, UNCHANGED vars PROVE IInv'
  OBVIOUS
<1>1. bundle' = bundle /\ UNCHANGED <<stage, states, todo, stack, rest, visiting, visited, cycle, selected, queue, order>>
  BY DEF vars
<1>2. R' = R /\ Graph' = Graph /\ Loaded' = Loaded /\ SelectedGraph' = SelectedGraph
  BY <1>1, SameRepository DEF SelectedGraph
<1>3. \A G, roots : SearchInv(G, roots)' <=> SearchInv(G, roots)
  BY <1>1 DEF SearchInv, StackInv, RestInv, RootInv, NoCircle
<1>4. PlacedInv' <=> PlacedInv
  BY <1>1, <1>2 DEF PlacedInv
<1>5. (RootsLeast' <=> RootsLeast) /\ (KeysInv' <=> KeysInv)
  BY <1>1, SameRepository DEF RootsLeast, KeysInv, Overtakes
<1>6. TypeOK' /\ CycleExact' /\ RefusedIfInvalid'
  BY <1>1, SameRepository DEF IInv, TypeOK, CycleExact, RefusedIfInvalid
<1>7. ValidatingInv' /\ SelectingInv' /\ OrderingInv'
  BY <1>1, <1>2, <1>3, <1>4, <1>5 DEF IInv, ValidatingInv, SelectingInv, OrderingInv
<1>8. stage' = "routed" => SearchedAll'
  BY <1>1 DEF IInv, SearchedAll
<1> QED
  BY <1>6, <1>7, <1>8 DEF IInv

LEMMA NextIInv == IInv /\ [Next]_vars => IInv'
<1> SUFFICES ASSUME IInv, [Next]_vars PROVE IInv'
  OBVIOUS
<1>1. CASE Visit
  BY <1>1, VisitKeeps
<1>2. CASE Leave
  BY <1>2, LeaveValidating, LeaveOrdering DEF Leave
<1>3. CASE EndValidation
  BY <1>3, EndValidationKeeps
<1>4. CASE AddDependencies
  BY <1>4, AddDependenciesKeeps
<1>5. CASE StartOrdering
  BY <1>5, StartOrderingKeeps
<1>6. CASE Place
  BY <1>6, PlaceKeeps
<1>7. CASE EndOrdering
  BY <1>7, EndOrderingKeeps
<1>8. CASE UNCHANGED vars
  BY <1>8, StutterKeeps
<1> QED
  BY <1>1, <1>2, <1>3, <1>4, <1>5, <1>6, <1>7, <1>8 DEF Next

(* The invariant holds of every routing.                                   *)
THEOREM IInvHolds == Spec => []IInv
<1> QED
  BY InitIInv, NextIInv, PTL DEF Spec

-----------------------------------------------------------------------------
(* What routing computes.                                                  *)

(* Variables have their types.                                             *)
THEOREM TypeCorrect == Spec => []TypeOK
<1>1. IInv => TypeOK
  BY DEF IInv
<1> QED
  BY <1>1, IInvHolds, PTL

(* _find_cycle finds a cycle exactly if there is one, and what it returns  *)
(* is a closed walk along dependencies.                                    *)
THEOREM CycleAlwaysExact == Spec => []CycleExact
<1>1. IInv => CycleExact
  BY DEF IInv
<1> QED
  BY <1>1, IInvHolds, PTL

(* Routing refuses exactly the repositories that are not valid; the search *)
(* for an order never raises.                                              *)
THEOREM RefusedExactly == Spec => []RefusedIfInvalid
<1>1. IInv => RefusedIfInvalid
  BY DEF IInv
<1> QED
  BY <1>1, IInvHolds, PTL

(* The queue that adds dependencies ends with what ModuleRouter calls      *)
(* Selected: the least closed set of modules with the chosen ones.         *)
THEOREM SelectedAlwaysExact == Spec => []SelectedExact
<1>1. IInv => SelectedExact
  BY DEF IInv, OrderingInv, SelectedExact
<1> QED
  BY <1>1, IInvHolds, PTL

LEMMA OrderedIfPlaced == IInv => OrderExact
<1> SUFFICES ASSUME IInv, stage = "routed" PROVE OrderExact
  BY DEF OrderExact
<1>1. visited = selected
  <2>1. SearchedAll /\ SearchInv(SelectedGraph, selected)
    BY OrderingFacts DEF IInv
  <2> QED
    BY <2>1, SearchedNoCircle, OrderingFacts
<1>2. DOMAIN order = 1..Len(order) /\ Len(order) \in Nat
  BY OrderingFacts, LenProperties DEF TypeOK
<1>3. {order[i] : i \in DOMAIN order} = selected
  BY <1>1, <1>2, OrderingFacts DEF PlacedInv
<1>4. ASSUME NEW i \in DOMAIN order, NEW j \in DOMAIN order
      PROVE  /\ order[i] = order[j] => i = j
             /\ order[i] \in R.documents[order[j]].deps => i < j
             /\ SortsBefore(order[j], order[i]) /\ i < j =>
                  \E k \in selected : order[i] \in Under(k) /\ (k = order[j] \/ ~SortsBefore(order[j], k))
  <2>1. order[i] = order[j] => i = j
    BY <1>2, OrderingFacts DEF PlacedInv
  <2>2. ASSUME order[i] \in R.documents[order[j]].deps PROVE i < j
    <3>1. PICK h \in 1..(j - 1) : order[h] = order[i]
      BY <2>2, <1>2, OrderingFacts DEF PlacedInv
    <3>2. h \in 1..Len(order) /\ h < j
      BY <1>2
    <3>3. h = i
      BY <3>1, <3>2, <1>2, OrderingFacts DEF PlacedInv
    <3> QED
      BY <3>2, <3>3
  <2>3. ASSUME i < j
        PROVE  \E k \in selected : order[i] \in Under(k) /\ (k = order[j] \/ ~SortsBefore(order[j], k))
    <3>1. PICK k \in selected : Overtakes(i, k)
      BY <1>2, OrderingFacts DEF KeysInv
    <3>2. order[j] \in selected
      BY <1>3
    <3>3. \A h \in 1..i : order[h] # order[j]
      <4> SUFFICES ASSUME NEW h \in 1..i, order[h] = order[j] PROVE FALSE
        OBVIOUS
      <4>1. h \in 1..Len(order) /\ h # j
        BY <1>2, <2>3
      <4> QED
        BY <4>1, <1>2, OrderingFacts DEF PlacedInv
    <3> QED
      BY <3>1, <3>2, <3>3 DEF Overtakes
  <2> QED
    BY <2>1, <2>2, <2>3
<1>5. selected = Selected(R, states)
  BY DEF IInv, OrderingInv
<1> QED
  BY <1>3, <1>4, <1>5 DEF OrderExact

(* _topological_order returns each selected module once and after what it  *)
(* depends on, and otherwise keeps to phase, priority and id.              *)
THEOREM OrderAlwaysExact == Spec => []OrderExact
<1> QED
  BY OrderedIfPlaced, IInvHolds, PTL

-----------------------------------------------------------------------------
(* That routing nears its end.                                             *)

(* What a loop takes from what it has to visit is gone from there.         *)
LEMMA TakeShrinks ==
  ASSUME NEW G, NEW roots, NEW m \in Pending, SearchTypes, StackInv(G), Take(m),
         UNCHANGED <<visited, selected, queue>>
  PROVE  Shrinks
<1>1. /\ stack = <<>> => todo' = todo \ {m} /\ rest' = rest
      /\ stack # <<>> => todo' = todo /\ rest'[Top] = rest[Top] \ {m}
      /\ \A n \in Modules : (stack = <<>> \/ n # Top) => rest'[n] = rest[n]
  BY TakeRest
<1>2. \A n \in Modules : rest'[n] \subseteq rest[n]
  BY <1>1
<1>3. todo' # todo \/ rest' # rest
  BY <1>1 DEF Pending
<1>4. todo' \subseteq todo
  BY <1>1
<1> QED
  BY <1>2, <1>3, <1>4 DEF Shrinks

(* A module is left once, as what is on the stack was not left before.     *)
LEMMA LeaveShrinks ==
  ASSUME NEW G, NEW roots, SearchTypes, SearchInv(G, roots), Leave
  PROVE  Shrinks
<1>1. Top \in visiting
  BY TopOnStack DEF SearchInv, Leave
<1>2. Top \notin visited
  BY <1>1 DEF SearchInv, RestInv
<1> QED
  BY <1>2 DEF Leave, Shrinks

(* A module leaves the queue once, as only new ones are put into it.       *)
LEMMA AddDependenciesShrinks ==
  ASSUME IInv, AddDependencies
  PROVE  Shrinks
<1>1. PICK m \in queue :
        /\ selected' = selected \cup R.documents[m].deps
        /\ queue' = (queue \ {m}) \cup (R.documents[m].deps \ selected)
  BY DEF AddDependencies
<1>2. queue \subseteq selected
  BY DEF IInv, SelectingInv, AddDependencies
<1>3. m \in selected' \ queue' /\ m \notin selected \ queue
  BY <1>1, <1>2
<1>4. selected \ queue \subseteq selected' \ queue'
  BY <1>1
<1>5. selected' \ queue' # selected \ queue
  BY <1>3
<1> QED
  BY <1>4, <1>5 DEF AddDependencies, Shrinks

(* Every routing nears its end with each step, for every repository: with  *)
(* finitely many modules, a cycle of dependencies never keeps visit going. *)
THEOREM RoutingNearsEnd == Spec => NearsEnd
<1> DEFINE Nears ==
      \/ stage' = stage /\ Shrinks
      \/ stage = "validating" /\ stage' \in {"refused", "selecting"}
      \/ stage = "selecting" /\ stage' = "ordering"
      \/ stage = "ordering" /\ stage' = "routed"
<1>1. ASSUME IInv, Next PROVE Nears
  <2>0. SearchTypes
    BY <1>1, TypesOfSearch DEF IInv
  <2>1. CASE Visit
    <3>1. StackInv(Graph)
      BY <1>1, <2>1 DEF IInv, ValidatingInv, SearchInv, Visit
    <3>2. PICK m \in Pending :
            /\ Take(m)
            /\ stage' \in {stage, "refused"}
      BY <2>1 DEF Visit
    <3>3. Shrinks
      BY <2>0, <2>1, <3>1, <3>2, TakeShrinks DEF Visit
    <3> QED
      BY <2>1, <3>2, <3>3 DEF Visit
  <2>2. CASE Leave
    <3>1. CASE stage = "validating"
      BY <1>1, <2>0, <2>2, <3>1, LeaveShrinks DEF IInv, ValidatingInv, Leave
    <3>2. CASE stage = "ordering"
      BY <1>1, <2>0, <2>2, <3>2, LeaveShrinks DEF IInv, OrderingInv, Leave
    <3> QED
      BY <2>2, <3>1, <3>2 DEF Leave
  <2>3. CASE EndValidation
    BY <2>3 DEF EndValidation
  <2>4. CASE AddDependencies
    BY <1>1, <2>4, AddDependenciesShrinks DEF AddDependencies
  <2>5. CASE StartOrdering
    BY <2>5 DEF StartOrdering
  <2>6. CASE Place
    <3>1. StackInv(SelectedGraph)
      BY <1>1, <2>6 DEF IInv, OrderingInv, SearchInv, Place
    <3>2. PICK m \in Pending :
            /\ Take(m)
            /\ stage' = IF m \in visiting \ visited THEN "refused" ELSE "ordering"
      BY <2>6 DEF Place
    <3>3. stage = "ordering" /\ stage' = "ordering"
      BY <1>1, <2>6, <3>2, NeverRaises DEF Place
    <3>4. Shrinks
      BY <2>0, <2>6, <3>1, <3>2, TakeShrinks DEF Place
    <3> QED
      BY <3>3, <3>4
  <2>7. CASE EndOrdering
    BY <2>7 DEF EndOrdering
  <2> QED
    BY <1>1, <2>1, <2>2, <2>3, <2>4, <2>5, <2>6, <2>7 DEF Next
<1>2. IInv /\ [Next]_vars => [Nears]_vars
  BY <1>1
<1> QED
  BY <1>2, IInvHolds, PTL DEF Spec, NearsEnd
=============================================================================
