------------------------ MODULE ServiceDirectoryProofs ------------------------
(***************************************************************************)
(* What ServiceDirectory's runs check on small instances, proved for every *)
(* set of threads, list of services and list of nodes: the types of its    *)
(* variables, that the read-write lock excludes, that a refresh without an *)
(* error leaves the directory current, and that once every service has an  *)
(* entry no thread races for a map, calls a missing selector, or rotates   *)
(* over a list that is not the saved one, and the directory implements     *)
(* FairRotation.                                                           *)
(***************************************************************************)
EXTENDS ServiceDirectory, SequenceTheorems, DataInduction, TLAPS

-----------------------------------------------------------------------------
(* The lists.                                                               *)

\* The recursion of a list is defined at every place of NodeList.
LEMMA ListedSteps ==
  ASSUME NEW m
  PROVE  \E upto :
           /\ Listed(m) = upto[Len(NodeList)] /\ upto[0] = <<>>
           /\ \A k \in Nat : k + 1 <= Len(NodeList) =>
                upto[k + 1] = IF NodeList[k + 1] \in m THEN Append(upto[k], NodeList[k + 1])
                              ELSE upto[k]
<1> DEFINE n == Len(NodeList)
           F(g) == [i \in 0..n |-> IF i = 0 THEN <<>>
                      ELSE IF NodeList[i] \in m THEN Append(g[i - 1], NodeList[i]) ELSE g[i - 1]]
<1>0. n \in Nat /\ \A i \in 1..n : NodeList[i] \in Nodes
  BY DirectoryAssumption
<1> DEFINE Follows(g, k) ==
       /\ g \in [0..k -> Seq(Nodes)] /\ g[0] = <<>>
       /\ \A i \in 1..k : g[i] = IF NodeList[i] \in m THEN Append(g[i - 1], NodeList[i]) ELSE g[i - 1]
     Made == {k \in Nat : k <= n => \E g : Follows(g, k)}
<1>1. 0 \in Made
  <2>1. Follows([i \in 0..0 |-> <<>>], 0)
    OBVIOUS
  <2> QED
    BY <2>1
<1>2. ASSUME NEW k \in Nat, k \in Made PROVE k + 1 \in Made
  <2> SUFFICES ASSUME k + 1 <= n PROVE \E g : Follows(g, k + 1)
    OBVIOUS
  <2>1. PICK g : Follows(g, k)
    BY <1>0, <1>2
  <2> DEFINE last == IF NodeList[k + 1] \in m THEN Append(g[k], NodeList[k + 1]) ELSE g[k]
             h == [i \in 0..(k + 1) |-> IF i = k + 1 THEN last ELSE g[i]]
  <2>2. last \in Seq(Nodes)
    BY <1>0, <2>1
  <2> HIDE DEF last
  <2>3. h \in [0..(k + 1) -> Seq(Nodes)] /\ h[0] = <<>>
    BY <2>1, <2>2
  <2>4. ASSUME NEW i \in 1..(k + 1)
        PROVE  h[i] = IF NodeList[i] \in m THEN Append(h[i - 1], NodeList[i]) ELSE h[i - 1]
    <3>1. h[i - 1] = g[i - 1]
      OBVIOUS
    <3>2. CASE i = k + 1
      BY <3>1, <3>2 DEF last
    <3>3. CASE i # k + 1
      BY <2>1, <3>1, <3>3
    <3> QED
      BY <3>2, <3>3
  <2>5. Follows(h, k + 1)
    BY <2>3, <2>4
  <2> QED
    BY <2>5
<1> HIDE DEF Made
<1>3. n \in Made
  BY <1>0, <1>1, <1>2, Induction
<1>4. PICK g : Follows(g, n)
  BY <1>0, <1>3 DEF Made
<1>5. g = F(g)
  <2>1. g = [i \in 0..n |-> g[i]]
    BY <1>4
  <2>2. ASSUME NEW i \in 0..n
        PROVE  g[i] = IF i = 0 THEN <<>>
                      ELSE IF NodeList[i] \in m THEN Append(g[i - 1], NodeList[i]) ELSE g[i - 1]
    <3>1. CASE i = 0
      BY <1>4, <3>1
    <3>2. CASE i # 0
      <4>1. i \in 1..n
        BY <1>0, <3>2
      <4> HIDE DEF n
      <4> QED
        BY <1>4, <3>2, <4>1
    <3> QED
      BY <3>1, <3>2
  <2> HIDE DEF n
  <2>3. F(g) = [i \in 0..n |-> g[i]]
    BY <2>2
  <2> QED
    BY <2>1, <2>3
<1> DEFINE upto == CHOOSE f : f = F(f)
<1>6. upto = F(upto)
  BY <1>5
<1>7. Listed(m) = upto[n]
  BY DEF Listed
<1> HIDE DEF upto
<1>8. upto[0] = <<>>
  BY <1>0, <1>6
<1>9. ASSUME NEW k \in Nat, k + 1 <= n
      PROVE  upto[k + 1] = IF NodeList[k + 1] \in m THEN Append(upto[k], NodeList[k + 1])
                           ELSE upto[k]
  <2> HIDE DEF n
  <2>1. F(upto)[k + 1] = IF NodeList[k + 1] \in m THEN Append(upto[k], NodeList[k + 1]) ELSE upto[k]
    BY <1>0, <1>9
  <2> HIDE DEF F
  <2>2. upto[k + 1] = F(upto)[k + 1]
    BY <1>6
  <2> QED
    BY <2>1, <2>2
<1> QED
  BY <1>7, <1>8, <1>9

\* A list is one of nodes.
LEMMA ListedIsSeq == ASSUME NEW m PROVE Listed(m) \in Seq(Nodes)
<1> DEFINE n == Len(NodeList)
<1>0. n \in Nat /\ \A i \in 1..n : NodeList[i] \in Nodes
  BY DirectoryAssumption
<1>1. PICK upto :
        /\ Listed(m) = upto[n] /\ upto[0] = <<>>
        /\ \A k \in Nat : k + 1 <= n =>
             upto[k + 1] = IF NodeList[k + 1] \in m THEN Append(upto[k], NodeList[k + 1])
                           ELSE upto[k]
  BY ListedSteps
<1> DEFINE Typed == {k \in Nat : k <= n => upto[k] \in Seq(Nodes)}
<1> HIDE DEF n
<1>2. 0 \in Typed
  <2>1. upto[0] \in Seq(Nodes)
    BY <1>1, EmptySeq
  <2> QED
    BY <2>1
<1>3. ASSUME NEW k \in Nat, k \in Typed PROVE k + 1 \in Typed
  <2> SUFFICES ASSUME k + 1 <= n PROVE upto[k + 1] \in Seq(Nodes)
    OBVIOUS
  <2>1. upto[k] \in Seq(Nodes) /\ NodeList[k + 1] \in Nodes
    BY <1>0, <1>3
  <2>2. upto[k + 1] = IF NodeList[k + 1] \in m THEN Append(upto[k], NodeList[k + 1]) ELSE upto[k]
    BY <1>1
  <2>3. Append(upto[k], NodeList[k + 1]) \in Seq(Nodes)
    BY <2>1, AppendProperties
  <2> QED
    BY <2>1, <2>2, <2>3
<1> HIDE DEF Typed
<1>4. n \in Typed
  BY <1>0, <1>2, <1>3, Induction
<1> QED
  BY <1>0, <1>1, <1>4 DEF Typed

\* The list of a set of nodes has each of them once, and no other.
LEMMA ListedIsTheSet ==
  ASSUME NEW m \in SUBSET Nodes
  PROVE  /\ {Listed(m)[i] : i \in DOMAIN Listed(m)} = m
         /\ \A i, j \in DOMAIN Listed(m) : Listed(m)[i] = Listed(m)[j] => i = j
<1> DEFINE n == Len(NodeList)
<1>0. /\ n \in Nat /\ DOMAIN NodeList = 1..n
      /\ \A i \in 1..n : NodeList[i] \in Nodes
      /\ \A i, j \in 1..n : NodeList[i] = NodeList[j] => i = j
  BY DirectoryAssumption
<1>1. PICK upto :
        /\ Listed(m) = upto[n] /\ upto[0] = <<>>
        /\ \A k \in Nat : k + 1 <= n =>
             upto[k + 1] = IF NodeList[k + 1] \in m THEN Append(upto[k], NodeList[k + 1])
                           ELSE upto[k]
  BY ListedSteps
<1> DEFINE Exact(k) ==
             /\ upto[k] \in Seq(Nodes)
             /\ \A i \in 1..Len(upto[k]) : upto[k][i] \in m /\ \E j \in 1..k : upto[k][i] = NodeList[j]
             /\ \A j \in 1..k : NodeList[j] \in m => \E i \in 1..Len(upto[k]) : upto[k][i] = NodeList[j]
             /\ \A i, j \in 1..Len(upto[k]) : upto[k][i] = upto[k][j] => i = j
           Made == {k \in Nat : k <= n => Exact(k)}
<1> HIDE DEF n
<1>2. 0 \in Made
  <2>1. upto[0] \in Seq(Nodes) /\ Len(upto[0]) = 0
    BY <1>1, EmptySeq
  <2>2. Exact(0)
    BY <2>1
  <2> QED
    BY <2>2
<1>3. ASSUME NEW k \in Nat, k \in Made PROVE k + 1 \in Made
  <2> SUFFICES ASSUME k + 1 <= n PROVE Exact(k + 1)
    OBVIOUS
  <2>1. Exact(k) /\ k + 1 \in 1..n /\ NodeList[k + 1] \in Nodes
    BY <1>0, <1>3
  <2>2. CASE NodeList[k + 1] \notin m
    <3>1. upto[k + 1] = upto[k]
      BY <1>1, <2>2
    <3> QED
      BY <2>1, <2>2, <3>1
  <2>3. CASE NodeList[k + 1] \in m
    <3> DEFINE old == upto[k]
               new == upto[k + 1]
    <3>1. new = Append(old, NodeList[k + 1])
      BY <1>1, <2>3
    <3>2. old \in Seq(Nodes)
      BY <2>1
    <3> HIDE DEF old, new
    <3>3. /\ new \in Seq(Nodes) /\ Len(new) = Len(old) + 1 /\ Len(old) \in Nat
          /\ \A i \in 1..Len(old) : new[i] = old[i]
          /\ new[Len(old) + 1] = NodeList[k + 1]
      BY <2>1, <3>1, <3>2, AppendProperties
    <3>4. \A i \in 1..Len(old) : old[i] # NodeList[k + 1]
      <4> SUFFICES ASSUME NEW i \in 1..Len(old), old[i] = NodeList[k + 1] PROVE FALSE
        OBVIOUS
      <4>1. PICK j \in 1..k : old[i] = NodeList[j]
        BY <2>1 DEF old
      <4>2. j \in 1..n /\ j # k + 1
        BY <1>0, <2>1
      <4> QED
        BY <1>0, <2>1, <4>1, <4>2
    <3>5. ASSUME NEW i \in 1..Len(new)
          PROVE  new[i] \in m /\ \E j \in 1..(k + 1) : new[i] = NodeList[j]
      <4>1. CASE i \in 1..Len(old)
        BY <2>1, <3>3, <4>1 DEF old
      <4>2. CASE i = Len(old) + 1
        BY <2>3, <3>3, <4>2
      <4> QED
        BY <3>3, <4>1, <4>2
    <3>6. ASSUME NEW j \in 1..(k + 1), NodeList[j] \in m
          PROVE  \E i \in 1..Len(new) : new[i] = NodeList[j]
      <4>1. CASE j \in 1..k
        <5>1. PICK i \in 1..Len(old) : old[i] = NodeList[j]
          BY <2>1, <3>6, <4>1 DEF old
        <5> QED
          BY <3>3, <5>1
      <4>2. CASE j = k + 1
        BY <3>3, <4>2
      <4> QED
        BY <4>1, <4>2
    <3>7. ASSUME NEW i \in 1..Len(new), NEW j \in 1..Len(new), new[i] = new[j] PROVE i = j
      <4>1. \A a, b \in 1..Len(old) : old[a] = old[b] => a = b
        BY <2>1 DEF old
      <4>2. i \in 1..Len(old) \/ i = Len(old) + 1
        BY <3>3
      <4>3. j \in 1..Len(old) \/ j = Len(old) + 1
        BY <3>3
      <4> QED
        BY <3>3, <3>4, <3>7, <4>1, <4>2, <4>3
    <3> QED
      BY <3>3, <3>5, <3>6, <3>7 DEF new
  <2> QED
    BY <2>2, <2>3
<1> HIDE DEF Made
<1>4. n \in Made
  BY <1>0, <1>2, <1>3, Induction
<1> DEFINE l == Listed(m)
<1>5. /\ l \in Seq(Nodes)
      /\ \A i \in 1..Len(l) : l[i] \in m
      /\ \A j \in 1..n : NodeList[j] \in m => \E i \in 1..Len(l) : l[i] = NodeList[j]
      /\ \A i, j \in 1..Len(l) : l[i] = l[j] => i = j
  BY <1>0, <1>1, <1>4 DEF Made
<1> HIDE DEF l
<1>6. DOMAIN l = 1..Len(l)
  BY <1>5
<1>7. \A x \in m : \E i \in 1..Len(l) : l[i] = x
  BY <1>0, <1>5 DEF Nodes
<1> QED
  BY <1>5, <1>6, <1>7 DEF l

-----------------------------------------------------------------------------
(* The types.                                                               *)

\* What a map of selectors holds: a position in a list that is not empty.
IsSelector(sel) ==
  /\ sel \in [list : Seq(Nodes), first : Nat, pos : Nat]
  /\ sel.list # <<>> => {sel.first, sel.pos} \subseteq DOMAIN sel.list

\* A new selector is one over its list, wherever it starts.
LEMMA SelectorsTyped ==
  ASSUME NEW list \in Seq(Nodes), NEW sel \in Selectors(list)
  PROVE  IsSelector(sel) /\ sel.list = list
<1>1. PICK i \in IF list = <<>> THEN {1} ELSE DOMAIN list :
        sel = [list |-> list, first |-> i, pos |-> i]
  BY DEF Selectors
<1> QED
  BY <1>1 DEF IsSelector

\* An advanced selector stays within its list.
LEMMA AdvanceTyped ==
  ASSUME NEW sel, IsSelector(sel), sel.list # <<>>
  PROVE  IsSelector(Advance(sel)) /\ Advance(sel).list = sel.list
<1>1. PICK list \in Seq(Nodes), first \in Nat, pos \in Nat :
        sel = [list |-> list, first |-> first, pos |-> pos]
  BY DEF IsSelector
<1>2. DOMAIN list = 1..Len(list) /\ Len(list) \in Nat \ {0} /\ first \in 1..Len(list)
  BY <1>1 DEF IsSelector
<1>3. (pos % Len(list)) + 1 \in 1..Len(list)
  BY <1>2
<1>4. Advance(sel) = [list |-> list, first |-> first, pos |-> (pos % Len(list)) + 1]
  BY <1>1 DEF Advance
<1> QED
  BY <1>1, <1>2, <1>3, <1>4 DEF IsSelector

\* A refresh has a service to go on with, which has an entry by the time its
\* selector is made.
Going(t) ==
  /\ pc[t] \in {"lock", "drain", "checks", "services", "nodes", "next"} => queue[t] # <<>>
  /\ pc[t] = "next" => Head(queue[t]) \in DOMAIN nodes

TypeInv ==
  /\ TypeOK
  /\ \A s \in DOMAIN next : IsSelector(next[s])
  /\ \A t \in Threads : Going(t)

\* At the start nothing is saved and nobody refreshes.
LEMMA TypeInit == Init => TypeInv
BY DirectoryAssumption DEF Init, InitThreads, EmptyMap, TypeInv, TypeOK, Labels, Going

\* Every step keeps the types, a crash included.
LEMMA TypeStep == TypeInv /\ [Next]_vars => TypeInv'
<1> SUFFICES ASSUME TypeInv, [Next]_vars PROVE TypeInv'
  OBVIOUS
<1> USE DEF TypeInv, TypeOK, Going, Labels, lockVars, localVars
<1>1. ASSUME NEW t \in Threads, Calls(t) PROVE TypeInv'
  <2>1. CASE ChangeAllServiceNodes(t)
    <3>1. ServiceList \in Seq(Services) /\ ServiceList # <<>>
      BY DirectoryAssumption
    <3> QED
      BY <2>1, <3>1 DEF ChangeAllServiceNodes, Goto, Answer
  <2>2. ASSUME NEW s \in Names, GetNextServiceNode(t, s) PROVE TypeInv'
    BY <2>2 DEF GetNextServiceNode, Goto, Answer
  <2> QED
    BY <1>1, <2>1, <2>2 DEF Calls
<1>2. ASSUME NEW t \in Threads, Lock(t) \/ Drained(t) \/ RLock(t) PROVE TypeInv'
  <2>1. CASE Lock(t)
    BY <2>1 DEF Lock, Goto
  <2>2. CASE Drained(t)
    BY <2>2 DEF Drained, Goto
  <2>3. CASE RLock(t)
    BY <2>3 DEF RLock, Goto
  <2> QED
    BY <1>2, <2>1, <2>2, <2>3
<1>3. ASSUME NEW t \in Threads, QueryChecks(t) PROVE TypeInv'
  <2>1. Passing(Head(queue[t])) \in Seq(Nodes)
    BY ListedIsSeq DEF Passing
  <2> QED
    BY <1>3, <2>1 DEF QueryChecks, Goto
<1>4. ASSUME NEW t \in Threads, QueryService(t) PROVE TypeInv'
  <2>1. Head(todo[t]) \in Nodes /\ Tail(todo[t]) \in Seq(Nodes)
        /\ Append(found[t], Head(todo[t])) \in Seq(Nodes)
    BY <1>4 DEF QueryService
  <2> QED
    BY <1>4, <2>1 DEF QueryService
<1>5. ASSUME NEW t \in Threads, queue[t] # <<>>, NEW err \in BOOLEAN, ServiceDone(t, err)
      PROVE  /\ queue' \in [Threads -> Seq(Services)]
             /\ failed' \in [Threads -> BOOLEAN]
             /\ pc' \in [Threads -> Labels]
             /\ pc'[t] \in {"return", "checks"}
             /\ pc'[t] # "return" => queue'[t] # <<>>
             /\ \A u \in Threads : u # t => pc'[u] = pc[u] /\ queue'[u] = queue[u]
  <2>1. Tail(queue[t]) \in Seq(Services)
    BY <1>5
  <2>2. queue' \in [Threads -> Seq(Services)] /\ pc' \in [Threads -> Labels]
    BY <1>5, <2>1 DEF ServiceDone, Goto
  <2>3. failed' \in [Threads -> BOOLEAN]
    BY <1>5 DEF ServiceDone
  <2> QED
    BY <1>5, <2>1, <2>2, <2>3 DEF ServiceDone, Goto
<1>6. ASSUME NEW t \in Threads, QueryFails(t) \/ KeepNodes(t) PROVE TypeInv'
  <2>1. PICK err \in BOOLEAN : ServiceDone(t, err)
    BY <1>6 DEF QueryFails, KeepNodes
  <2>2. UNCHANGED <<check, nodes, next, writer, readers, svc, todo, found, reply, quiet>>
        /\ queue[t] # <<>>
    BY <1>6 DEF QueryFails, KeepNodes
  <2> QED
    BY <1>5, <2>1, <2>2
<1>7. ASSUME NEW t \in Threads, ReplaceNodes(t) PROVE TypeInv'
  BY <1>7 DEF ReplaceNodes, Goto
<1>8. ASSUME NEW t \in Threads, SetNodes(t) PROVE TypeInv'
  <2>1. Head(queue[t]) \in Services
    BY <1>8 DEF SetNodes
  <2> QED
    BY <1>8, <2>1 DEF SetNodes, Put, Goto
<1>9. ASSUME NEW t \in Threads, SetNext(t) PROVE TypeInv'
  <2>1. Head(queue[t]) \in DOMAIN nodes /\ queue[t] # <<>>
    BY <1>9 DEF SetNext
  <2>2. PICK sel \in Selectors(found[t]) : next' = Put(next, Head(queue[t]), sel)
    BY <1>9 DEF SetNext
  <2>3. IsSelector(sel)
    BY <2>1, SelectorsTyped
  <2>4. DOMAIN next' \subseteq DOMAIN nodes /\ \A s \in DOMAIN next' : IsSelector(next'[s])
    BY <2>1, <2>2, <2>3 DEF Put
  <2>5. \A s \in DOMAIN next' :
          /\ next'[s].list \in Seq(Nodes)
          /\ next'[s].list # <<>> => {next'[s].first, next'[s].pos} \subseteq DOMAIN next'[s].list
    BY <2>4 DEF IsSelector
  <2>6. UNCHANGED <<check, nodes, lockVars, svc, todo, found, reply, quiet>> /\ ServiceDone(t, FALSE)
    BY <1>9 DEF SetNext
  <2> QED
    BY <1>5, <2>1, <2>4, <2>5, <2>6
<1>10. ASSUME NEW t \in Threads, LookupMisses(t) \/ LookupFinds(t) PROVE TypeInv'
  <2>1. CASE LookupMisses(t)
    <3>1. <<svc[t]>> \in Seq(Services) /\ <<svc[t]>> # <<>>
      BY <2>1 DEF LookupMisses
    <3> QED
      BY <2>1, <3>1 DEF LookupMisses, Goto
  <2>2. CASE LookupFinds(t)
    BY <2>2 DEF LookupFinds, Goto
  <2> QED
    BY <1>10, <2>1, <2>2
<1>11. ASSUME NEW t \in Threads, RUnlock(t), UNCHANGED <<check, nodes, quiet>>,
              next' = next \/ \E s \in DOMAIN next :
                 next[s].list # <<>> /\ next' = [next EXCEPT ![s] = Advance(next[s])],
              NEW r \in Nodes \cup Errors, Answer(t, r)
       PROVE  TypeInv'
  <2>1. \A s \in DOMAIN next : next'[s] = next[s] \/ IsSelector(next'[s])
    BY <1>11, AdvanceTyped
  <2>2. DOMAIN next' = DOMAIN next /\ \A s \in DOMAIN next : IsSelector(next'[s])
    BY <1>11, <2>1
  <2>3. reply' \in [Threads -> Nodes \cup Errors \cup Refreshed \cup {None}]
    BY <1>11 DEF Answer
  <2>4. /\ writer' = writer /\ readers' \subseteq Threads
        /\ pc' = [pc EXCEPT ![t] = "idle"]
        /\ svc' \in [Threads -> Names \cup {None}]
        /\ queue' = [queue EXCEPT ![t] = <<>>]
        /\ todo' \in [Threads -> Seq(Nodes)]
        /\ found' \in [Threads -> Seq(Nodes)]
        /\ failed' \in [Threads -> BOOLEAN]
    BY <1>11 DEF RUnlock, LocalsEnd, Goto
  <2>5. TypeOK'
    <3>1. \A s \in DOMAIN next' :
            /\ next'[s].list \in Seq(Nodes)
            /\ next'[s].list # <<>> => {next'[s].first, next'[s].pos} \subseteq DOMAIN next'[s].list
      BY <2>2 DEF IsSelector
    <3> QED
      BY <1>11, <2>2, <2>3, <2>4, <3>1
  <2>6. \A u \in Threads : Going(u)'
    BY <1>11, <2>2, <2>4
  <2> QED
    BY <2>2, <2>5, <2>6
<1>12. ASSUME NEW t \in Threads,
              LookupFails(t) \/ Select(t) \/ SelectPanics(t) \/ ReturnUnavailable(t)
       PROVE  TypeInv'
  <2>1. PICK r \in Nodes \cup Errors : Answer(t, r)
    BY <1>12 DEF LookupFails, Select, SelectPanics, ReturnUnavailable, Errors
  <2> QED
    BY <1>11, <1>12, <2>1 DEF LookupFails, Select, SelectPanics, ReturnUnavailable
<1>13. ASSUME NEW t \in Threads, ReturnRefresh(t) PROVE TypeInv'
  BY <1>13 DEF ReturnRefresh, Unlock, LocalsEnd, Answer, Refreshed
<1>14. ASSUME ConsulChanges \/ UNCHANGED vars PROVE TypeInv'
  <2>1. check' \in [Nodes -> {"absent", "critical", "passing"}] /\ quiet' \subseteq Threads
    BY <1>14 DEF ConsulChanges, vars
  <2>2. UNCHANGED <<nodes, next, writer, readers, pc, svc, queue, todo, found, failed, reply>>
    BY <1>14 DEF ConsulChanges, vars
  <2> QED
    BY <2>1, <2>2
<1>15. ASSUME ProcessDies PROVE TypeInv'
  BY <1>15 DEF ProcessDies, EmptyMap
<1> QED
  BY <1>1, <1>2, <1>3, <1>4, <1>6, <1>7, <1>8, <1>9, <1>10, <1>12, <1>13, <1>14, <1>15
     DEF Next, Step

\* Every variable of the directory keeps its type, and every selector its position
\* within its list, in every behaviour, crashes included.
THEOREM DirectoryTyped == Spec => []TypeOK
BY TypeInit, TypeStep, PTL DEF Spec, TypeInv

-----------------------------------------------------------------------------
(* The read-write lock.                                                     *)

\* Where a thread is, and which call it makes, says what it has of the lock.
Holds(t) ==
  /\ writer = t => pc[t] \in {"drain"} \cup Refreshing /\ svc[t] = None
  /\ pc[t] \in {"idle", "lock", "drain"} => svc[t] = None
  /\ pc[t] = "drain" \/ InRefresh(t) => writer = t
  /\ pc[t] \in {"rlock", "lookup", "select"} => svc[t] # None
  /\ pc[t] \in {"lookup", "select"} => t \in readers
  /\ pc[t] \in Refreshing /\ svc[t] # None => t \in readers

\* A writer that has waited for the readers is alone.
WriterAlone == \A t \in Threads : writer = t /\ pc[t] # "drain" => readers = {}

LockInv ==
  /\ pc \in [Threads -> Labels] /\ DOMAIN svc = Threads
  /\ \A t \in Threads : Holds(t)
  /\ WriterAlone

\* Whoever refreshes all services holds the write lock, so nobody holds the read lock.
LEMMA LockInvExcludes == LockInv => LockExclusion
<1> SUFFICES ASSUME LockInv, NEW t \in Threads, NEW u \in Threads, InRefresh(t), u # t
             PROVE  pc[u] \in {"idle", "lock", "rlock"}
  BY DEF LockExclusion
<1>1. writer = t /\ readers = {}
  BY DEF LockInv, Holds, WriterAlone, InRefresh, Refreshing
<1>2. pc[u] \notin {"drain", "lookup", "select"} \cup Refreshing
  BY <1>1 DEF LockInv, Holds, InRefresh
<1>3. QED
  BY <1>2 DEF LockInv, Labels, Refreshing

\* A step of one thread that leaves the lock alone keeps the lock's invariant if
\* the thread still has of the lock what its place says, and does not end its wait.
LEMMA KeepsLock ==
  ASSUME LockInv, NEW t \in Threads, UNCHANGED lockVars,
         pc' = pc \/ \E l \in Labels : pc' = [pc EXCEPT ![t] = l],
         svc' = svc \/ \E s \in Names : svc' = [svc EXCEPT ![t] = s],
         pc[t] # "drain", Holds(t)'
  PROVE  LockInv'
<1>1. ASSUME NEW u \in Threads, u # t PROVE Holds(u)' /\ pc'[u] = pc[u]
  BY <1>1 DEF LockInv, Holds, InRefresh, lockVars
<1>2. WriterAlone'
  BY <1>1 DEF LockInv, WriterAlone, lockVars
<1>3. pc' \in [Threads -> Labels] /\ DOMAIN svc' = Threads
  BY DEF LockInv
<1>4. QED
  BY <1>1, <1>2, <1>3 DEF LockInv

\* A thread that leaves the read lock keeps the lock's invariant.
LEMMA RUnlockKeepsLock ==
  ASSUME LockInv, NEW t \in Threads, RUnlock(t), pc[t] \in {"lookup", "select"} \/ t \in readers,
         pc[t] \in Refreshing \cup {"lookup", "select"}
  PROVE  LockInv'
<1>1. writer # t
  BY DEF LockInv, Holds, WriterAlone, Refreshing
<1>2. Holds(t)'
  BY <1>1 DEF LockInv, Holds, RUnlock, LocalsEnd, Goto, InRefresh, Refreshing
<1>3. ASSUME NEW u \in Threads, u # t PROVE Holds(u)'
  BY <1>3 DEF LockInv, Holds, RUnlock, LocalsEnd, Goto, InRefresh
<1>4. QED
  BY <1>1, <1>2, <1>3 DEF LockInv, WriterAlone, RUnlock, LocalsEnd, Goto, Labels

\* The lock's invariant is inductive.
LEMMA LockStep == LockInv /\ [Next]_vars => LockInv'
<1> SUFFICES ASSUME LockInv, [Next]_vars PROVE LockInv'
  OBVIOUS
<1> USE DEF Goto
<1>1. ASSUME NEW t \in Threads, Calls(t) PROVE LockInv'
  <2>1. Holds(t)'
    BY <1>1, DirectoryAssumption
       DEF Calls, ChangeAllServiceNodes, GetNextServiceNode, LockInv, Holds, InRefresh, Refreshing, lockVars
  <2>2. QED
    BY <1>1, <2>1, KeepsLock DEF Calls, ChangeAllServiceNodes, GetNextServiceNode, Labels, lockVars
<1>2. ASSUME NEW t \in Threads, Lock(t) PROVE LockInv'
  <2>1. ASSUME NEW u \in Threads PROVE Holds(u)'
    BY <1>2, <2>1, DirectoryAssumption DEF Lock, localVars, LockInv, Holds, InRefresh, Refreshing
  <2>2. QED
    BY <1>2, <2>1 DEF Lock, localVars, LockInv, WriterAlone, Labels
<1>3. ASSUME NEW t \in Threads, Drained(t) PROVE LockInv'
  <2>1. ASSUME NEW u \in Threads PROVE Holds(u)'
    BY <1>3, <2>1 DEF Drained, localVars, lockVars, LockInv, Holds, InRefresh, Refreshing
  <2>2. QED
    BY <1>3, <2>1 DEF Drained, localVars, lockVars, LockInv, WriterAlone, Labels
<1>4. ASSUME NEW t \in Threads, RLock(t) PROVE LockInv'
  <2>1. ASSUME NEW u \in Threads PROVE Holds(u)' /\ writer' # u
    BY <1>4, <2>1, DirectoryAssumption DEF RLock, localVars, LockInv, Holds, InRefresh, Refreshing
  <2>2. QED
    BY <1>4, <2>1 DEF RLock, localVars, LockInv, WriterAlone, Labels
<1>5. ASSUME NEW t \in Threads,
             \/ QueryChecks(t) \/ QueryService(t) \/ QueryFails(t)
             \/ KeepNodes(t) \/ ReplaceNodes(t) \/ SetNodes(t) \/ SetNext(t)
      PROVE  LockInv'
  <2>1. pc[t] \in Refreshing /\ UNCHANGED lockVars /\ svc' = svc
    BY <1>5 DEF QueryChecks, QueryService, QueryFails, KeepNodes, ReplaceNodes, SetNodes, SetNext,
                Refreshing, lockVars, localVars
  <2>2. pc' = pc \/ \E l \in Refreshing : pc' = [pc EXCEPT ![t] = l]
    BY <1>5 DEF QueryChecks, QueryService, QueryFails, KeepNodes, ReplaceNodes, SetNodes, SetNext,
                ServiceDone, Refreshing
  <2>3. Holds(t)'
    BY <2>1, <2>2 DEF LockInv, Holds, InRefresh, Refreshing, lockVars
  <2>4. QED
    BY <2>1, <2>2, <2>3, KeepsLock DEF Refreshing, Labels
<1>6. ASSUME NEW t \in Threads, LookupMisses(t) \/ LookupFinds(t) PROVE LockInv'
  <2>1. Holds(t)'
    BY <1>6 DEF LookupMisses, LookupFinds, LockInv, Holds, InRefresh, Refreshing, lockVars, localVars
  <2>2. QED
    BY <1>6, <2>1, KeepsLock DEF LookupMisses, LookupFinds, Labels, lockVars, localVars
<1>7. ASSUME NEW t \in Threads,
             \/ LookupFails(t) \/ Select(t) \/ SelectPanics(t) \/ ReturnUnavailable(t)
      PROVE  LockInv'
  <2>1. /\ RUnlock(t) /\ pc[t] \in Refreshing \cup {"lookup", "select"}
        /\ pc[t] \in {"lookup", "select"} \/ t \in readers
    BY <1>7 DEF LookupFails, Select, SelectPanics, ReturnUnavailable, Refreshing
  <2>2. QED
    BY <2>1, RUnlockKeepsLock
<1>8. ASSUME NEW t \in Threads, ReturnRefresh(t) PROVE LockInv'
  <2>1. Unlock(t) /\ writer = t /\ pc[t] = "return" /\ readers = {}
    BY <1>8 DEF ReturnRefresh, LockInv, WriterAlone
  <2>2. ASSUME NEW u \in Threads PROVE Holds(u)' /\ writer' # u /\ pc'[u] \in Labels
    BY <2>1, <2>2, DirectoryAssumption
       DEF Unlock, LocalsEnd, LockInv, Holds, InRefresh, Refreshing, Labels
  <2>3. QED
    BY <2>1, <2>2 DEF Unlock, LocalsEnd, LockInv, WriterAlone
<1>9. ASSUME ConsulChanges \/ UNCHANGED vars PROVE LockInv'
  BY <1>9 DEF ConsulChanges, vars, lockVars, localVars, LockInv, Holds, WriterAlone, InRefresh
<1>10. ASSUME ProcessDies PROVE LockInv'
  BY <1>10, DirectoryAssumption
     DEF ProcessDies, LockInv, Holds, WriterAlone, InRefresh, Refreshing, Labels
<1>11. QED
  BY <1>1, <1>2, <1>3, <1>4, <1>5, <1>6, <1>7, <1>8, <1>9, <1>10 DEF Next, Step

\* While one ChangeAllServiceNodes is past Lock, no selection and no other refresh
\* is at work, whatever the refreshes made under the read lock do.
THEOREM LockExcludes == Spec => []LockExclusion
<1>1. Init => LockInv
  BY DirectoryAssumption
     DEF Init, InitThreads, LockInv, Holds, WriterAlone, InRefresh, Refreshing, Labels
<1>2. QED
  BY <1>1, LockInvExcludes, LockStep, PTL DEF Spec

-----------------------------------------------------------------------------
(* What a refresh has done so far.                                          *)

\* What a thread's step leaves of another thread, but for its place.
Untouched(u) ==
  /\ svc'[u] = svc[u] /\ queue'[u] = queue[u]
  /\ todo'[u] = todo[u] /\ found'[u] = found[u] /\ failed'[u] = failed[u]
  /\ u \in quiet' <=> u \in quiet

\* A thread moves no other one, except for who waits for the lock it releases.
LEMMA Frame ==
  ASSUME TypeInv, NEW t \in Threads, Calls(t) \/ Step(t), NEW u \in Threads, u # t
  PROVE  /\ Untouched(u)
         /\ pc'[u] = pc[u] \/ (pc[u] = "rlock" /\ pc'[u] = "lookup")
<1> USE DEF TypeInv, TypeOK, lockVars, localVars, Untouched
<1>1. CASE Calls(t)
  BY <1>1 DEF Calls, GetNextServiceNode, ChangeAllServiceNodes, Goto
<1>2. CASE Lock(t) \/ Drained(t) \/ RLock(t)
  BY <1>2 DEF Lock, Drained, RLock, Goto
<1>3. CASE QueryChecks(t) \/ QueryService(t) \/ ReplaceNodes(t) \/ SetNodes(t)
  BY <1>3 DEF QueryChecks, QueryService, ReplaceNodes, SetNodes, Goto
<1>4. CASE QueryFails(t) \/ KeepNodes(t) \/ SetNext(t)
  BY <1>4 DEF QueryFails, KeepNodes, SetNext, ServiceDone, Goto
<1>5. CASE LookupFails(t) \/ Select(t) \/ SelectPanics(t) \/ ReturnUnavailable(t)
  <2>1. RUnlock(t) /\ quiet' = quiet
    BY <1>5 DEF LookupFails, Select, SelectPanics, ReturnUnavailable
  <2> QED
    BY <2>1 DEF RUnlock, LocalsEnd, Goto
<1>6. CASE LookupMisses(t) \/ LookupFinds(t)
  BY <1>6 DEF LookupMisses, LookupFinds, Goto
<1>7. CASE ReturnRefresh(t)
  BY <1>7 DEF ReturnRefresh, Unlock, LocalsEnd
<1> QED
  BY <1>1, <1>2, <1>3, <1>4, <1>5, <1>6, <1>7 DEF Step

\* The services t's refresh has not gone through.
Remaining(t) == {queue[t][i] : i \in DOMAIN queue[t]}

\* Unless a query failed or consul changed, the refresh under the write lock has
\* saved what consul reports for each service it is done with, and the answer it
\* is resolving is the current one.
Fresh(t) ==
  /\ pc[t] \in {"lock", "drain"} => queue[t] = ServiceList
  /\ pc[t] = "return" => queue[t] = <<>>
  /\ InRefresh(t) /\ t \in quiet /\ ~ failed[t] =>
       /\ \A s \in Services \ Remaining(t) : Entry(s) = Passing(s)
       /\ pc[t] = "services" => found[t] \o todo[t] = Passing(Head(queue[t]))
       /\ pc[t] \in {"nodes", "next"} => found[t] = Passing(Head(queue[t]))
       /\ pc[t] = "next" => Entry(Head(queue[t])) = found[t]

RefreshInv == TypeInv /\ LockInv /\ \A t \in Threads : Fresh(t)

\* At its return nothing remains.
LEMMA FreshIsCurrent == RefreshInv => RefreshIsCurrent
<1> SUFFICES ASSUME RefreshInv, NEW t \in Threads,
                    InRefresh(t), pc[t] = "return", ~ failed[t], t \in quiet, NEW s \in Services
             PROVE  Entry(s) = Passing(s)
  BY DEF RefreshIsCurrent
<1>1. queue[t] = <<>>
  BY DEF RefreshInv, Fresh
<1>2. Remaining(t) = {}
  BY <1>1 DEF Remaining
<1> QED
  BY <1>2 DEF RefreshInv, Fresh

\* Lists resolved node by node.
LEMMA Resolved ==
  ASSUME NEW S, NEW f \in Seq(S), NEW l \in Seq(S), l # <<>>
  PROVE  Append(f, Head(l)) \o Tail(l) = f \o l
BY HeadTailProperties, AppendProperties, ConcatProperties, SeqEqual

\* No step of another thread makes a refresh less fresh: nobody else writes.
LEMMA OthersStayFresh ==
  ASSUME RefreshInv, NEW t \in Threads, Calls(t) \/ Step(t), NEW u \in Threads, u # t
  PROVE  Fresh(u)'
<1>1. Untouched(u) /\ (pc'[u] = pc[u] \/ (pc[u] = "rlock" /\ pc'[u] = "lookup"))
  BY Frame DEF RefreshInv
<1>2. CASE InRefresh(u)
  <2>1. pc[t] \in {"idle", "lock", "rlock"}
    BY <1>2, LockInvExcludes DEF RefreshInv, LockExclusion
  <2>2. UNCHANGED <<nodes, check>>
    BY <2>1 DEF Calls, Step, ChangeAllServiceNodes, GetNextServiceNode, Lock, Drained, RLock,
       QueryChecks, QueryService, QueryFails, KeepNodes, ReplaceNodes, SetNodes, SetNext,
       LookupFails, LookupMisses, LookupFinds, Select, SelectPanics, ReturnRefresh, ReturnUnavailable
  <2>3. \A s : Passing(s)' = Passing(s) /\ Entry(s)' = Entry(s)
    BY <2>2 DEF Passing, Entry, Listed
  <2>4. Remaining(u)' = Remaining(u) /\ Entry(Head(queue[u]))' = Entry(Head(queue[u]))
        /\ Passing(Head(queue[u]))' = Passing(Head(queue[u]))
    BY <1>1, <2>2 DEF Untouched, Remaining, Passing, Entry, Listed
  <2> QED
    BY <1>1, <1>2, <2>3, <2>4 DEF Untouched, RefreshInv, Fresh, InRefresh, Refreshing
<1>3. CASE ~ InRefresh(u)
  BY <1>1, <1>3 DEF Untouched, RefreshInv, Fresh, InRefresh, Refreshing
<1> QED
  BY <1>2, <1>3

\* The services left after one is done with, and what the others keep.
LEMMA DoneWithOne ==
  ASSUME TypeInv, NEW t \in Threads, queue[t] # <<>>
  PROVE  /\ Head(queue[t]) \in Services
         /\ Tail(queue[t]) \in Seq(Services)
         /\ Remaining(t) \subseteq
              {Head(queue[t])} \cup {Tail(queue[t])[i] : i \in DOMAIN Tail(queue[t])}
<1>1. queue[t] \in Seq(Services)
  BY DEF TypeInv, TypeOK
<1>2. /\ Head(queue[t]) \in Services /\ Head(queue[t]) = queue[t][1]
      /\ Tail(queue[t]) \in Seq(Services)
      /\ Len(Tail(queue[t])) = Len(queue[t]) - 1
      /\ \A i \in 1..Len(Tail(queue[t])) : Tail(queue[t])[i] = queue[t][i + 1]
  BY <1>1, HeadTailProperties
<1>3. ASSUME NEW i \in DOMAIN queue[t], i # 1
      PROVE  i - 1 \in DOMAIN Tail(queue[t]) /\ queue[t][i] = Tail(queue[t])[i - 1]
  BY <1>1, <1>2, <1>3
<1> QED
  BY <1>2, <1>3 DEF Remaining

\* A refresh that is done with a service whose entry is current stays fresh.
LEMMA ServiceDoneStaysFresh ==
  ASSUME RefreshInv, NEW t \in Threads, NEW err \in BOOLEAN, ServiceDone(t, err), queue[t] # <<>>,
         pc[t] \in Refreshing,
         UNCHANGED <<check, nodes, svc, quiet>>,
         ~ err /\ InRefresh(t) /\ t \in quiet /\ ~ failed[t] =>
           Entry(Head(queue[t])) = Passing(Head(queue[t]))
  PROVE  Fresh(t)'
<1>1. /\ pc'[t] = IF Tail(queue[t]) = <<>> THEN "return" ELSE "checks"
      /\ queue'[t] = Tail(queue[t]) /\ failed'[t] = (failed[t] \/ err)
  BY DEF ServiceDone, Goto, RefreshInv, TypeInv, TypeOK
<1>2. \A s : Passing(s)' = Passing(s) /\ Entry(s)' = Entry(s)
  BY DEF Passing, Entry, Listed
<1>3. Remaining(t)' = {Tail(queue[t])[i] : i \in DOMAIN Tail(queue[t])}
  BY <1>1 DEF Remaining
<1>4. ASSUME InRefresh(t)', t \in quiet', ~ failed'[t], NEW s \in Services \ Remaining(t)'
      PROVE  Entry(s) = Passing(s)
  <2>1. InRefresh(t) /\ t \in quiet /\ ~ failed[t] /\ ~ err
    BY <1>1, <1>4 DEF InRefresh
  <2>2. s = Head(queue[t]) \/ s \notin Remaining(t)
    BY <1>3, <1>4, DoneWithOne DEF RefreshInv
  <2> QED
    BY <2>1, <2>2 DEF RefreshInv, Fresh
<1> QED
  BY <1>1, <1>2, <1>4 DEF Fresh

\* Whatever its own step, a thread's refresh stays fresh.
LEMMA StaysFresh ==
  ASSUME RefreshInv, NEW t \in Threads, Calls(t) \/ Step(t)
  PROVE  Fresh(t)'
<1> USE DEF RefreshInv, TypeInv, TypeOK, lockVars, localVars
<1>0. pc[t] \in {"checks", "services", "nodes", "next"} => queue[t] # <<>>
  BY DEF Going
<1>1. CASE Calls(t)
  BY <1>1 DEF Calls, ChangeAllServiceNodes, GetNextServiceNode, Goto, Fresh, InRefresh, Refreshing
<1>2. CASE Lock(t) \/ RLock(t) \/ LookupFinds(t)
  BY <1>2 DEF Lock, RLock, LookupFinds, Goto, Fresh, InRefresh, Refreshing
<1>3. CASE Drained(t)
  <2>1. pc'[t] = "checks" /\ queue'[t] = ServiceList
    BY <1>3 DEF Drained, Goto, Fresh
  <2>2. Remaining(t)' = Services
    BY <2>1 DEF Remaining, Services
  <2> QED
    BY <2>1, <2>2 DEF Fresh
<1>4. CASE LookupMisses(t)
  <2>1. pc'[t] = "checks" /\ svc'[t] # None
    BY <1>4, DirectoryAssumption DEF LookupMisses, Goto, Names
  <2> QED
    BY <2>1 DEF Fresh, InRefresh
<1>5. CASE LookupFails(t) \/ Select(t) \/ SelectPanics(t) \/ ReturnUnavailable(t) \/ ReturnRefresh(t)
  <2>1. pc'[t] = "idle"
    BY <1>5 DEF LookupFails, Select, SelectPanics, ReturnUnavailable, ReturnRefresh, RUnlock, Unlock, Goto
  <2> QED
    BY <2>1 DEF Fresh, InRefresh, Refreshing
<1>6. ASSUME UNCHANGED <<check, nodes, svc, queue, failed, quiet>>, pc[t] \in Refreshing \ {"return"}
      PROVE  /\ \A s : Passing(s)' = Passing(s) /\ Entry(s)' = Entry(s)
             /\ Remaining(t)' = Remaining(t)
             /\ pc'[t] \in Refreshing /\ InRefresh(t)' /\ t \in quiet' /\ ~ failed'[t]
                => \A s \in Services \ Remaining(t)' : Entry(s) = Passing(s)
  <2>1. \A s : Passing(s)' = Passing(s) /\ Entry(s)' = Entry(s)
    BY <1>6 DEF Passing, Entry, Listed
  <2>2. Remaining(t)' = Remaining(t)
    BY <1>6 DEF Remaining
  <2> QED
    BY <1>6, <2>1, <2>2 DEF Fresh, InRefresh
<1>7. CASE QueryChecks(t)
  <2>1. /\ pc[t] = "checks" /\ pc'[t] = "services"
        /\ todo'[t] = Passing(Head(queue[t])) /\ found'[t] = <<>>
        /\ UNCHANGED <<check, nodes, svc, queue, failed, quiet>>
    BY <1>7 DEF QueryChecks, Goto
  <2>2. Passing(Head(queue[t])) \in Seq(Nodes)
    BY ListedIsSeq DEF Passing
  <2>3. found'[t] \o todo'[t] = Passing(Head(queue[t]))
    BY <2>1, <2>2, ConcatEmptySeq
  <2>4. Passing(Head(queue[t]))' = Passing(Head(queue[t]))
    BY <2>1, <1>6 DEF Refreshing
  <2> QED
    BY <1>6, <2>1, <2>3, <2>4 DEF Fresh, Refreshing
<1>8. CASE QueryService(t)
  <2>1. /\ pc[t] = "services" /\ pc'[t] = "services"
        /\ found'[t] = Append(found[t], Head(todo[t])) /\ todo'[t] = Tail(todo[t])
        /\ todo[t] # <<>>
        /\ UNCHANGED <<check, nodes, svc, queue, failed, quiet>>
    BY <1>8 DEF QueryService
  <2>2. found'[t] \o todo'[t] = found[t] \o todo[t]
    BY <2>1, Resolved
  <2>3. Passing(Head(queue[t]))' = Passing(Head(queue[t]))
    BY <2>1, <1>6 DEF Refreshing
  <2> QED
    BY <1>6, <2>1, <2>2, <2>3 DEF Fresh, Refreshing, InRefresh
<1>9. CASE QueryFails(t)
  BY <1>0, <1>9, ServiceDoneStaysFresh DEF QueryFails, Refreshing
<1>10. ASSUME pc[t] = "services", todo[t] = <<>>, InRefresh(t), t \in quiet, ~ failed[t]
       PROVE  found[t] = Passing(Head(queue[t]))
  <2>1. found[t] \o todo[t] = Passing(Head(queue[t]))
    BY <1>10 DEF Fresh
  <2> QED
    BY <1>10, <2>1, ConcatEmptySeq
<1>11. CASE KeepNodes(t)
  BY <1>0, <1>10, <1>11, ServiceDoneStaysFresh DEF KeepNodes, Differs, Refreshing
<1>12. CASE ReplaceNodes(t)
  <2>1. /\ pc[t] = "services" /\ todo[t] = <<>> /\ pc'[t] = "nodes" /\ found' = found
        /\ UNCHANGED <<check, nodes, svc, queue, failed, quiet>>
    BY <1>12 DEF ReplaceNodes, Goto
  <2>3. Passing(Head(queue[t]))' = Passing(Head(queue[t]))
    BY <2>1, <1>6 DEF Refreshing
  <2> QED
    BY <1>6, <1>10, <2>1, <2>3 DEF Fresh, Refreshing, InRefresh
<1>13. CASE SetNodes(t)
  <2>1. /\ pc[t] = "nodes" /\ pc'[t] = "next"
        /\ nodes' = Put(nodes, Head(queue[t]), found[t])
        /\ UNCHANGED <<check, svc, queue, found, failed, quiet>>
    BY <1>13 DEF SetNodes, Goto
  <2>2. \A s : Passing(s)' = Passing(s)
    BY <2>1 DEF Passing, Listed
  <2>3. \A s : Entry(s)' = IF s = Head(queue[t]) THEN found[t] ELSE Entry(s)
    BY <2>1 DEF Entry, Put
  <2>4. Remaining(t)' = Remaining(t)
    BY <2>1 DEF Remaining
  <2>5. Entry(Head(queue[t]))' = found[t] /\ Passing(Head(queue[t]))' = Passing(Head(queue[t]))
    BY <2>1, <2>2, <2>3
  <2> QED
    BY <2>1, <2>2, <2>3, <2>4, <2>5 DEF Fresh, Refreshing, InRefresh
<1>14. CASE SetNext(t)
  BY <1>0, <1>14, ServiceDoneStaysFresh DEF SetNext, Refreshing, Fresh
<1> QED
  BY <1>1, <1>2, <1>3, <1>4, <1>5, <1>7, <1>8, <1>9, <1>11, <1>12, <1>13, <1>14 DEF Step

\* The invariant is inductive: consul's changes and a crash end what it speaks of.
LEMMA RefreshStep == RefreshInv /\ [Next]_vars => RefreshInv'
<1> SUFFICES ASSUME RefreshInv, [Next]_vars PROVE \A u \in Threads : Fresh(u)'
  BY TypeStep, LockStep DEF RefreshInv
<1>1. CASE \E t \in Threads : Calls(t) \/ Step(t)
  BY <1>1, StaysFresh, OthersStayFresh
<1>2. CASE ConsulChanges
  BY <1>2 DEF ConsulChanges, localVars, RefreshInv, Fresh
<1>3. CASE ProcessDies
  BY <1>3 DEF ProcessDies, Fresh, InRefresh, Refreshing
<1>4. CASE UNCHANGED vars
  <2>1. \A s : Passing(s)' = Passing(s) /\ Entry(s)' = Entry(s)
    BY <1>4 DEF vars, Passing, Entry, Listed
  <2>2. \A u \in Threads : /\ Passing(Head(queue[u]))' = Passing(Head(queue[u]))
                           /\ Entry(Head(queue[u]))' = Entry(Head(queue[u]))
    BY <1>4, <2>1 DEF vars, localVars, Passing, Entry, Listed
  <2> QED
    BY <1>4, <2>1, <2>2 DEF vars, localVars, RefreshInv, Fresh, Remaining, InRefresh
<1> QED
  BY <1>1, <1>2, <1>3, <1>4 DEF Next

\* A refresh that reports no error, and during which consul did not change, has
\* made every entry current, whatever selections wait or ask meanwhile.
THEOREM RefreshesAreCurrent == Spec => []RefreshIsCurrent
<1>1. Init => RefreshInv
  BY TypeInit, DirectoryAssumption
     DEF Init, InitThreads, RefreshInv, LockInv, Holds, WriterAlone, InRefresh, Refreshing,
         Labels, Fresh
<1> QED
  BY <1>1, FreshIsCurrent, RefreshStep, PTL DEF Spec

-----------------------------------------------------------------------------
(* A directory in which every service has an entry and a selector.          *)

\* Where a thread is says which lock it holds and what its locals are: nobody
\* refreshes under the read lock, and what was saved is what the selector will get.
Placed(t) ==
  /\ pc[t] \in {"drain"} \cup Refreshing => writer = t
  /\ pc[t] \in {"lock", "drain", "checks", "services", "nodes", "next"} => queue[t] # <<>>
  /\ pc[t] \in {"lookup", "select"} => t \in readers
  /\ pc[t] = "select" => svc[t] \in Services
  /\ pc[t] = "next" => nodes[Head(queue[t])] = found[t]

WarmInv ==
  /\ LockInv
  /\ DOMAIN nodes = Services /\ DOMAIN next = Services
  /\ \A s \in Services : "list" \in DOMAIN next[s]
  /\ queue \in [Threads -> Seq(Services)]
  /\ DOMAIN svc = Threads /\ DOMAIN found = Threads
  /\ \A t \in Threads : Placed(t)

\* With every entry there, maps are accessed by one writer or by readers only.
LEMMA WarmIsSafe == WarmInv => NoCrash
<1> SUFFICES ASSUME WarmInv PROVE ~ MapRace /\ ~ NilSelector
  BY DEF NoCrash
<1>1. ~ NilSelector
  BY DEF WarmInv, Placed, NilSelector
<1>2. ASSUME NEW t \in Threads, NEW u \in Threads, t # u, pc[t] \in {"nodes", "next"}
      PROVE  pc[u] \notin Refreshing \cup {"lookup", "select"}
  <2>1. writer = t /\ readers = {}
    BY <1>2 DEF WarmInv, Placed, LockInv, WriterAlone, Refreshing
  <2>2. QED
    BY <1>2, <2>1 DEF WarmInv, Placed
<1>3. ~ MapRace
  BY <1>2 DEF MapRace, ReadsNodes, Refreshing
<1>4. QED
  BY <1>1, <1>3

\* A step of one thread that changes neither the maps' domains nor another thread
\* keeps the invariant if it keeps the lock's and the thread is placed after it.
LEMMA OneThreadMoves ==
  ASSUME WarmInv, LockInv', NEW t \in Threads, Placed(t)',
         \A u \in Threads \ {t} :
           /\ pc'[u] = pc[u] /\ queue'[u] = queue[u] /\ svc'[u] = svc[u] /\ found'[u] = found[u],
         DOMAIN svc' = Threads, DOMAIN found' = Threads,
         queue' \in [Threads -> Seq(Services)],
         \A u \in Threads \ {t} : (writer = u => writer' = u) /\ (u \in readers => u \in readers'),
         nodes' = nodes \/ pc[t] \in Refreshing,
         DOMAIN nodes' = Services, DOMAIN next' = Services,
         \A s \in Services : "list" \in DOMAIN next'[s]
  PROVE  WarmInv'
<1>1. ASSUME NEW u \in Threads \ {t} PROVE Placed(u)'
  <2>1. pc[u] = "next" => nodes' = nodes
    BY DEF WarmInv, Placed, Refreshing
  <2>2. QED
    BY <2>1 DEF WarmInv, Placed
<1>2. QED
  BY <1>1 DEF WarmInv

\* The invariant is inductive, and the process does not die.
LEMMA WarmStep == WarmInv /\ [Next]_vars => WarmInv' /\ ~ ProcessDies
<1> SUFFICES ASSUME WarmInv, [Next]_vars PROVE WarmInv' /\ ~ ProcessDies
  OBVIOUS
<1> USE DEF lockVars, localVars
<1>0. LockInv' /\ ~ ProcessDies
  BY LockStep, WarmIsSafe DEF WarmInv, ProcessDies, NoCrash
<1>1. ASSUME NEW t \in Threads, Calls(t) PROVE WarmInv'
  <2>1. Placed(t)'
    BY <1>1, DirectoryAssumption DEF WarmInv, LockInv, Placed, Refreshing, Calls,
       ChangeAllServiceNodes, GetNextServiceNode, Goto
  <2>2. queue' \in [Threads -> Seq(Services)]
    BY <1>1, DirectoryAssumption DEF WarmInv, Calls, ChangeAllServiceNodes, GetNextServiceNode
  <2>3. QED
    BY <1>0, <1>1, <2>1, <2>2, OneThreadMoves
       DEF WarmInv, LockInv, Calls, ChangeAllServiceNodes, GetNextServiceNode, Goto
<1>2. ASSUME NEW t \in Threads, Lock(t) \/ Drained(t) \/ RLock(t) PROVE WarmInv'
  <2>1. Placed(t)'
    BY <1>2 DEF WarmInv, LockInv, Placed, Refreshing, Lock, Drained, RLock, Goto
  <2>2. QED
    BY <1>0, <1>2, <2>1, OneThreadMoves, DirectoryAssumption
       DEF WarmInv, LockInv, Lock, Drained, RLock, Goto
<1>3. ASSUME NEW t \in Threads, QueryChecks(t) \/ QueryService(t) \/ ReplaceNodes(t)
      PROVE  WarmInv'
  <2>1. Placed(t)'
    BY <1>3 DEF WarmInv, LockInv, Placed, Refreshing, QueryChecks, QueryService, ReplaceNodes, Goto
  <2>2. QED
    BY <1>0, <1>3, <2>1, OneThreadMoves
       DEF WarmInv, LockInv, QueryChecks, QueryService, ReplaceNodes, Goto, Refreshing
<1>4. ASSUME NEW t \in Threads, QueryFails(t) \/ KeepNodes(t) \/ SetNext(t) PROVE WarmInv'
  <2>1. PICK err \in BOOLEAN : ServiceDone(t, err)
    BY <1>4 DEF QueryFails, KeepNodes, SetNext
  <2>2. pc[t] \in {"checks", "services", "next"} /\ queue[t] # <<>> /\ queue[t] \in Seq(Services)
    BY <1>4 DEF QueryFails, KeepNodes, SetNext, WarmInv, Placed
  <2>3. Tail(queue[t]) \in Seq(Services) /\ Head(queue[t]) \in Services
    BY <2>2
  <2>4. UNCHANGED <<nodes, lockVars, svc, found>>
    BY <1>4 DEF QueryFails, KeepNodes, SetNext
  <2>5. Placed(t)'
    BY <2>1, <2>2, <2>3, <2>4 DEF WarmInv, LockInv, Placed, Refreshing, ServiceDone, Goto
  <2>6. DOMAIN next' = Services /\ \A s \in Services : "list" \in DOMAIN next'[s]
    <3>1. CASE next' = next
      BY <3>1 DEF WarmInv
    <3>2. CASE SetNext(t)
      <4>1. PICK sel \in Selectors(found[t]) : next' = Put(next, Head(queue[t]), sel)
        BY <3>2 DEF SetNext
      <4>2. "list" \in DOMAIN sel
        BY DEF Selectors
      <4>3. QED
        BY <2>3, <4>1, <4>2 DEF WarmInv, Put
    <3>3. QED
      BY <1>4, <3>1, <3>2 DEF QueryFails, KeepNodes
  <2>7. QED
    BY <1>0, <2>1, <2>3, <2>4, <2>5, <2>6, OneThreadMoves DEF WarmInv, LockInv, ServiceDone, Goto
<1>5. ASSUME NEW t \in Threads, SetNodes(t) PROVE WarmInv'
  <2>1. queue[t] # <<>> /\ queue[t] \in Seq(Services) /\ pc[t] = "nodes" /\ pc'[t] = "next"
    BY <1>5 DEF SetNodes, Goto, WarmInv, LockInv, Placed
  <2>2. Head(queue[t]) \in Services
    BY <2>1
  <2>3. DOMAIN nodes' = Services /\ nodes'[Head(queue[t])] = found[t]
    BY <1>5, <2>2 DEF SetNodes, Put, WarmInv
  <2>4. Placed(t)'
    BY <1>5, <2>1, <2>3 DEF SetNodes, WarmInv, Placed, Refreshing
  <2>5. QED
    BY <1>0, <1>5, <2>1, <2>3, <2>4, OneThreadMoves DEF SetNodes, Goto, WarmInv, LockInv, Refreshing
<1>6. ASSUME NEW t \in Threads, LookupMisses(t) \/ LookupFinds(t) PROVE WarmInv'
  <2>1. LookupFinds(t)
    BY <1>6 DEF LookupMisses, WarmInv
  <2>2. Placed(t)'
    BY <2>1 DEF LookupFinds, WarmInv, LockInv, Placed, Refreshing, Goto
  <2>3. QED
    BY <1>0, <2>1, <2>2, OneThreadMoves DEF LookupFinds, WarmInv, LockInv, Goto
<1>7. ASSUME NEW t \in Threads,
             \/ LookupFails(t) \/ Select(t) \/ SelectPanics(t) \/ ReturnUnavailable(t)
      PROVE  WarmInv'
  <2>1. RUnlock(t) /\ nodes' = nodes
    BY <1>7 DEF LookupFails, Select, SelectPanics, ReturnUnavailable
  <2>2. Placed(t)'
    BY <2>1 DEF RUnlock, Goto, WarmInv, LockInv, Placed, Refreshing
  <2>3. DOMAIN next' = Services /\ \A s \in Services : "list" \in DOMAIN next'[s]
    BY <1>7 DEF LookupFails, Select, SelectPanics, ReturnUnavailable, Advance, WarmInv
  <2>4. queue' \in [Threads -> Seq(Services)]
    BY <2>1 DEF RUnlock, LocalsEnd, WarmInv
  <2>5. QED
    BY <1>0, <2>1, <2>2, <2>3, <2>4, OneThreadMoves DEF RUnlock, LocalsEnd, Goto, WarmInv, LockInv
<1>8. ASSUME NEW t \in Threads, ReturnRefresh(t) PROVE WarmInv'
  <2>1. UNCHANGED <<nodes, next>> /\ Unlock(t) /\ writer = t
    BY <1>8 DEF ReturnRefresh
  <2>2. ASSUME NEW u \in Threads PROVE Placed(u)'
    BY <2>1 DEF Unlock, LocalsEnd, WarmInv, LockInv, Placed, Refreshing
  <2>3. QED
    BY <1>0, <2>1, <2>2 DEF Unlock, LocalsEnd, WarmInv
<1>9. ASSUME ConsulChanges \/ UNCHANGED vars PROVE WarmInv'
  BY <1>0, <1>9 DEF ConsulChanges, vars, WarmInv, Placed
<1>10. QED
  BY <1>0, <1>1, <1>2, <1>3, <1>4, <1>5, <1>6, <1>7, <1>8, <1>9 DEF Next, Step

\* Initially all threads are idle and every service has its entry and selector.
LEMMA WarmInit == InitWarm => WarmInv
BY DirectoryAssumption
   DEF InitWarm, InitThreads, WarmInv, LockInv, Holds, WriterAlone, InRefresh, Placed, Refreshing,
       Labels, Selectors

\* Once every service has an entry, selections and refreshes never race for the
\* maps and no selection calls a selector that is missing.
THEOREM WarmNeverCrashes == SpecWarm => []NoCrash
BY WarmInit, WarmStep, WarmIsSafe, PTL DEF SpecWarm

-----------------------------------------------------------------------------
(* The selector and the saved list.                                         *)

\* The selector of s is over the saved list, or is about to be replaced by one.
Matched(s) ==
  \/ next[s].list = nodes[s]
  \/ \E t \in Threads : pc[t] = "next" /\ Head(queue[t]) = s

\* Every step keeps selectors and lists together.
LEMMA MatchStep == WarmInv /\ SelectorMatchesNodes /\ [Next]_vars => SelectorMatchesNodes'
<1> SUFFICES ASSUME WarmInv, SelectorMatchesNodes, [Next]_vars, NEW s \in Services
             PROVE  Matched(s)'
  BY WarmStep DEF WarmInv, SelectorMatchesNodes, Matched
<1> USE DEF lockVars, localVars
<1>0. Matched(s) /\ DOMAIN pc = Threads /\ DOMAIN queue = Threads /\ ~ ProcessDies
  BY WarmStep DEF WarmInv, LockInv, SelectorMatchesNodes, Matched
<1>1. ASSUME NEW t \in Threads, SetNodes(t) PROVE Matched(s)'
  <2>1. \A u \in Threads : pc[u] # "next"
    BY <1>1 DEF SetNodes, WarmInv, Placed, Refreshing
  <2>2. pc'[t] = "next" /\ queue' = queue /\ next' = next
    BY <1>0, <1>1 DEF SetNodes, Goto
  <2>3. CASE s = Head(queue[t])
    BY <2>2, <2>3 DEF Matched
  <2>4. CASE s # Head(queue[t])
    <3>1. nodes'[s] = nodes[s]
      BY <1>1, <2>4 DEF SetNodes, Put, WarmInv
    <3>2. QED
      BY <1>0, <2>1, <2>2, <3>1 DEF Matched
  <2>5. QED
    BY <2>3, <2>4
<1>2. ASSUME NEW t \in Threads, SetNext(t) PROVE Matched(s)'
  <2>1. PICK sel \in Selectors(found[t]) : next' = Put(next, Head(queue[t]), sel)
    BY <1>2 DEF SetNext
  <2>2. sel.list = nodes[Head(queue[t])] /\ nodes' = nodes
    BY <1>2 DEF Selectors, SetNext, WarmInv, Placed
  <2>3. \A u \in Threads \ {t} : pc[u] # "next"
    BY <1>2 DEF SetNext, WarmInv, Placed, Refreshing
  <2>4. CASE s = Head(queue[t])
    BY <2>1, <2>2, <2>4 DEF Matched, Put
  <2>5. CASE s # Head(queue[t])
    <3>1. next'[s] = next[s]
      BY <2>1, <2>5 DEF Put, WarmInv
    <3>2. QED
      BY <1>0, <2>2, <2>3, <2>5, <3>1 DEF Matched
  <2>6. QED
    BY <2>4, <2>5
<1>3. ASSUME NEW t \in Threads, Select(t) PROVE Matched(s)'
  <2>1. next'[s].list = next[s].list /\ nodes' = nodes
    <3>1. Advance(next[s]).list = next[s].list
      BY DEF Advance, WarmInv
    <3>2. next' = next \/ next' = [next EXCEPT ![svc[t]] = Advance(next[svc[t]])]
      BY <1>3 DEF Select
    <3>3. next'[s] \in {next[s], Advance(next[s])}
      BY <3>2 DEF WarmInv
    <3>4. QED
      BY <1>3, <3>1, <3>3 DEF Select
  <2>2. \A u \in Threads : pc[u] = "next" => pc'[u] = "next" /\ queue'[u] = queue[u]
    BY <1>0, <1>3 DEF Select, RUnlock, LocalsEnd, Goto
  <2>3. QED
    BY <1>0, <2>1, <2>2 DEF Matched
<1>4. ASSUME NEW t \in Threads, Calls(t) \/ Step(t), ~ SetNodes(t), ~ SetNext(t), ~ Select(t)
      PROVE  Matched(s)'
  <2>1. UNCHANGED <<nodes, next>>
    BY <1>4 DEF Calls, Step, ChangeAllServiceNodes, GetNextServiceNode, Lock, Drained, RLock,
       QueryChecks, QueryService, QueryFails, KeepNodes, ReplaceNodes, LookupFails, LookupMisses,
       LookupFinds, SelectPanics, ReturnRefresh, ReturnUnavailable
  <2>2. ASSUME NEW u \in Threads, pc[u] = "next" PROVE pc'[u] = "next" /\ queue'[u] = queue[u]
    <3>1. CASE ReturnRefresh(t)
      BY <1>0, <2>2, <3>1 DEF ReturnRefresh, Unlock, LocalsEnd
    <3>2. CASE LookupFails(t) \/ SelectPanics(t) \/ ReturnUnavailable(t)
      BY <1>0, <2>2, <3>2 DEF LookupFails, SelectPanics, ReturnUnavailable, RUnlock, LocalsEnd, Goto
    <3>3. CASE QueryFails(t) \/ KeepNodes(t)
      BY <1>0, <2>2, <3>3 DEF QueryFails, KeepNodes, ServiceDone, Goto
    <3>4. CASE Calls(t) \/ LookupMisses(t) \/ LookupFinds(t)
      BY <1>0, <2>2, <3>4 DEF Calls, ChangeAllServiceNodes, GetNextServiceNode, LookupMisses,
         LookupFinds, Goto
    <3>5. CASE Lock(t) \/ Drained(t) \/ RLock(t) \/ QueryChecks(t) \/ QueryService(t) \/ ReplaceNodes(t)
      BY <1>0, <2>2, <3>5 DEF Lock, Drained, RLock, QueryChecks, QueryService, ReplaceNodes, Goto
    <3>6. QED
      BY <1>4, <3>1, <3>2, <3>3, <3>4, <3>5 DEF Step
  <2>3. QED
    BY <1>0, <2>1, <2>2 DEF Matched
<1>5. ASSUME ConsulChanges \/ UNCHANGED vars PROVE Matched(s)'
  BY <1>0, <1>5 DEF ConsulChanges, vars, Matched
<1>6. QED
  BY <1>0, <1>1, <1>2, <1>3, <1>4, <1>5 DEF Next

\* Once every service has an entry, every selector rotates over the saved list,
\* however refreshes and selections interleave.
THEOREM WarmSelectorsMatch == SpecWarm => []SelectorMatchesNodes
<1>1. InitWarm => SelectorMatchesNodes
  BY DEF InitWarm, SelectorMatchesNodes, Selectors
<1>2. QED
  BY <1>1, WarmInit, WarmStep, MatchStep, PTL DEF SpecWarm

-----------------------------------------------------------------------------
(* The directory implements FairRotation.                                   *)

\* The place of a position in the round that began at first, among n positions.
Turn(first, n, i) == IF i >= first THEN i - first ELSE i - first + n

\* Each position has a turn of its own; the next position's turn is the next one,
\* and the first one after the last.
LEMMA Turns ==
  ASSUME NEW n \in Nat \ {0}, NEW first \in 1..n
  PROVE  /\ \A i \in 1..n : Turn(first, n, i) \in 0..(n - 1)
         /\ \A i, j \in 1..n : Turn(first, n, i) = Turn(first, n, j) => i = j
         /\ \A i \in 1..n :
              /\ (i % n) + 1 \in 1..n
              /\ Turn(first, n, (i % n) + 1)
                   = IF Turn(first, n, i) = n - 1 THEN 0 ELSE Turn(first, n, i) + 1
         /\ Turn(first, n, first) = 0
         /\ \E i \in 1..n : Turn(first, n, i) = n - 1
<1>1. \A i \in 1..n : Turn(first, n, i) \in 0..(n - 1)
  BY DEF Turn
<1>2. \A i, j \in 1..n : Turn(first, n, i) = Turn(first, n, j) => i = j
  BY DEF Turn
<1>3. ASSUME NEW i \in 1..n
      PROVE  /\ (i % n) + 1 \in 1..n
             /\ Turn(first, n, (i % n) + 1)
                  = IF Turn(first, n, i) = n - 1 THEN 0 ELSE Turn(first, n, i) + 1
  <2>1. CASE i = n
    <3>1. i % n = 0
      BY <2>1
    <3> QED
      BY <2>1, <3>1 DEF Turn
  <2>2. CASE i # n
    <3>1. i % n = i
      BY <2>2
    <3> QED
      BY <2>2, <3>1 DEF Turn
  <2> QED
    BY <2>1, <2>2
<1>4. Turn(first, n, first) = 0
  BY DEF Turn
<1>5. \E i \in 1..n : Turn(first, n, i) = n - 1
  <2>1. CASE first = 1
    <3>1. Turn(first, n, n) = n - 1 /\ n \in 1..n
      BY <2>1 DEF Turn
    <3> QED
      BY <3>1
  <2>2. CASE first # 1
    <3>1. Turn(first, n, first - 1) = n - 1 /\ first - 1 \in 1..n
      BY <2>2 DEF Turn
    <3> QED
      BY <3>1
  <2> QED
    BY <2>1, <2>2
<1> QED
  BY <1>1, <1>2, <1>3, <1>4, <1>5

\* A selector hands out a node that had no turn in this round; the node that is
\* the last of the round ends it.
LEMMA SelectorRotates ==
  ASSUME NEW sel, IsSelector(sel), sel.list # <<>>,
         \A i, j \in DOMAIN sel.list : sel.list[i] = sel.list[j] => i = j
  PROVE  LET node == sel.list[sel.pos]
             all  == {sel.list[i] : i \in DOMAIN sel.list}
         IN /\ node \in all \ ServedBy(sel)
            /\ ServedBy(Advance(sel)) = IF ServedBy(sel) \cup {node} = all THEN {}
                                        ELSE ServedBy(sel) \cup {node}
<1>1. PICK list \in Seq(Nodes), first \in Nat, pos \in Nat :
        sel = [list |-> list, first |-> first, pos |-> pos]
  BY DEF IsSelector
<1> DEFINE n == Len(list)
           T(i) == Turn(first, n, i)
           node == list[pos]
           all  == {list[i] : i \in 1..n}
           next1 == (pos % n) + 1
<1>2. /\ n \in Nat \ {0} /\ DOMAIN list = 1..n /\ first \in 1..n /\ pos \in 1..n
      /\ \A i, j \in 1..n : list[i] = list[j] => i = j
  BY <1>1 DEF IsSelector
<1>3. Advance(sel) = [list |-> list, first |-> first, pos |-> next1]
  BY <1>1 DEF Advance
<1>4. ServedBy(sel) = {list[i] : i \in {j \in 1..n : T(j) < T(pos)}}
  BY <1>1, <1>2 DEF ServedBy, Turn
<1>5. ServedBy(Advance(sel)) = {list[i] : i \in {j \in 1..n : T(j) < T(next1)}}
  BY <1>2, <1>3 DEF ServedBy, Turn
<1>6. /\ \A i \in 1..n : T(i) \in 0..(n - 1)
      /\ \A i, j \in 1..n : T(i) = T(j) => i = j
      /\ T(next1) = IF T(pos) = n - 1 THEN 0 ELSE T(pos) + 1
      /\ \E i \in 1..n : T(i) = n - 1
  <2>1. n \in Nat \ {0} /\ first \in 1..n /\ pos \in 1..n
    BY <1>2
  <2> HIDE DEF n
  <2>2. /\ \A i \in 1..n : T(i) \in 0..(n - 1)
        /\ \A i, j \in 1..n : T(i) = T(j) => i = j
    BY <2>1, Turns
  <2>3. T(next1) = IF T(pos) = n - 1 THEN 0 ELSE T(pos) + 1
    BY <2>1, Turns
  <2>4. \E i \in 1..n : T(i) = n - 1
    BY <2>1, Turns
  <2> QED
    BY <2>2, <2>3, <2>4
<1> HIDE DEF n, T, next1
<1>7. node \in all /\ node \notin ServedBy(sel)
  BY <1>2, <1>4, <1>6
<1>8. CASE T(pos) = n - 1
  <2>1. ServedBy(sel) \cup {node} = all
    BY <1>2, <1>4, <1>6, <1>8
  <2>2. ServedBy(Advance(sel)) = {}
    BY <1>2, <1>5, <1>6, <1>8
  <2> QED
    BY <1>1, <1>2, <1>7, <2>1, <2>2
<1>9. CASE T(pos) # n - 1
  <2>1. PICK last \in 1..n : T(last) = n - 1
    BY <1>6
  <2>2. list[last] \notin ServedBy(sel) \cup {node}
    <3>1. last # pos /\ ~ (T(last) < T(pos))
      BY <1>2, <1>6, <1>9, <2>1
    <3> QED
      BY <1>2, <1>4, <3>1
  <2>3. \A i \in 1..n : T(i) < T(next1) <=> T(i) < T(pos) \/ i = pos
    BY <1>2, <1>6, <1>9
  <2>4. ServedBy(Advance(sel)) = ServedBy(sel) \cup {node}
    BY <1>2, <1>4, <1>5, <2>3
  <2>5. ServedBy(sel) \cup {node} # all
    BY <1>2, <2>1, <2>2
  <2>6. sel.list[sel.pos] = node /\ {sel.list[i] : i \in DOMAIN sel.list} = all
    BY <1>1, <1>2
  <2> HIDE DEF node, all
  <2> QED
    BY <1>7, <2>4, <2>5, <2>6
<1> QED
  BY <1>8, <1>9

\* A selector that has handed out nothing is at the start of a round.
LEMMA SelectorStarts ==
  ASSUME NEW list \in Seq(Nodes), NEW sel \in Selectors(list)
  PROVE  ServedBy(sel) = {} /\ sel.list = list
<1>1. PICK i \in IF list = <<>> THEN {1} ELSE DOMAIN list :
        sel = [list |-> list, first |-> i, pos |-> i]
  BY DEF Selectors
<1>2. CASE list = <<>>
  BY <1>1, <1>2 DEF ServedBy
<1>3. CASE list # <<>>
  <2>1. DOMAIN list = 1..Len(list) /\ Len(list) \in Nat \ {0} /\ i \in 1..Len(list)
    BY <1>1, <1>3
  <2> DEFINE n == Len(list)
  <2>2. \A j \in 1..n : ~ (Turn(i, n, j) < Turn(i, n, i))
    <3>1. n \in Nat \ {0} /\ i \in 1..n
      BY <2>1
    <3> HIDE DEF n
    <3>2. Turn(i, n, i) = 0 /\ \A j \in 1..n : Turn(i, n, j) \in 0..(n - 1)
      BY <3>1, Turns
    <3> QED
      BY <3>1, <3>2
  <2> QED
    BY <1>1, <2>1, <2>2 DEF ServedBy, Turn
<1> QED
  BY <1>1, <1>2, <1>3

Lists == {Listed(m) : m \in SUBSET Nodes}

\* What a refresh is going to save is one of these lists, and not the one that is
\* rotated now.
Refreshes(t) ==
  /\ pc[t] = "services" => found[t] \o todo[t] \in Lists
  /\ pc[t] \in {"nodes", "next"} => found[t] \in Lists /\ found[t] # next[Head(queue[t])].list

RotationInv ==
  /\ TypeInv /\ WarmInv /\ SelectorMatchesNodes
  /\ \A s \in Services : next[s].list \in Lists
  /\ \A t \in Threads : Refreshes(t)

LEMMA ListsAreSeqs == Lists \subseteq Seq(Nodes)
BY ListedIsSeq DEF Lists

\* Two lists with the same nodes are the same.
LEMMA ListIsItsNodes ==
  ASSUME NEW k \in Lists, NEW l \in Lists, {k[i] : i \in DOMAIN k} = {l[i] : i \in DOMAIN l}
  PROVE  k = l
<1>1. PICK m1 \in SUBSET Nodes : k = Listed(m1)
  BY DEF Lists
<1>2. PICK m2 \in SUBSET Nodes : l = Listed(m2)
  BY DEF Lists
<1>3. {k[i] : i \in DOMAIN k} = m1 /\ {l[i] : i \in DOMAIN l} = m2
  BY <1>1, <1>2, ListedIsTheSet
<1> QED
  BY <1>1, <1>2, <1>3

LEMMA RotationInit == InitWarm => RotationInv /\ Rotation!Init
<1> SUFFICES ASSUME InitWarm PROVE RotationInv /\ Rotation!Init
  OBVIOUS
<1>1. ASSUME NEW s \in Services PROVE nodes[s] \in Lists /\ next[s] \in Selectors(nodes[s])
  BY DEF InitWarm, ListsOf, Lists
<1>2. ASSUME NEW s \in Services
      PROVE  /\ nodes[s] \in Seq(Nodes) /\ IsSelector(next[s]) /\ next[s].list = nodes[s]
             /\ ServedBy(next[s]) = {}
  BY <1>1, ListsAreSeqs, SelectorsTyped, SelectorStarts
<1>3. DOMAIN nodes = Services /\ DOMAIN next = Services
  BY DEF InitWarm
<1>4. TypeInv
  <2>1. /\ \A s \in DOMAIN nodes : nodes[s] \in Seq(Nodes)
        /\ DOMAIN next \subseteq DOMAIN nodes
        /\ \A s \in DOMAIN next : IsSelector(next[s])
    BY <1>2, <1>3
  <2>2. \A s \in DOMAIN next :
          /\ next[s].list \in Seq(Nodes)
          /\ next[s].list # <<>> => {next[s].first, next[s].pos} \subseteq DOMAIN next[s].list
    BY <2>1 DEF IsSelector
  <2> QED
    BY <1>3, <2>1, <2>2, DirectoryAssumption DEF InitWarm, InitThreads, TypeInv, TypeOK, Labels, Going
<1>5. WarmInv /\ SelectorMatchesNodes
  BY <1>2, <1>3, WarmInit DEF SelectorMatchesNodes
<1>6. RotationInv
  BY <1>1, <1>2, <1>4, <1>5 DEF InitWarm, InitThreads, RotationInv, Refreshes
<1>7. Rotation!Init
  <2>1. \A s \in Services : {next[s].list[i] : i \in DOMAIN next[s].list} \in SUBSET Nodes
    BY <1>2
  <2>2. \A t \in Threads : reply[t] = None /\ None \notin Nodes
    BY DirectoryAssumption DEF InitWarm, InitThreads
  <2> QED
    BY <1>2, <2>1, <2>2 DEF Rotation!Init
<1> QED
  BY <1>6, <1>7

\* While a thread refreshes, no other one does or selects.
LEMMA OthersAside ==
  ASSUME RotationInv, NEW t \in Threads, NEW u \in Threads, u # t, Calls(t) \/ Step(t),
         pc[u] \in {"services", "nodes", "next"}
  PROVE  pc[t] \in {"idle", "lock", "rlock"} /\ UNCHANGED <<nodes, next>>
<1>1. writer = u /\ readers = {}
  BY DEF RotationInv, WarmInv, Placed, LockInv, WriterAlone, Refreshing
<1>2. pc[t] \in {"idle", "lock", "rlock"}
  BY <1>1 DEF RotationInv, WarmInv, Placed, LockInv, Refreshing, Labels
<1> QED
  BY <1>2 DEF Calls, Step, ChangeAllServiceNodes, GetNextServiceNode, Lock, Drained, RLock,
     QueryChecks, QueryService, QueryFails, KeepNodes, ReplaceNodes, SetNodes, SetNext,
     LookupFails, LookupMisses, LookupFinds, Select, SelectPanics, ReturnRefresh, ReturnUnavailable

\* A refresh's own steps.
LEMMA OwnRefresh ==
  ASSUME RotationInv, NEW t \in Threads, Calls(t) \/ Step(t)
  PROVE  Refreshes(t)'
<1> USE DEF lockVars, localVars
<1>0. /\ pc \in [Threads -> Labels] /\ found \in [Threads -> Seq(Nodes)]
      /\ todo \in [Threads -> Seq(Nodes)] /\ queue \in [Threads -> Seq(Services)]
  BY DEF RotationInv, TypeInv, TypeOK
<1>1. CASE QueryChecks(t)
  <2>1. Passing(Head(queue[t])) \in Lists
    BY DEF Passing, Lists
  <2>2. <<>> \o Passing(Head(queue[t])) = Passing(Head(queue[t]))
    BY <2>1, ListsAreSeqs, ConcatEmptySeq
  <2>3. pc'[t] = "services" /\ found'[t] = <<>> /\ todo'[t] = Passing(Head(queue[t]))
    BY <1>0, <1>1 DEF QueryChecks, Goto
  <2> QED
    BY <2>1, <2>2, <2>3 DEF Refreshes
<1>2. CASE QueryService(t)
  <2>1. found'[t] \o todo'[t] = found[t] \o todo[t]
    <3>1. found'[t] = Append(found[t], Head(todo[t])) /\ todo'[t] = Tail(todo[t])
          /\ todo[t] # <<>>
      BY <1>0, <1>2 DEF QueryService
    <3> QED
      BY <1>0, <3>1, Resolved
  <2>2. pc'[t] = "services" /\ pc[t] = "services"
    BY <1>2 DEF QueryService
  <2> QED
    BY <2>1, <2>2 DEF RotationInv, Refreshes
<1>3. CASE ReplaceNodes(t)
  <2> DEFINE s == Head(queue[t])
  <2>1. /\ pc[t] = "services" /\ todo[t] = <<>> /\ Entry(s) # found[t]
        /\ pc'[t] = "nodes" /\ UNCHANGED <<found, todo, next, queue>>
    BY <1>0, <1>3 DEF ReplaceNodes, Differs, Goto
  <2>2. s \in Services
    BY <1>0, <2>1 DEF RotationInv, WarmInv, Placed
  <2>3. found[t] \o <<>> = found[t]
    BY <1>0, ConcatEmptySeq
  <2>4. found[t] \in Lists
    BY <2>1, <2>3 DEF RotationInv, Refreshes
  <2>5. \A u \in Threads : pc[u] # "next"
    BY <2>1 DEF RotationInv, WarmInv, Placed, Refreshing
  <2>6. next[s].list = nodes[s] /\ Entry(s) = nodes[s]
    BY <2>2, <2>5 DEF RotationInv, WarmInv, SelectorMatchesNodes, Entry
  <2> QED
    BY <2>1, <2>4, <2>6 DEF Refreshes
<1>4. CASE SetNodes(t)
  BY <1>0, <1>4 DEF SetNodes, Goto, RotationInv, Refreshes
<1>5. ASSUME pc'[t] \notin {"services", "nodes", "next"} PROVE Refreshes(t)'
  BY <1>5 DEF Refreshes
<1>6. CASE QueryFails(t) \/ KeepNodes(t) \/ SetNext(t)
  BY <1>0, <1>5, <1>6 DEF QueryFails, KeepNodes, SetNext, ServiceDone, Goto
<1>7. CASE LookupFails(t) \/ Select(t) \/ SelectPanics(t) \/ ReturnUnavailable(t)
  <2>1. RUnlock(t)
    BY <1>7 DEF LookupFails, Select, SelectPanics, ReturnUnavailable
  <2> QED
    BY <1>0, <1>5, <2>1 DEF RUnlock, Goto
<1>8. CASE ReturnRefresh(t)
  BY <1>0, <1>5, <1>8 DEF ReturnRefresh, Unlock
<1>9. CASE Calls(t) \/ Lock(t) \/ Drained(t) \/ RLock(t) \/ LookupMisses(t) \/ LookupFinds(t)
  BY <1>0, <1>5, <1>9 DEF Calls, ChangeAllServiceNodes, GetNextServiceNode, Lock, Drained, RLock,
     LookupMisses, LookupFinds, Goto
<1> QED
  BY <1>1, <1>2, <1>3, <1>4, <1>6, <1>7, <1>8, <1>9 DEF Step

\* The selectors change by a turn or a new list only.
LEMMA SelectorsChange ==
  ASSUME RotationInv, [Next]_vars
  PROVE  \/ next' = next
         \/ \E t \in Threads : Select(t)
         \/ \E t \in Threads : SetNext(t)
<1>1. ~ ProcessDies
  BY WarmStep DEF RotationInv
<1>2. ASSUME NEW t \in Threads, Calls(t) \/ Step(t), ~ Select(t), ~ SetNext(t) PROVE next' = next
  BY <1>2 DEF Calls, Step, ChangeAllServiceNodes, GetNextServiceNode, Lock, Drained, RLock,
     QueryChecks, QueryService, QueryFails, KeepNodes, ReplaceNodes, SetNodes,
     LookupFails, LookupMisses, LookupFinds, SelectPanics, ReturnRefresh, ReturnUnavailable
<1>3. ConsulChanges \/ UNCHANGED vars => next' = next
  BY DEF ConsulChanges, vars
<1> QED
  BY <1>1, <1>2, <1>3 DEF Next

\* A new selector is over a list that was resolved, for the service of the refresh.
LEMMA NewSelector ==
  ASSUME RotationInv, NEW t \in Threads, SetNext(t)
  PROVE  /\ Head(queue[t]) \in Services /\ found[t] \in Lists
         /\ found[t] # next[Head(queue[t])].list /\ reply' = reply
         /\ \E sel \in Selectors(found[t]) : next' = [next EXCEPT ![Head(queue[t])] = sel]
<1>1. queue[t] \in Seq(Services) /\ queue[t] # <<>>
  BY DEF SetNext, RotationInv, WarmInv, Placed
<1>2. Head(queue[t]) \in Services
  BY <1>1
<1>3. PICK sel \in Selectors(found[t]) : next' = Put(next, Head(queue[t]), sel)
  BY DEF SetNext
<1>4. next' = [next EXCEPT ![Head(queue[t])] = sel]
  BY <1>2, <1>3 DEF Put, RotationInv, TypeInv, WarmInv, LockInv
<1> QED
  BY <1>2, <1>4 DEF SetNext, RotationInv, Refreshes

\* A selection advances the selector of its service.
LEMMA Selection ==
  ASSUME RotationInv, NEW t \in Threads, Select(t)
  PROVE  LET sel == next[svc[t]]
         IN /\ svc[t] \in Services /\ IsSelector(sel) /\ sel.list \in Lists
            /\ \/ sel.list = <<>> /\ next' = next /\ reply' = [reply EXCEPT ![t] = "ErrSelector"]
               \/ /\ sel.list # <<>>
                  /\ next' = [next EXCEPT ![svc[t]] = Advance(sel)]
                  /\ reply' = [reply EXCEPT ![t] = sel.list[sel.pos]]
BY DEF Select, Answer, RotationInv, WarmInv, TypeInv

LEMMA RotationStep == RotationInv /\ [Next]_vars => RotationInv'
<1> SUFFICES ASSUME RotationInv, [Next]_vars PROVE RotationInv'
  OBVIOUS
<1>1. TypeInv' /\ WarmInv' /\ SelectorMatchesNodes' /\ ~ ProcessDies
  BY TypeStep, WarmStep, MatchStep DEF RotationInv
<1>2. ASSUME NEW s \in Services PROVE next'[s].list \in Lists
  <2>1. CASE next' = next
    BY <2>1 DEF RotationInv
  <2>2. ASSUME NEW t \in Threads, Select(t) PROVE next'[s].list \in Lists
    <3>1. \A r \in Services : next'[r] = next[r] \/ next'[r].list = next[r].list
      <4>1. IsSelector(next[svc[t]])
        BY <2>2, Selection
      <4>2. next[svc[t]].list # <<>> => Advance(next[svc[t]]).list = next[svc[t]].list
        BY <4>1, AdvanceTyped
      <4> QED
        BY <2>2, <4>2, Selection DEF RotationInv, WarmInv
    <3> QED
      BY <3>1 DEF RotationInv
  <2>3. ASSUME NEW t \in Threads, SetNext(t) PROVE next'[s].list \in Lists
    <3>1. PICK sel \in Selectors(found[t]) : next' = [next EXCEPT ![Head(queue[t])] = sel]
      BY <2>3, NewSelector
    <3>2. sel.list = found[t] /\ found[t] \in Lists
      BY <2>3, <3>1, NewSelector DEF Selectors
    <3> QED
      BY <3>1, <3>2 DEF RotationInv, WarmInv
  <2> QED
    BY <2>1, <2>2, <2>3, SelectorsChange
<1>3. ASSUME NEW u \in Threads PROVE Refreshes(u)'
  <2>1. ASSUME NEW t \in Threads, Calls(t) \/ Step(t), u # t PROVE Refreshes(u)'
    <3>1. Untouched(u) /\ (pc'[u] = pc[u] \/ (pc[u] = "rlock" /\ pc'[u] = "lookup"))
      BY <2>1, Frame DEF RotationInv
    <3>2. CASE pc[u] \in {"services", "nodes", "next"}
      <4>1. next' = next
        BY <2>1, <3>2, OthersAside
      <4> QED
        BY <3>1, <3>2, <4>1 DEF Untouched, RotationInv, Refreshes
    <3>3. CASE pc[u] \notin {"services", "nodes", "next"}
      BY <3>1, <3>3 DEF Refreshes
    <3> QED
      BY <3>2, <3>3
  <2>2. CASE ConsulChanges \/ UNCHANGED vars
    <3>1. UNCHANGED <<next, pc, queue, todo, found>>
      BY <2>2 DEF ConsulChanges, vars, lockVars, localVars
    <3> QED
      BY <3>1 DEF RotationInv, Refreshes
  <2> QED
    BY <1>1, <2>1, <2>2, OwnRefresh DEF Next
<1> QED
  BY <1>1, <1>2, <1>3 DEF RotationInv

\* An answer that is no node gives nobody a node.
LEMMA Asked ==
  ASSUME RotationInv, NEW t \in Threads, NEW r \in Errors \cup Refreshed \cup {None},
         next' = next, reply' = [reply EXCEPT ![t] = r]
  PROVE  Rotation!Ask(t)
<1>1. r \notin Nodes
  BY DirectoryAssumption
<1>2. reply \in [Threads -> Nodes \cup Errors \cup Refreshed \cup {None}]
  BY DEF RotationInv, TypeInv, TypeOK
<1>3. [u \in Threads |-> IF reply'[u] \in Nodes THEN reply'[u] ELSE None]
        = [[u \in Threads |-> IF reply[u] \in Nodes THEN reply[u] ELSE None] EXCEPT ![t] = None]
  BY <1>1, <1>2
<1> QED
  BY <1>3 DEF Rotation!Ask

\* The steps that leave the selectors alone give nobody a node.
LEMMA OthersAsk ==
  ASSUME RotationInv, NEW t \in Threads, Calls(t) \/ Step(t), ~ Select(t), ~ SetNext(t)
  PROVE  Rotation!Ask(t) \/ UNCHANGED Rotation!vars
<1>1. CASE Calls(t) \/ LookupFails(t) \/ SelectPanics(t) \/ ReturnRefresh(t) \/ ReturnUnavailable(t)
  <2>1. next' = next
    BY <1>1 DEF Calls, ChangeAllServiceNodes, GetNextServiceNode, LookupFails, SelectPanics,
       ReturnRefresh, ReturnUnavailable
  <2>2. \E r \in Errors \cup Refreshed \cup {None} : reply' = [reply EXCEPT ![t] = r]
    BY <1>1 DEF Calls, ChangeAllServiceNodes, GetNextServiceNode, LookupFails, SelectPanics,
       ReturnRefresh, ReturnUnavailable, Answer, Errors, Refreshed
  <2> QED
    BY <2>1, <2>2, Asked
<1>2. CASE ~ (Calls(t) \/ LookupFails(t) \/ SelectPanics(t) \/ ReturnRefresh(t) \/ ReturnUnavailable(t))
  <2>1. next' = next /\ reply' = reply
    BY <1>2 DEF Step, Lock, Drained, RLock, QueryChecks, QueryService, QueryFails, KeepNodes,
       ReplaceNodes, SetNodes, LookupMisses, LookupFinds
  <2> QED
    BY <2>1 DEF Rotation!vars
<1> QED
  BY <1>1, <1>2

\* A selection is a turn, or an answer without a node.
LEMMA SelectGives ==
  ASSUME RotationInv, NEW t \in Threads, Select(t)
  PROVE  \E s \in Services : Rotation!Give(s, t) \/ Rotation!Ask(t)
<1> DEFINE s == svc[t]
           sel == next[s]
           node == sel.list[sel.pos]
           all  == {sel.list[i] : i \in DOMAIN sel.list}
<1>1. s \in Services /\ IsSelector(sel) /\ sel.list \in Lists
  BY Selection
<1>2. CASE sel.list = <<>>
  <2>1. next' = next /\ reply' = [reply EXCEPT ![t] = "ErrSelector"]
    BY <1>2, Selection
  <2> QED
    BY <1>1, <2>1, Asked DEF Errors
<1>3. CASE sel.list # <<>>
  <2>1. /\ next' = [next EXCEPT ![s] = Advance(sel)]
        /\ reply' = [reply EXCEPT ![t] = node]
    BY <1>3, Selection
  <2>2. \A i, j \in DOMAIN sel.list : sel.list[i] = sel.list[j] => i = j
    BY <1>1, ListedIsTheSet DEF Lists
  <2>3. /\ node \in all \ ServedBy(sel)
        /\ ServedBy(Advance(sel)) = IF ServedBy(sel) \cup {node} = all THEN {}
                                    ELSE ServedBy(sel) \cup {node}
    BY <1>1, <1>3, <2>2, SelectorRotates
  <2>4. Advance(sel).list = sel.list /\ all \subseteq Nodes
    BY <1>1, <1>3, AdvanceTyped DEF IsSelector
  <2>5. /\ DOMAIN next = Services /\ next'[s] = Advance(sel)
        /\ \A r \in Services \ {s} : next'[r] = next[r]
    BY <1>1, <2>1 DEF RotationInv, WarmInv
  <2>6. [r \in Services |-> {next'[r].list[i] : i \in DOMAIN next'[r].list}]
          = [r \in Services |-> {next[r].list[i] : i \in DOMAIN next[r].list}]
    <3>1. \A r \in Services : next'[r].list = next[r].list
      BY <2>4, <2>5
    <3> QED
      BY <3>1
  <2>7. [r \in Services |-> ServedBy(next'[r])]
          = [[r \in Services |-> ServedBy(next[r])] EXCEPT ![s] =
               IF ServedBy(sel) \cup {node} = all THEN {} ELSE ServedBy(sel) \cup {node}]
    BY <1>1, <2>3, <2>5
  <2>8. [u \in Threads |-> IF reply'[u] \in Nodes THEN reply'[u] ELSE None]
          = [[u \in Threads |-> IF reply[u] \in Nodes THEN reply[u] ELSE None] EXCEPT ![t] = node]
    <3>1. reply \in [Threads -> Nodes \cup Errors \cup Refreshed \cup {None}] /\ node \in Nodes
      BY <2>3, <2>4 DEF RotationInv, TypeInv, TypeOK
    <3> QED
      BY <2>1, <3>1
  <2>9. Rotation!Give(s, t)
    BY <1>1, <2>3, <2>6, <2>7, <2>8 DEF Rotation!Give
  <2> QED
    BY <1>1, <2>9
<1> QED
  BY <1>2, <1>3

\* A new selector is a change of the service's nodes.
LEMMA SetNextChanges ==
  ASSUME RotationInv, NEW t \in Threads, SetNext(t)
  PROVE  \E s \in Services : Rotation!ChangeMembers(s)
<1> DEFINE l == found[t]
           all == {l[i] : i \in DOMAIN l}
<1>0. PICK s \in Services : s = Head(queue[t])
  BY NewSelector
<1>1. s \in Services /\ l \in Lists /\ l # next[s].list /\ reply' = reply
  BY <1>0, NewSelector
<1>2. PICK sel \in Selectors(l) : next' = [next EXCEPT ![s] = sel]
  BY <1>0, NewSelector
<1>3. sel.list = l /\ ServedBy(sel) = {}
  BY <1>1, ListsAreSeqs, SelectorStarts
<1>4. /\ DOMAIN next = Services /\ next'[s] = sel
      /\ \A r \in Services \ {s} : next'[r] = next[r]
  BY <1>1, <1>2 DEF RotationInv, WarmInv
<1>5. all # {next[s].list[i] : i \in DOMAIN next[s].list}
  BY <1>1, ListIsItsNodes DEF RotationInv
<1>6. all \in SUBSET Nodes
  BY <1>1, ListsAreSeqs
<1>7. [r \in Services |-> {next'[r].list[i] : i \in DOMAIN next'[r].list}]
        = [[r \in Services |-> {next[r].list[i] : i \in DOMAIN next[r].list}] EXCEPT ![s] = all]
  <2> HIDE DEF l, all
  <2>1. {next'[s].list[i] : i \in DOMAIN next'[s].list} = all
    BY <1>3, <1>4 DEF all
  <2>2. \A r \in Services \ {s} : {next'[r].list[i] : i \in DOMAIN next'[r].list}
                                    = {next[r].list[i] : i \in DOMAIN next[r].list}
    BY <1>4
  <2> QED
    BY <1>1, <2>1, <2>2
<1>8. [r \in Services |-> ServedBy(next'[r])]
        = [[r \in Services |-> ServedBy(next[r])] EXCEPT ![s] = {}]
  BY <1>1, <1>3, <1>4
<1>9. Rotation!ChangeMembers(s)
  BY <1>1, <1>5, <1>6, <1>7, <1>8 DEF Rotation!ChangeMembers
<1> QED
  BY <1>1, <1>9

LEMMA RotationMaps == RotationInv /\ [Next]_vars => [Rotation!Next]_(Rotation!vars)
<1> SUFFICES ASSUME RotationInv, [Next]_vars PROVE Rotation!Next \/ UNCHANGED Rotation!vars
  OBVIOUS
<1>1. ~ ProcessDies
  BY WarmStep DEF RotationInv
<1>2. ASSUME NEW t \in Threads, Select(t) PROVE Rotation!Next
  BY <1>2, SelectGives DEF Rotation!Next
<1>3. ASSUME NEW t \in Threads, SetNext(t) PROVE Rotation!Next
  BY <1>3, SetNextChanges DEF Rotation!Next
<1>4. ASSUME NEW t \in Threads, Calls(t) \/ Step(t), ~ Select(t), ~ SetNext(t)
      PROVE  Rotation!Next \/ UNCHANGED Rotation!vars
  BY <1>4, OthersAsk DEF Rotation!Next
<1>5. CASE ConsulChanges \/ UNCHANGED vars
  BY <1>5 DEF ConsulChanges, vars, Rotation!vars
<1> QED
  BY <1>1, <1>2, <1>3, <1>4, <1>5 DEF Next

\* Once every service has an entry, GetNextServiceNode hands out a service's nodes
\* in rounds, every node once per round whoever asks, until the list changes.
THEOREM DirectoryRotates == SpecWarm => ImplementsFairRotation
<1>1. InitWarm => RotationInv /\ Rotation!Init
  BY RotationInit
<1>2. RotationInv /\ [Next]_vars => RotationInv'
  BY RotationStep
<1>3. RotationInv /\ [Next]_vars => [Rotation!Next]_(Rotation!vars)
  BY RotationMaps
<1> QED
  BY <1>1, <1>2, <1>3, PTL DEF SpecWarm, ImplementsFairRotation, Rotation!Spec
===============================================================================
