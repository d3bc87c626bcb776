--------------------------- MODULE AliasingProofs ---------------------------
(***************************************************************************)
(* Theorems about Aliasing, for every number of decisions, joins, layers   *)
(* and selectors.  IInv is the inductive strengthening of its invariants.  *)
(***************************************************************************)
EXTENDS Aliasing, SequenceTheorems, FiniteSetTheorems, TLAPS

Joining  == pc = "join" \/ (pc = "find" /\ ask # "column")
InLoop   == pc = "columns" \/ (pc = "find" /\ ask = "column")

\* The decision whose root the running find looks for.
Sought ==
    IF ask = "column" THEN next
    ELSE IF ask \in {"owns x", "root x", "a"} THEN x ELSE y

\* The forest and the classes agree.
Forest ==
    \A d \in Below(count) :
        /\ parent[d] <= d
        /\ leader[d] <= d
        /\ leader[parent[d]] = leader[d]
        /\ leader[leader[d]] = leader[d]
        /\ parent[d] = d => leader[d] = d

\* find stays in the class of its argument.
Finding ==
    pc = "find" =>
        /\ cur \in Below(count)
        /\ Sought \in Below(count)
        /\ leader[cur] = leader[Sought]
        /\ ask # "none"
        /\ ask # "column" => x \in Below(count) /\ y \in Below(count)
        /\ ask \in {"root y", "b"} =>
              rx \in Below(count) /\ leader[x] = rx /\ leader[rx] = rx
        /\ ask \in {"a", "b"} =>
              \/ leader[x] = leader[y]
              \/ column[leader[x]] < 0
              \/ column[leader[y]] < 0

\* The decisions whose column is final.
Settled ==
    IF pc = "idle" THEN count
    ELSE IF Joining THEN first
    ELSE IF InLoop THEN next ELSE 0

\* Final columns are in range and in the order of the classes.
Numbered ==
    /\ Settled <= count
    /\ \A d \in Below(Settled) : 0 <= column[d] /\ column[d] < columns + created
    /\ \A d, e \in Below(Settled) : leader[d] < leader[e] <=> column[d] < column[e]

\* While pass 1 runs, the decisions with a column are a prefix of all.
OwnedPrefix ==
    Joining =>
        /\ \A d \in Below(count) : column[d] < columns
        /\ \A d, e \in Below(count) : d < e /\ column[e] >= 0 => column[d] >= 0

\* The column loop has not touched what is at or above its index.
LoopOrder ==
    /\ InLoop => first <= next /\ (\A d \in Below(count) : next <= d => column[d] < columns)
    /\ ~InLoop => created = 0
    /\ ~extending /\ (Joining \/ InLoop) => columns = 0

\* Layer ends are ordered, and those kept lie below what is being built.
Ends ==
    /\ \A k \in 1 .. Len(layerEnd) :
        /\ layerEnd[k].decisions <= IF Joining \/ InLoop THEN first ELSE count
        /\ layerEnd[k].columns <= columns
        /\ \A d \in Below(layerEnd[k].decisions) : column[d] \in Below(layerEnd[k].columns)
    /\ \A j, k \in 1 .. Len(layerEnd) :
        j <= k => /\ layerEnd[j].decisions <= layerEnd[k].decisions
                  /\ layerEnd[j].columns <= layerEnd[k].columns

IInv ==
    /\ TypeOK
    /\ Forest
    /\ Finding
    /\ Numbered
    /\ OwnedPrefix
    /\ LoopOrder
    /\ Ends

-----------------------------------------------------------------------------

\* A model that has built nothing satisfies the invariant.
LEMMA InitInv == ASSUME Init PROVE IInv
<1> USE DEF Init
<1>1. Below(0) = {}
  BY DEF Below
<1>2. /\ parent \in [Below(count) -> Below(count)]
      /\ leader \in [Below(count) -> Below(count)]
      /\ column \in [Below(count) -> Nat \cup {-1}]
  BY <1>1 DEF Empty
<1>3. layerEnd \in Seq([decisions : Nat, columns : Nat]) /\ Len(layerEnd) = 0
  OBVIOUS
<1>4. TypeOK
  <2>1. extending \in BOOLEAN /\ fallback \in BOOLEAN
    BY Zenon
  <2>2. /\ count \in 0 .. MaxDecisions /\ columns \in Nat /\ first \in Nat
        /\ todo \in 0 .. MaxJoins
        /\ x \in Nat /\ y \in Nat /\ rx \in Nat /\ cur \in Nat
        /\ next \in Nat /\ created \in Nat
    BY BoundsAssumption DEF BoundsAssumption
  <2>3. pc \in Pcs /\ ask \in Questions \cup {"none"}
    BY DEF Pcs, Questions
  <2> HIDE DEF Init
  <2> QED BY <1>2, <1>3, <2>1, <2>2, <2>3 DEF TypeOK
<1>5. Forest /\ Numbered /\ OwnedPrefix /\ LoopOrder
  BY <1>1 DEF Forest, Numbered, OwnedPrefix, LoopOrder, Settled, Joining, InLoop
<1>6. Finding /\ Ends
  BY <1>1, <1>3 DEF Finding, Ends
<1> QED BY <1>4, <1>5, <1>6 DEF IInv

\* The root find stops at is the leader of the class, and a decision's leader
\* is the root of a class of its own.
LEMMA FoundLeader ==
    ASSUME TypeOK, Forest, Finding, pc = "find", parent[cur] = cur
    PROVE  /\ cur \in Below(count)
           /\ leader[cur] = cur
           /\ leader[Sought] = cur
BY DEF TypeOK, Forest, Finding

\* The types of the variables the column loop works on, one fact at a time.
LEMMA Types ==
    ASSUME TypeOK, NEW d \in Below(count)
    PROVE  /\ d \in Nat /\ d < count /\ count \in Nat
           /\ parent[d] \in Below(count) /\ parent[d] \in Nat
           /\ leader[d] \in Below(count) /\ leader[d] \in Nat
           /\ column[d] \in Int /\ (column[d] < 0 => column[d] = -1)
<1>1. column[d] \in Nat \cup {-1}
  BY DEF TypeOK
<1>2. count \in Nat
  BY BoundsAssumption DEF TypeOK, BoundsAssumption
<1>3. parent[d] \in Below(count) /\ leader[d] \in Below(count)
  BY DEF TypeOK
<1> QED BY <1>1, <1>2, <1>3 DEF Below

\* A kept layer end is a pair of naturals.
LEMMA EndTypes ==
    ASSUME TypeOK, NEW k \in 1 .. Len(layerEnd)
    PROVE  /\ layerEnd[k] \in [decisions : Nat, columns : Nat]
           /\ layerEnd[k].decisions \in Nat /\ layerEnd[k].columns \in Nat
           /\ Len(layerEnd) \in Nat
<1>1. layerEnd \in Seq([decisions : Nat, columns : Nat])
  BY DEF TypeOK
<1>2. layerEnd[k] \in [decisions : Nat, columns : Nat]
  BY <1>1, ElementOfSeq
<1>3. Len(layerEnd) \in Nat
  BY <1>1, LenProperties
<1> QED BY <1>2, <1>3

\* Path halving moves up the forest and keeps every decision in its class.
LEMMA HalveInv == ASSUME IInv, Halve PROVE IInv'
<1> USE DEF Halve, vars, model, args, join, finds, loop
<1>1. TypeOK'
  <2>1. cur \in Below(count) /\ parent \in [Below(count) -> Below(count)]
    BY DEF IInv, TypeOK, Finding
  <2>2. parent' \in [Below(count) -> Below(count)]
    BY <2>1
  <2>3. cur' \in Nat
    BY <2>1, <2>2 DEF Below
  <2> QED BY <2>2, <2>3 DEF IInv, TypeOK
<1>2. Forest'
  <2> SUFFICES ASSUME NEW d \in Below(count)
               PROVE  /\ parent'[d] <= d
                      /\ leader[parent'[d]] = leader[d]
                      /\ parent'[d] = d => leader[d] = d
    BY DEF IInv, Forest
  <2>1. parent[d] \in Below(count) /\ parent[parent[d]] \in Below(count)
    BY DEF IInv, TypeOK
  <2>2. parent'[d] = IF d = cur THEN parent[parent[d]] ELSE parent[d]
    BY DEF IInv, TypeOK, Finding
  <2> QED BY <2>1, <2>2 DEF IInv, Forest, Below
<1>3. Finding'
  <2>1. cur' \in Below(count) /\ leader[cur'] = leader[cur]
    BY DEF IInv, TypeOK, Finding, Forest
  <2> QED BY <2>1 DEF IInv, Finding, Sought
<1>4. (Numbered /\ OwnedPrefix /\ LoopOrder /\ Ends)'
  BY DEF IInv, Numbered, OwnedPrefix, LoopOrder, Ends, Settled, Joining, InLoop
<1> QED BY <1>1, <1>2, <1>3, <1>4 DEF IInv

\* A step inside pass 1 that changes neither the model nor the arguments keeps
\* everything but what find knows.
LEMMA JoiningStep ==
    ASSUME IInv, Joining, Joining', UNCHANGED <<model, args, loop>>
    PROVE  Forest' /\ (Numbered /\ OwnedPrefix /\ LoopOrder /\ Ends)'
<1> USE DEF model, args, loop
<1>1. pc # "idle" /\ pc' # "idle"
  BY DEF Joining
<1>2. ~InLoop /\ ~InLoop'
  BY DEF Joining, InLoop
<1>3. Forest'
  BY DEF IInv, Forest
<1>4. Numbered'
  BY <1>1 DEF IInv, Numbered, Settled
<1>5. (OwnedPrefix /\ LoopOrder /\ Ends)'
  BY <1>2 DEF IInv, OwnedPrefix, LoopOrder, Ends
<1> QED BY <1>3, <1>4, <1>5

\* Reading a joining constraint starts a find of its first decision.
LEMMA ReadJoinInv == ASSUME IInv, ReadJoin PROVE IInv'
<1>1. /\ ask' = "owns x" \/ (ask' = "a" /\ ~extending)
      /\ cur' = x' /\ pc' = "find" /\ pc = "join"
      /\ x' \in Below(count) /\ y' \in Below(count)
      /\ UNCHANGED <<model, args, rx, loop>>
  BY Zenon DEF ReadJoin, Find
<1>2. todo' \in 0 .. MaxJoins
  <2>1. todo \in 0 .. MaxJoins
    BY DEF IInv, TypeOK
  <2>2. todo > 0 /\ todo' = todo - 1
    BY DEF ReadJoin
  <2> QED BY <2>1, <2>2, BoundsAssumption DEF BoundsAssumption
<1>3. x' \in Nat /\ y' \in Nat /\ cur' \in Nat
  BY <1>1, Types DEF IInv
<1>4. TypeOK'
  BY <1>1, <1>2, <1>3 DEF IInv, TypeOK, model, args, loop, Pcs, Questions
<1>5. ASSUME ~extending, NEW d \in Below(count) PROVE column[d] < 0
  BY <1>1, <1>5, Types DEF IInv, OwnedPrefix, LoopOrder, Joining
<1>6. Finding'
  <2>1. leader[x'] \in Below(count)
    BY <1>1 DEF IInv, TypeOK
  <2> QED BY <1>1, <1>5, <2>1 DEF Finding, Sought, model
<1>7. Joining /\ Joining'
  BY <1>1 DEF Joining
<1> QED BY <1>1, <1>4, <1>6, <1>7, JoiningStep DEF IInv

\* The first answer of the check on two columns.
LEMMA OwnsXInv == ASSUME IInv, OwnsX PROVE IInv'
<1>1. /\ pc = "find" /\ ask = "owns x" /\ parent[cur] = cur
      /\ pc' = "find"
      /\ UNCHANGED <<model, args, todo, join, loop>>
      /\ \/ column[cur] >= 0 /\ ask' = "owns y" /\ cur' = y
         \/ ~(column[cur] >= 0) /\ ask' = "a" /\ cur' = x
  BY Zenon DEF OwnsX, Found, Find
<1>2. /\ x \in Below(count) /\ y \in Below(count)
      /\ leader[x] = cur /\ cur \in Below(count)
  BY <1>1, FoundLeader DEF IInv, Finding, Sought
<1>3. TypeOK'
  BY <1>1, <1>2, Types DEF IInv, TypeOK, model, args, join, loop, Pcs, Questions
<1>4. column[cur] >= 0 \/ column[cur] < 0
  BY <1>2, Types DEF IInv
<1>5. Finding'
  BY <1>1, <1>2, <1>4 DEF Finding, Sought, model, join
<1>6. Joining /\ Joining'
  BY <1>1 DEF Joining
<1> QED BY <1>1, <1>3, <1>5, <1>6, JoiningStep DEF IInv

\* The second answer of the check on two columns.
LEMMA OwnsYInv == ASSUME IInv, OwnsY PROVE IInv'
<1>1. /\ pc = "find" /\ ask = "owns y" /\ parent[cur] = cur
      /\ pc' = "find"
      /\ UNCHANGED <<model, args, todo, join, loop>>
      /\ \/ column[cur] >= 0 /\ ask' = "root x" /\ cur' = x
         \/ ~(column[cur] >= 0) /\ ask' = "a" /\ cur' = x
  BY Zenon DEF OwnsY, Found, Find
<1>2. /\ x \in Below(count) /\ y \in Below(count)
      /\ leader[y] = cur /\ cur \in Below(count)
  BY <1>1, FoundLeader DEF IInv, Finding, Sought
<1>3. TypeOK'
  BY <1>1, <1>2, Types DEF IInv, TypeOK, model, args, join, loop, Pcs, Questions
<1>4. column[cur] >= 0 \/ column[cur] < 0
  BY <1>2, Types DEF IInv
<1>5. Finding'
  BY <1>1, <1>2, <1>4 DEF Finding, Sought, model, join
<1>6. Joining /\ Joining'
  BY <1>1 DEF Joining
<1> QED BY <1>1, <1>3, <1>5, <1>6, JoiningStep DEF IInv

\* The check remembers the first root.
LEMMA RootXInv == ASSUME IInv, RootX PROVE IInv'
<1> USE DEF RootX, Found, Find
<1>1. Joining /\ Joining' /\ UNCHANGED <<model, args, loop>>
  BY DEF Joining
<1>2. TypeOK'
  BY DEF IInv, TypeOK, Finding, model, args, join, loop, Pcs, Questions, Below
<1>3. Finding'
  BY FoundLeader DEF Finding, Sought, IInv, TypeOK, model
<1> QED BY <1>1, <1>2, <1>3, JoiningStep DEF IInv

\* Two decisions of one class go on to be united.
LEMMA SameRootInv == ASSUME IInv, SameRoot PROVE IInv'
<1> USE DEF SameRoot, Found, Find
<1>1. Joining /\ Joining' /\ UNCHANGED <<model, args, loop>>
  BY DEF Joining
<1>2. TypeOK'
  BY DEF IInv, TypeOK, Finding, model, args, join, loop, Pcs, Questions, Below
<1>3. Finding'
  BY FoundLeader DEF Finding, Sought, IInv, TypeOK, model, join
<1> QED BY <1>1, <1>2, <1>3, JoiningStep DEF IInv

\* unite remembers the first root.
LEMMA UniteAInv == ASSUME IInv, UniteA PROVE IInv'
<1> USE DEF UniteA, Found, Find
<1>1. Joining /\ Joining' /\ UNCHANGED <<model, args, loop>>
  BY DEF Joining
<1>2. TypeOK'
  BY DEF IInv, TypeOK, Finding, model, args, join, loop, Pcs, Questions, Below
<1>3. Finding'
  BY FoundLeader DEF Finding, Sought, IInv, TypeOK, model
<1> QED BY <1>1, <1>2, <1>3, JoiningStep DEF IInv

\* Between builds only the ends matter: the columns are about to be dropped.
LEMMA RebuildStep ==
    ASSUME IInv, Joining \/ InLoop, pc' = "rebuild", Return, UNCHANGED model
    PROVE  IInv'
<1> USE DEF model, Return, EndJoin, EndFind, EndLoop
<1>1. TypeOK'
  <2>1. extending' \in BOOLEAN /\ fallback' \in BOOLEAN
    BY Zenon
  <2>2. todo' \in 0 .. MaxJoins
    BY BoundsAssumption DEF BoundsAssumption
  <2>3. pc' \in Pcs /\ ask' \in Questions \cup {"none"}
    BY DEF Pcs
  <2> QED BY <2>1, <2>2, <2>3 DEF IInv, TypeOK
<1>2. ~Joining' /\ ~InLoop' /\ pc' # "idle" /\ pc' # "find"
  BY DEF Joining, InLoop
<1>3. (Forest /\ Finding /\ OwnedPrefix /\ LoopOrder)'
  BY <1>2 DEF IInv, Forest, Finding, OwnedPrefix, LoopOrder
<1>4. Numbered'
  <2>1. Settled' = 0
    BY <1>2 DEF Settled
  <2> QED BY <2>1 DEF IInv, TypeOK, Numbered, Below
<1>5. first <= count /\ first \in Nat /\ count \in Nat
  BY BoundsAssumption DEF IInv, TypeOK, BoundsAssumption, Numbered, Settled, LoopOrder, Joining, InLoop
<1>6. Ends'
  <2> SUFFICES ASSUME NEW k \in 1 .. Len(layerEnd) PROVE layerEnd[k].decisions <= count
    BY <1>2 DEF IInv, Ends
  <2>1. layerEnd[k].decisions <= first
    BY DEF IInv, Ends
  <2>2. layerEnd[k].decisions \in Nat
    BY EndTypes DEF IInv
  <2> QED BY <2>1, <2>2, <1>5
<1> QED BY <1>1, <1>3, <1>4, <1>6 DEF IInv

\* A join of two columns leaves a model that is about to be rebuilt.
LEMMA OwnAColumnApieceInv == ASSUME IInv, OwnAColumnApiece PROVE IInv'
BY RebuildStep DEF OwnAColumnApiece, Found, Joining

\* A narrowed column leaves a model that is about to be rebuilt.
LEMMA OldColumnInv == ASSUME IInv, OldColumn PROVE IInv'
BY RebuildStep DEF OldColumn, Found, InLoop

\* Linking the higher root under the lower merges the two classes.
LEMMA UniteBInv == ASSUME IInv, UniteB PROVE IInv'
<1> DEFINE lo == Lower(rx, cur)
           up == Upper(rx, cur)
<1>1. /\ pc = "find" /\ ask = "b" /\ parent[cur] = cur /\ pc' = "join"
      /\ parent' = Link(parent, rx, cur) /\ leader' = Merge(leader, rx, cur)
      /\ ask' = "none" /\ cur' = 0 /\ x' = 0 /\ y' = 0 /\ rx' = 0
      /\ column' = column /\ count' = count /\ columns' = columns
      /\ layerEnd' = layerEnd /\ todo' = todo
      /\ extending' = extending /\ fallback' = fallback /\ first' = first
      /\ next' = next /\ created' = created
  BY DEF UniteB, Found, EndJoin, EndFind, args, loop
<1>2. /\ cur \in Below(count) /\ rx \in Below(count)
      /\ leader[cur] = cur /\ leader[rx] = rx
      /\ leader[x] = rx /\ leader[y] = cur
  BY <1>1, FoundLeader DEF IInv, Finding, Sought
<1>3. /\ cur \in Nat /\ rx \in Nat /\ lo \in Below(count) /\ up \in Below(count)
      /\ lo <= up /\ {lo, up} = {rx, cur}
      /\ leader[lo] = lo /\ leader[up] = up
  BY <1>2, Types DEF IInv, Lower, Upper
<1>4. ASSUME NEW d \in Below(count)
      PROVE  /\ parent'[d] = IF d = up THEN lo ELSE parent[d]
             /\ leader'[d] = IF leader[d] \in {lo, up} THEN lo ELSE leader[d]
  BY <1>1, <1>3, <1>4 DEF IInv, TypeOK, Link, Merge
<1> HIDE DEF lo, up
<1>5. TypeOK'
  <2>1. parent' \in [Below(count) -> Below(count)]
    BY <1>1, <1>3 DEF IInv, TypeOK, Link, lo
  <2>2. leader' \in [Below(count) -> Below(count)]
    BY <1>1, <1>3 DEF IInv, TypeOK, Merge, lo
  <2> QED BY <1>1, <2>1, <2>2 DEF IInv, TypeOK, Pcs, Questions
<1>6. Forest'
  <2> SUFFICES ASSUME NEW d \in Below(count)
               PROVE  /\ parent'[d] <= d /\ leader'[d] <= d
                      /\ leader'[parent'[d]] = leader'[d]
                      /\ leader'[leader'[d]] = leader'[d]
                      /\ parent'[d] = d => leader'[d] = d
    BY <1>1 DEF Forest
  <2>1. /\ parent[d] <= d /\ leader[d] <= d /\ leader[parent[d]] = leader[d]
        /\ leader[leader[d]] = leader[d] /\ (parent[d] = d => leader[d] = d)
        /\ parent[d] \in Below(count) /\ leader[d] \in Below(count)
    BY Types DEF IInv, Forest
  <2>2. d \in Nat /\ lo \in Nat /\ up \in Nat /\ leader[d] \in Nat /\ parent[d] \in Nat
    BY <1>3, Types DEF IInv
  <2> QED BY <2>1, <2>2, <1>3, <1>4
<1>7. ~InLoop /\ ~InLoop' /\ Joining /\ Joining' /\ pc # "idle" /\ pc' # "idle"
  BY <1>1 DEF InLoop, Joining
<1>8. Settled = first /\ Settled' = first
  BY <1>1, <1>7 DEF Settled
\* No class with a decision of a kept layer loses its leader.
<1>9. ASSUME NEW d \in Below(first) PROVE d \in Below(count) /\ leader'[d] = leader[d]
  <2>1. first <= count /\ first \in Nat /\ count \in Nat
    BY <1>8, BoundsAssumption DEF IInv, TypeOK, Numbered, BoundsAssumption
  <2>2. d \in Below(count)
    BY <2>1 DEF Below
  <2>3. CASE lo = up
    BY <1>4, <2>2, <2>3
  <2>4. CASE lo # up
    <3>1. column[lo] < 0 \/ column[up] < 0
      BY <1>1, <1>2, <1>3, <2>4 DEF IInv, Finding
    <3>2. column[up] < 0
      <4>1. lo < up /\ column[lo] \in Int /\ column[up] \in Int
        BY <2>4, <1>3, Types DEF IInv
      <4> QED BY <3>1, <4>1, <1>3, <1>7 DEF IInv, OwnedPrefix
    <3>3. ~(up < first)
      <4> SUFFICES ASSUME up < first PROVE FALSE
        OBVIOUS
      <4>1. up \in Below(first)
        BY <2>1, <1>3, Types DEF IInv, Below
      <4>2. 0 <= column[up]
        BY <4>1, <1>8 DEF IInv, Numbered
      <4> QED BY <4>2, <3>2, <1>3, Types DEF IInv
    <3>4. leader[d] # up
      <4>1. leader[d] <= d /\ leader[d] \in Nat /\ d < first /\ d \in Nat
        BY <2>1, <2>2, Types DEF IInv, Forest, Below
      <4> QED BY <4>1, <3>3, <1>3, <2>1, Types DEF IInv
    <3> QED BY <1>4, <2>2, <3>4
  <2> QED BY <2>3, <2>4
<1>10. Numbered'
  BY <1>1, <1>8, <1>9 DEF IInv, Numbered
<1>11. (Finding /\ OwnedPrefix /\ LoopOrder /\ Ends)'
  BY <1>1, <1>7 DEF IInv, Finding, OwnedPrefix, LoopOrder, Ends
<1> QED BY <1>5, <1>6, <1>10, <1>11 DEF IInv

\* After pass 1 only the kept layers' classes have columns.
LEMMA StartColumnsInv == ASSUME IInv, StartColumns PROVE IInv'
<1>1. /\ pc = "join" /\ pc' = "columns" /\ next' = first /\ created' = 0
      /\ UNCHANGED <<model, args, todo, join, finds>>
  BY DEF StartColumns
<1> USE DEF model, args, join, finds
<1>2. Joining /\ ~InLoop /\ ~Joining' /\ InLoop'
  BY <1>1 DEF Joining, InLoop
<1>3. Settled = first /\ Settled' = first
  BY <1>1, <1>2 DEF Settled
<1>4. created = 0
  BY <1>2 DEF IInv, LoopOrder
<1>5. TypeOK'
  BY <1>1 DEF IInv, TypeOK, Pcs
<1>6. (Forest /\ Finding)'
  BY <1>1 DEF IInv, Forest, Finding
<1>7. Numbered'
  BY <1>1, <1>3, <1>4 DEF IInv, Numbered
<1>8. LoopOrder'
  <2>1. first <= first
    BY DEF IInv, TypeOK
  <2> QED BY <1>1, <1>2, <2>1 DEF IInv, OwnedPrefix, LoopOrder
<1>9. (OwnedPrefix /\ Ends)'
  BY <1>1, <1>2 DEF IInv, OwnedPrefix, Ends
<1> QED BY <1>5, <1>6, <1>7, <1>8, <1>9 DEF IInv

\* The column loop starts a find of its next decision.
LEMMA ReadDecisionInv == ASSUME IInv, ReadDecision PROVE IInv'
<1>1. /\ pc = "columns" /\ pc' = "find" /\ ask' = "column" /\ cur' = next
      /\ next < count
      /\ UNCHANGED <<model, args, todo, join, loop>>
  BY DEF ReadDecision, Find
<1> USE DEF model, args, join, loop
<1>2. ~Joining /\ InLoop /\ ~Joining' /\ InLoop'
  BY <1>1 DEF Joining, InLoop
<1>3. next \in Below(count)
  BY <1>1, BoundsAssumption DEF IInv, TypeOK, Below, BoundsAssumption
<1>4. TypeOK'
  BY <1>1 DEF IInv, TypeOK, Pcs, Questions
<1>5. Forest'
  BY <1>1 DEF IInv, Forest
<1>6. Finding'
  BY <1>1, <1>3 DEF Finding, Sought
<1>7. (Numbered /\ OwnedPrefix /\ LoopOrder /\ Ends)'
  BY <1>1, <1>2 DEF IInv, Numbered, Settled, OwnedPrefix, LoopOrder, Ends
<1> QED BY <1>4, <1>5, <1>6, <1>7 DEF IInv

\* One turn of the column loop settles the next decision: its column keeps the
\* order of the classes, and no settled column is touched.
LEMMA LoopTurn ==
    ASSUME IInv, Found("column"), NEW c,
           UNCHANGED <<parent, leader, count, columns, layerEnd, args, todo, join>>,
           pc' = "columns", EndFind, next' = next + 1,
           created' \in Nat, created <= created',
           column' = [column EXCEPT ![next] = c],
           0 <= c, c < columns + created', c \in Nat,
           \A d \in Below(next) :
              /\ leader[d] < leader[next] <=> column[d] < c
              /\ leader[next] < leader[d] <=> c < column[d]
    PROVE  IInv'
<1> USE DEF args, join, Found, EndFind
<1>1. ~Joining /\ InLoop /\ ~Joining' /\ InLoop' /\ pc # "idle" /\ pc' # "idle"
  BY DEF Joining, InLoop
<1>2. next \in Below(count) /\ next \in Nat /\ first <= next /\ first \in Nat
  BY <1>1, Types DEF IInv, TypeOK, Finding, Sought, LoopOrder
<1>3. count \in Nat /\ columns \in Nat /\ created \in Nat /\ next < count
  BY <1>2, Types DEF IInv, TypeOK
<1>4. ASSUME NEW d \in Below(count)
      PROVE  column'[d] = IF d = next THEN c ELSE column[d]
  BY <1>4 DEF IInv, TypeOK
<1>5. TypeOK'
  <2>1. column' \in [Below(count) -> Nat \cup {-1}]
    BY DEF IInv, TypeOK
  <2>2. next' \in Nat
    BY <1>2
  <2> QED BY <2>1, <2>2 DEF IInv, TypeOK, Pcs
<1>6. (Forest /\ Finding /\ OwnedPrefix)'
  BY <1>1 DEF IInv, Forest, Finding, OwnedPrefix
<1>7. Settled = next /\ Settled' = next + 1
  BY <1>1 DEF Settled
<1>8. ASSUME NEW d \in Below(next')
      PROVE  /\ d \in Below(count) /\ (d # next => d \in Below(next))
  BY <1>2, <1>3 DEF Below
<1>9. Numbered'
  <2>1. next + 1 <= count
    BY <1>2, <1>3
  <2>2. ASSUME NEW d \in Below(next') PROVE 0 <= column'[d] /\ column'[d] < columns + created'
    <3>1. CASE d = next
      BY <3>1, <1>4, <1>8
    <3>2. CASE d # next
      <4>1. 0 <= column[d] /\ column[d] < columns + created
        BY <3>2, <1>7, <1>8 DEF IInv, Numbered
      <4>2. column[d] \in Int
        BY <1>8, Types DEF IInv
      <4> QED BY <4>1, <4>2, <3>2, <1>3, <1>4, <1>8
    <3> QED BY <3>1, <3>2
  <2>3. ASSUME NEW d \in Below(next'), NEW e \in Below(next')
        PROVE  leader[d] < leader[e] <=> column'[d] < column'[e]
    <3>1. CASE d # next /\ e # next
      BY <3>1, <1>4, <1>7, <1>8 DEF IInv, Numbered
    <3>2. CASE d = next /\ e = next
      <4>1. leader[next] \in Nat
        BY <1>2, Types DEF IInv
      <4> QED BY <4>1, <3>2, <1>2, <1>4
    <3>3. CASE d = next /\ e # next
      BY <3>3, <1>2, <1>4, <1>8
    <3>4. CASE d # next /\ e = next
      BY <3>4, <1>2, <1>4, <1>8
    <3> QED BY <3>1, <3>2, <3>3, <3>4
  <2> QED BY <2>1, <2>2, <2>3, <1>7 DEF Numbered
<1>10. LoopOrder'
  <2>1. \A d \in Below(count) : next + 1 <= d => d # next /\ next <= d
    BY <1>2, <1>3 DEF Below
  <2>2. first <= next + 1
    BY <1>2
  <2> QED BY <2>1, <2>2, <1>1, <1>4 DEF IInv, LoopOrder
<1>11. Ends'
  <2> SUFFICES ASSUME NEW k \in 1 .. Len(layerEnd), NEW d \in Below(layerEnd[k].decisions)
               PROVE  column'[d] = column[d]
    BY <1>1 DEF IInv, Ends
  <2>1. layerEnd[k].decisions <= first /\ layerEnd[k].decisions \in Nat
    BY <1>1, EndTypes DEF IInv, Ends
  <2>2. d \in Below(count) /\ d # next
    BY <2>1, <1>2, <1>3 DEF Below
  <2> QED BY <2>2, <1>4
<1> QED BY <1>5, <1>6, <1>9, <1>10, <1>11 DEF IInv

\* What the column loop knows when find answers.
LEMMA LoopFacts ==
    ASSUME IInv, Found("column")
    PROVE  /\ InLoop /\ Settled = next
           /\ cur \in Below(count) /\ next \in Below(count) /\ cur <= next
           /\ leader[cur] = cur /\ leader[next] = cur
           /\ column[next] < columns
           /\ cur # next => cur \in Below(next)
           /\ \A d \in Below(next) : d \in Below(count) /\ d < next
<1> USE DEF Found
<1>1. InLoop /\ ~Joining /\ pc # "idle"
  BY DEF InLoop, Joining
<1>2. /\ cur \in Below(count) /\ next \in Below(count)
      /\ leader[cur] = cur /\ leader[next] = cur
  BY FoundLeader DEF IInv, Finding, Sought
<1>3. cur <= next
  BY <1>2 DEF IInv, Forest
<1>4. column[next] < columns
  <2>1. next <= next
    BY <1>2, Types DEF IInv
  <2> QED BY <1>1, <1>2, <2>1 DEF IInv, LoopOrder
<1>5. /\ cur # next => cur \in Below(next)
      /\ \A d \in Below(next) : d \in Below(count) /\ d < next
  BY <1>2, <1>3, Types DEF IInv, Below
<1> QED BY <1>1, <1>2, <1>3, <1>4, <1>5 DEF Settled

\* A class met for the first time gets the next column.
LEMMA NewColumnInv == ASSUME IInv, NewColumn PROVE IInv'
<1> DEFINE c == columns + created
<1>1. Found("column") /\ column[cur] < 0
  BY DEF NewColumn
<1>2. columns \in Nat /\ created \in Nat /\ c \in Nat
  BY DEF IInv, TypeOK
<1>3. cur = next
  <2>1. ASSUME cur # next PROVE FALSE
    <3>1. 0 <= column[cur]
      BY <1>1, <2>1, LoopFacts DEF IInv, Numbered
    <3> QED BY <3>1, <1>1, LoopFacts, Types DEF IInv
  <2> QED BY <2>1
<1>4. column' = [column EXCEPT ![next] = c]
  <2>1. column' = [column EXCEPT ![cur] = c, ![next] = c]
    BY DEF NewColumn
  <2> QED BY <2>1, <1>3 DEF IInv, TypeOK
<1>5. ASSUME NEW d \in Below(next)
      PROVE  /\ leader[d] < leader[next] /\ ~(leader[next] < leader[d])
             /\ column[d] < c /\ ~(c < column[d])
  <2>1. d \in Below(count) /\ d < next /\ leader[d] <= d
    BY <1>1, LoopFacts DEF IInv, Forest
  <2>2. leader[d] < next /\ leader[d] \in Nat /\ next \in Nat /\ column[d] \in Int
    BY <1>1, <2>1, LoopFacts, Types DEF IInv
  <2>3. column[d] < c
    BY <1>1, LoopFacts DEF IInv, Numbered
  <2> QED BY <2>2, <2>3, <1>1, <1>2, <1>3, LoopFacts
<1>6. created' = created + 1 /\ next' = next + 1 /\ pc' = "columns" /\ EndFind
      /\ UNCHANGED <<parent, leader, count, columns, layerEnd, args, todo, join>>
  BY DEF NewColumn
<1>7. 0 <= c /\ c < columns + created' /\ created <= created' /\ created' \in Nat
  BY <1>2, <1>6
<1> HIDE DEF c
<1> QED BY <1>1, <1>2, <1>4, <1>5, <1>6, <1>7, LoopTurn

\* A class met again gives its decision the column it has.
LEMMA SharedColumnInv == ASSUME IInv, SharedColumn PROVE IInv'
<1> DEFINE c == column[cur]
<1>1. Found("column") /\ c >= columns
  BY DEF SharedColumn
<1>2. columns \in Nat /\ created \in Nat /\ c \in Int
  BY <1>1, LoopFacts, Types DEF IInv, TypeOK
<1>3. cur \in Below(next)
  BY <1>1, <1>2, LoopFacts
<1>4. 0 <= c /\ c < columns + created
  BY <1>1, <1>3, LoopFacts DEF IInv, Numbered
<1>5. ASSUME NEW d \in Below(next)
      PROVE  /\ leader[d] < leader[next] <=> column[d] < c
             /\ leader[next] < leader[d] <=> c < column[d]
  BY <1>1, <1>3, LoopFacts DEF IInv, Numbered
<1>6. created' = created /\ next' = next + 1 /\ pc' = "columns" /\ EndFind
      /\ column' = [column EXCEPT ![next] = c]
      /\ UNCHANGED <<parent, leader, count, columns, layerEnd, args, todo, join>>
  BY DEF SharedColumn
<1>7. created <= created' /\ created' \in Nat /\ c \in Nat
  BY <1>2, <1>4, <1>6
<1> HIDE DEF c
<1> QED BY <1>1, <1>4, <1>5, <1>6, <1>7, LoopTurn

\* The locals a build leaves have their types.
LEMMA ReturnTypes ==
    ASSUME Return
    PROVE  /\ extending' \in BOOLEAN /\ fallback' \in BOOLEAN
           /\ first' \in Nat /\ todo' \in 0 .. MaxJoins
           /\ x' \in Nat /\ y' \in Nat /\ rx' \in Nat /\ cur' \in Nat
           /\ ask' \in Questions \cup {"none"}
           /\ next' \in Nat /\ created' \in Nat
<1> USE DEF Return, EndJoin, EndFind, EndLoop
<1>1. extending' \in BOOLEAN /\ fallback' \in BOOLEAN
  BY Zenon
<1>2. todo' \in 0 .. MaxJoins
  BY BoundsAssumption DEF BoundsAssumption
<1> QED BY <1>1, <1>2

\* Handing the columns over ends the loop and records the layer's end.
LEMMA HandOverInv == ASSUME IInv, HandOver PROVE IInv'
<1>1. /\ pc = "columns" /\ pc' = "idle" /\ next = count
      /\ Return
      /\ parent' = parent /\ column' = column /\ count' = count /\ leader' = leader
  BY DEF HandOver
<1>2. ~Joining /\ InLoop /\ ~Joining' /\ ~InLoop'
  BY <1>1 DEF Joining, InLoop
<1>3. created' = 0
  BY <1>1 DEF Return, EndLoop
<1>4. columns' \in Nat /\ columns + created <= columns' /\ columns <= columns'
  <2>1. PICK s \in 0 .. MaxSelectors : columns' = columns + created + s
    BY DEF HandOver
  <2> QED BY <2>1, BoundsAssumption DEF IInv, TypeOK, BoundsAssumption
<1>5. first \in Nat /\ count \in Nat /\ first <= count /\ columns \in Nat /\ created \in Nat
  BY <1>1, <1>2, BoundsAssumption DEF IInv, TypeOK, LoopOrder, BoundsAssumption
<1>6. \/ layerEnd' = layerEnd
      \/ \E e \in first .. count : layerEnd' = Append(layerEnd, LayerEnd(e, columns'))
  BY DEF HandOver
<1>7. Settled = count /\ Settled' = count
  BY <1>1, <1>2 DEF Settled
<1>8. Numbered'
  <2>1. ASSUME NEW d \in Below(count) PROVE 0 <= column[d] /\ column[d] < columns'
    <3>1. 0 <= column[d] /\ column[d] < columns + created
      BY <1>7 DEF IInv, Numbered
    <3> QED BY <3>1, <1>4, <1>5, Types DEF IInv
  <2>2. \A d \in Below(count) : column[d] < columns' + 0
    BY <2>1, <1>4
  <2> QED BY <2>1, <2>2, <1>1, <1>3, <1>7 DEF IInv, Numbered
<1>9. layerEnd' \in Seq([decisions : Nat, columns : Nat]) /\ Ends'
  <2>1. CASE layerEnd' = layerEnd
    <3>1. layerEnd' \in Seq([decisions : Nat, columns : Nat])
      BY <2>1 DEF IInv, TypeOK
    <3>2. ASSUME NEW k \in 1 .. Len(layerEnd)
          PROVE  layerEnd[k].decisions <= count /\ layerEnd[k].columns <= columns'
      <4>1. layerEnd[k].decisions <= first /\ layerEnd[k].columns <= columns
        BY <1>2 DEF IInv, Ends
      <4> QED BY <4>1, <1>4, <1>5, EndTypes DEF IInv
    <3> QED BY <2>1, <3>1, <3>2, <1>1, <1>2 DEF IInv, Ends
  <2>2. ASSUME NEW e \in first .. count,
               layerEnd' = Append(layerEnd, LayerEnd(e, columns'))
        PROVE  layerEnd' \in Seq([decisions : Nat, columns : Nat]) /\ Ends'
    <3> DEFINE n == Len(layerEnd)
               new == LayerEnd(e, columns')
    <3>1. /\ new \in [decisions : Nat, columns : Nat]
          /\ new.decisions = e /\ new.columns = columns'
          /\ e \in Nat /\ first <= e /\ e <= count
      BY <1>4, <1>5 DEF LayerEnd
    <3> HIDE DEF new
    <3>2. layerEnd \in Seq([decisions : Nat, columns : Nat]) /\ n \in Nat
      BY LenProperties DEF IInv, TypeOK
    <3>3. /\ layerEnd' \in Seq([decisions : Nat, columns : Nat])
          /\ Len(layerEnd') = n + 1 /\ layerEnd'[n + 1] = new
          /\ \A k \in 1 .. n : layerEnd'[k] = layerEnd[k]
      BY <3>1, <3>2, <2>2, AppendProperties DEF new
    <3>4. ASSUME NEW k \in 1 .. n
          PROVE  /\ layerEnd[k].decisions <= e /\ layerEnd[k].decisions <= count
                 /\ layerEnd[k].columns <= columns'
                 /\ \A d \in Below(layerEnd[k].decisions) : column[d] \in Below(layerEnd[k].columns)
      <4>1. /\ layerEnd[k].decisions <= first /\ layerEnd[k].columns <= columns
            /\ \A d \in Below(layerEnd[k].decisions) : column[d] \in Below(layerEnd[k].columns)
        BY <1>2 DEF IInv, Ends
      <4>2. layerEnd[k].decisions \in Nat /\ layerEnd[k].columns \in Nat
        BY EndTypes DEF IInv
      <4> QED BY <4>1, <4>2, <3>1, <1>4, <1>5
    <3>5. ASSUME NEW d \in Below(e) PROVE column[d] \in Below(columns')
      <4>1. d \in Below(count)
        BY <3>1, <1>5 DEF Below
      <4>2. 0 <= column[d] /\ column[d] < columns' + created'
        BY <4>1, <1>1, <1>7, <1>8 DEF Numbered
      <4> QED BY <4>1, <4>2, <1>3, <1>4, Types DEF IInv, Below
    <3>6. \A k \in 1 .. n + 1 : k \in 1 .. n \/ k = n + 1
      BY <3>2
    <3>7. ASSUME NEW k \in 1 .. n + 1
          PROVE  /\ layerEnd'[k].decisions <= count /\ layerEnd'[k].columns <= columns'
                 /\ \A d \in Below(layerEnd'[k].decisions) :
                       column[d] \in Below(layerEnd'[k].columns)
      <4>1. CASE k \in 1 .. n
        BY <4>1, <3>3, <3>4
      <4>2. CASE k = n + 1
        BY <4>2, <3>1, <3>3, <3>5, <1>4
      <4> QED BY <4>1, <4>2, <3>6
    <3>8. ASSUME NEW j \in 1 .. n + 1, NEW k \in 1 .. n + 1, j <= k
          PROVE  /\ layerEnd'[j].decisions <= layerEnd'[k].decisions
                 /\ layerEnd'[j].columns <= layerEnd'[k].columns
      <4>1. CASE j \in 1 .. n /\ k \in 1 .. n
        BY <4>1, <3>3, <3>8 DEF IInv, Ends
      <4>2. CASE j \in 1 .. n /\ k = n + 1
        BY <4>2, <3>1, <3>3, <3>4
      <4>3. CASE j = n + 1
        <5>1. k = n + 1
          BY <4>3, <3>2, <3>8
        <5> QED BY <4>3, <5>1, <3>1, <3>3, <1>4
      <4> QED BY <4>1, <4>2, <4>3, <3>6
    <3> QED BY <3>3, <3>7, <3>8, <1>1, <1>2 DEF Ends
  <2> QED BY <1>6, <2>1, <2>2
<1>10. TypeOK'
  BY <1>1, <1>4, <1>9, ReturnTypes DEF IInv, TypeOK, Pcs
<1>11. (Forest /\ Finding /\ OwnedPrefix)'
  BY <1>1, <1>2 DEF IInv, Forest, Finding, OwnedPrefix
<1>12. LoopOrder'
  BY <1>2, <1>3 DEF LoopOrder
<1> QED BY <1>8, <1>9, <1>10, <1>11, <1>12 DEF IInv

\* How many joins a build reads is within its bound.
LEMMA JoinsBound == ASSUME NEW n, NEW j \in Joins(n) PROVE j \in 0 .. MaxJoins
<1>1. CASE n = 0
  BY <1>1, BoundsAssumption DEF Joins, BoundsAssumption
<1>2. CASE n # 0
  BY <1>2 DEF Joins
<1> QED BY <1>1, <1>2

\* A build into an empty backend starts with every decision alone.
LEMMA BuildWholeInv ==
    ASSUME IInv, pc \in {"idle", "rebuild"},
           NEW n \in 0 .. MaxDecisions, BuildWhole(n), fallback' \in BOOLEAN
    PROVE  IInv'
<1>1. /\ parent' = [d \in Below(n) |-> d] /\ leader' = [d \in Below(n) |-> d]
      /\ column' = [d \in Below(n) |-> -1]
      /\ count' = n /\ columns' = 0 /\ layerEnd' = <<>> /\ first' = 0
      /\ pc' = "join"
      /\ UNCHANGED <<x, y, rx, ask, cur, next, created>>
  BY DEF BuildWhole, join, finds, loop
<1>2. Joining' /\ ~InLoop' /\ pc' # "idle" /\ pc' # "find"
  BY <1>1 DEF Joining, InLoop
<1>3. created' = 0
  BY <1>1 DEF IInv, LoopOrder, InLoop
<1>4. extending' \in BOOLEAN /\ todo' \in 0 .. MaxJoins
  <2>1. extending' = FALSE
    BY DEF BuildWhole
  <2>2. todo' \in 0 .. MaxJoins
    BY JoinsBound DEF BuildWhole
  <2> QED BY <2>1, <2>2, Zenon
<1>5. layerEnd' \in Seq([decisions : Nat, columns : Nat]) /\ Len(layerEnd') = 0
  BY <1>1
<1>6. TypeOK'
  BY <1>1, <1>4, <1>5 DEF IInv, TypeOK, Pcs
<1>7. Forest'
  <2>1. \A d \in Below(n) : d <= d
    BY DEF Below
  <2> QED BY <1>1, <2>1 DEF Forest
<1>8. Settled' = 0 /\ Below(0) = {} /\ 0 <= n
  BY <1>1, <1>2, BoundsAssumption DEF Settled, Below, BoundsAssumption
<1>9. Numbered'
  BY <1>1, <1>8 DEF Numbered
<1>10. OwnedPrefix'
  BY <1>1 DEF OwnedPrefix
<1>11. Finding' /\ Ends'
  BY <1>1, <1>2, <1>5 DEF Finding, Ends
<1>12. LoopOrder'
  BY <1>1, <1>2, <1>3 DEF LoopOrder
<1> QED BY <1>6, <1>7, <1>9, <1>10, <1>11, <1>12 DEF IInv

\* A run that keeps nothing starts such a build.
LEMMA BuildFullInv == ASSUME IInv, BuildFull PROVE IInv'
<1>1. pc = "idle" /\ fallback' \in BOOLEAN
  BY Zenon DEF BuildFull
<1>2. PICK n \in 0 .. MaxDecisions : BuildWhole(n)
  BY DEF BuildFull
<1> QED BY <1>1, <1>2, BuildWholeInv

\* So does a run that starts over.
LEMMA BuildFallbackInv == ASSUME IInv, BuildFallback PROVE IInv'
<1>1. pc = "rebuild" /\ fallback' \in BOOLEAN
  BY Zenon DEF BuildFallback
<1>2. count \in 0 .. MaxDecisions /\ BuildWhole(count)
  BY DEF BuildFallback, IInv, TypeOK
<1> QED BY <1>1, <1>2, BuildWholeInv

\* A failed build leaves a model that has built nothing.
LEMMA BuildFailsInv == ASSUME IInv, BuildFails PROVE IInv'
<1>1. /\ parent' = Empty /\ column' = Empty /\ leader' = Empty
      /\ count' = 0 /\ columns' = 0 /\ layerEnd' = <<>> /\ pc' = "idle" /\ Return
  BY DEF BuildFails
<1>2. Below(0) = {}
  BY DEF Below
<1>3. /\ parent' \in [Below(count') -> Below(count')]
      /\ leader' \in [Below(count') -> Below(count')]
      /\ column' \in [Below(count') -> Nat \cup {-1}]
  BY <1>1, <1>2 DEF Empty
<1>4. layerEnd' \in Seq([decisions : Nat, columns : Nat]) /\ Len(layerEnd') = 0
  BY <1>1
<1>5. count' \in 0 .. MaxDecisions /\ columns' \in Nat /\ pc' \in Pcs
  BY <1>1, BoundsAssumption DEF BoundsAssumption, Pcs
<1>6. TypeOK'
  BY <1>3, <1>4, <1>5, <1>1, ReturnTypes DEF TypeOK
<1>7. ~Joining' /\ ~InLoop' /\ created' = 0
  BY <1>1 DEF Joining, InLoop, Return, EndLoop
<1>8. (Forest /\ Numbered /\ OwnedPrefix /\ LoopOrder)'
  BY <1>1, <1>2, <1>7 DEF Forest, Numbered, OwnedPrefix, LoopOrder, Settled
<1>9. (Finding /\ Ends)'
  BY <1>1, <1>4 DEF Finding, Ends
<1> QED BY <1>6, <1>8, <1>9 DEF IInv

\* A layer above the kept ones adds its decisions and leaves the others.
LEMMA ExtendInv == ASSUME IInv, Extend PROVE IInv'
<1> DEFINE f == Kept.decisions
<1>1. /\ pc = "idle" /\ pc' = "join" /\ layerEnd # <<>>
      /\ columns' = columns /\ layerEnd' = layerEnd /\ first' = f
      /\ extending' = TRUE /\ fallback' = FALSE
      /\ UNCHANGED <<x, y, rx, ask, cur, next, created>>
  BY DEF Extend, join, finds, loop
<1>2. PICK n \in f .. MaxDecisions :
        /\ parent' = [d \in Below(n) |-> IF d < f THEN parent[d] ELSE d]
        /\ leader' = [d \in Below(n) |-> IF d < f THEN leader[d] ELSE d]
        /\ column' = [d \in Below(n) |-> IF d < count THEN column[d] ELSE -1]
        /\ count' = n
        /\ todo' \in Joins(n)
  BY DEF Extend
<1>3. Len(layerEnd) \in 1 .. Len(layerEnd) /\ Kept = layerEnd[Len(layerEnd)]
  <2>1. layerEnd \in Seq([decisions : Nat, columns : Nat])
    BY DEF IInv, TypeOK
  <2> QED BY <2>1, <1>1, EmptySeq DEF Kept
<1>4. f \in Nat /\ n \in Nat /\ f <= n /\ n <= MaxDecisions /\ count \in Nat /\ columns \in Nat
  BY <1>3, EndTypes, BoundsAssumption DEF IInv, TypeOK, BoundsAssumption
<1>5. ~Joining /\ ~InLoop /\ Joining' /\ ~InLoop' /\ pc' # "idle"
  BY <1>1 DEF Joining, InLoop
<1>6. f <= count
  BY <1>3, <1>5 DEF IInv, Ends
<1> HIDE DEF f
<1>7. Settled = count /\ Settled' = f /\ created = 0 /\ created' = 0
  BY <1>1, <1>5 DEF Settled, IInv, LoopOrder
<1>8. ASSUME NEW d \in Below(n)
      PROVE  /\ d \in Nat /\ d < n
             /\ d < f => d \in Below(count) /\ d \in Below(f)
             /\ d < count => d \in Below(count)
             /\ d \in Below(f) => d < f
             /\ parent'[d] = IF d < f THEN parent[d] ELSE d
             /\ leader'[d] = IF d < f THEN leader[d] ELSE d
             /\ column'[d] = IF d < count THEN column[d] ELSE -1
  BY <1>2, <1>4, <1>6 DEF Below
<1>9. ASSUME NEW d \in Below(n), d < f
      PROVE  /\ parent[d] \in Below(n) /\ leader[d] \in Below(n)
             /\ parent[d] < f /\ leader[d] < f
             /\ parent[d] <= d /\ leader[d] <= d
  <2>1. d \in Nat /\ d \in Below(count) /\ parent[d] <= d /\ leader[d] <= d
    BY <1>8, <1>9 DEF IInv, Forest
  <2>2. parent[d] \in Nat /\ leader[d] \in Nat
    BY <2>1, Types DEF IInv
  <2> QED BY <2>1, <2>2, <1>4, <1>9 DEF Below
<1>10. TypeOK'
  <2>1. /\ parent' \in [Below(n) -> Below(n)]
        /\ leader' \in [Below(n) -> Below(n)]
    BY <1>2, <1>9
  <2>2. column' \in [Below(n) -> Nat \cup {-1}]
    <3>1. ASSUME NEW d \in Below(n) PROVE column'[d] \in Nat \cup {-1}
      <4>1. CASE d < count
        BY <4>1, <1>8 DEF IInv, TypeOK
      <4>2. CASE ~(d < count)
        BY <4>2, <1>8
      <4> QED BY <4>1, <4>2
    <3> QED BY <3>1, <1>2
  <2>3. extending' \in BOOLEAN /\ fallback' \in BOOLEAN
    BY <1>1, Zenon
  <2>4. count' \in 0 .. MaxDecisions /\ todo' \in 0 .. MaxJoins /\ first' \in Nat
    BY <1>1, <1>2, <1>4, JoinsBound
  <2>5. pc' \in Pcs
    BY <1>1 DEF Pcs
  <2> QED BY <1>1, <1>2, <2>1, <2>2, <2>3, <2>4, <2>5 DEF IInv, TypeOK
<1>11. Forest'
  <2> SUFFICES ASSUME NEW d \in Below(n)
               PROVE  /\ parent'[d] <= d /\ leader'[d] <= d
                      /\ leader'[parent'[d]] = leader'[d]
                      /\ leader'[leader'[d]] = leader'[d]
                      /\ parent'[d] = d => leader'[d] = d
    BY <1>2 DEF Forest
  <2>1. CASE d < f
    BY <2>1, <1>8, <1>9 DEF IInv, Forest
  <2>2. CASE ~(d < f)
    BY <2>2, <1>8
  <2> QED BY <2>1, <2>2
<1>12. ASSUME NEW d \in Below(f)
       PROVE  /\ d \in Below(n) /\ d \in Below(count) /\ d < f
              /\ leader'[d] = leader[d] /\ column'[d] = column[d]
  <2>1. d \in Below(n) /\ d < f /\ d < count
    BY <1>4, <1>6 DEF Below
  <2> QED BY <2>1, <1>8
<1>13. Numbered'
  <2>1. f <= n
    BY <1>4
  <2>2. Numbered
    BY DEF IInv
  <2>3. \A d \in Below(f) : 0 <= column'[d] /\ column'[d] < columns' + created'
    BY <2>2, <1>1, <1>7, <1>12 DEF Numbered
  <2>4. \A d, e \in Below(f) : leader'[d] < leader'[e] <=> column'[d] < column'[e]
    BY <2>2, <1>7, <1>12 DEF Numbered
  <2> QED BY <2>1, <2>3, <2>4, <1>2, <1>7 DEF Numbered
<1>14. OwnedPrefix'
  <2>1. ASSUME NEW d \in Below(n)
        PROVE  /\ column'[d] < columns
               /\ d < count => column'[d] >= 0
               /\ ~(d < count) => ~(column'[d] >= 0)
    <3>1. CASE d < count
      <4>1. 0 <= column[d] /\ column[d] < columns + created /\ column[d] \in Int
        BY <3>1, <1>7, <1>8, Types DEF IInv, Numbered
      <4> QED BY <4>1, <3>1, <1>4, <1>7, <1>8
    <3>2. CASE ~(d < count)
      BY <3>2, <1>4, <1>8
    <3> QED BY <3>1, <3>2
  <2>2. \A d, e \in Below(n) : d < e /\ column'[e] >= 0 => column'[d] >= 0
    BY <2>1, <1>4, <1>8
  <2> QED BY <2>1, <2>2, <1>1, <1>2 DEF OwnedPrefix
<1>15. Finding' /\ LoopOrder'
  BY <1>1, <1>5, <1>7 DEF Finding, LoopOrder
<1>16. Ends'
  <2>1. ASSUME NEW k \in 1 .. Len(layerEnd)
        PROVE  /\ layerEnd[k].decisions <= f
               /\ layerEnd[k].columns <= columns
               /\ \A d \in Below(layerEnd[k].decisions) : column'[d] \in Below(layerEnd[k].columns)
    <3>1. k <= Len(layerEnd) /\ layerEnd[k].decisions \in Nat
      BY EndTypes DEF IInv
    <3>2. layerEnd[k].decisions <= f
      BY <3>1, <1>3 DEF f, IInv, Ends
    <3>3. \A d \in Below(layerEnd[k].decisions) : d \in Below(f)
      BY <3>1, <3>2, <1>4 DEF Below
    <3> QED BY <3>2, <3>3, <1>12 DEF IInv, Ends
  <2> QED BY <2>1, <1>1, <1>5 DEF IInv, Ends
<1> QED BY <1>10, <1>11, <1>13, <1>14, <1>15, <1>16 DEF IInv

\* A cut at a layer's end leaves what the layers below it built.
LEMMA TruncateInv == ASSUME IInv, Truncate PROVE IInv'
<1>1. /\ pc = "idle" /\ pc' = "idle"
      /\ UNCHANGED <<extending, fallback, first, todo, x, y, rx, ask, cur, next, created>>
  BY DEF Truncate, args, join, finds, loop
<1>2. PICK k \in 1 .. Len(layerEnd) - 1 :
        /\ parent' = Cut(parent, layerEnd[k].decisions)
        /\ leader' = Cut(leader, layerEnd[k].decisions)
        /\ column' = Cut(column, layerEnd[k].decisions)
        /\ count' = layerEnd[k].decisions
        /\ columns' = layerEnd[k].columns
        /\ layerEnd' = SubSeq(layerEnd, 1, k)
  BY DEF Truncate
<1> DEFINE n == layerEnd[k].decisions
           R == [decisions : Nat, columns : Nat]
<1>3. layerEnd \in Seq(R) /\ Len(layerEnd) \in Nat /\ k \in 1 .. Len(layerEnd) /\ k \in Nat
  BY LenProperties DEF IInv, TypeOK
<1>4. ~Joining /\ ~InLoop /\ ~Joining' /\ ~InLoop'
  BY <1>1 DEF Joining, InLoop
<1>5. n \in Nat /\ layerEnd[k].columns \in Nat /\ count \in Nat /\ count <= MaxDecisions
  BY <1>3, EndTypes, BoundsAssumption DEF IInv, TypeOK, BoundsAssumption
<1>6. /\ n <= count
      /\ \A d \in Below(n) : column[d] \in Below(layerEnd[k].columns)
  BY <1>3, <1>4 DEF IInv, Ends
<1>7. /\ layerEnd' \in Seq(R) /\ Len(layerEnd') = k
      /\ \A i \in 1 .. k : layerEnd'[i] = layerEnd[i] /\ i \in 1 .. Len(layerEnd) /\ i <= k
  <2>1. \A i \in 1 .. k : layerEnd[i] \in R
    BY <1>3, EndTypes DEF IInv
  <2>2. /\ SubSeq(layerEnd, 1, k) \in Seq(R)
        /\ Len(SubSeq(layerEnd, 1, k)) = IF 1 <= k THEN k - 1 + 1 ELSE 0
        /\ \A i \in 1 .. k - 1 + 1 : SubSeq(layerEnd, 1, k)[i] = layerEnd[1 + i - 1]
    <3> HIDE DEF R
    <3> QED BY <2>1, <1>3, SubSeqProperties, 1 \in Int, k \in Int
  <2> QED BY <2>2, <1>2, <1>3
<1> HIDE DEF n
<1>8. ASSUME NEW d \in Below(n)
      PROVE  /\ d \in Below(count) /\ d \in Nat
             /\ parent'[d] = parent[d] /\ leader'[d] = leader[d] /\ column'[d] = column[d]
             /\ parent[d] \in Below(n) /\ leader[d] \in Below(n)
             /\ parent[d] <= d /\ leader[d] <= d
  <2>1. d \in Below(count) /\ d \in Nat /\ d < n
    BY <1>5, <1>6 DEF Below
  <2>2. parent[d] <= d /\ leader[d] <= d /\ parent[d] \in Nat /\ leader[d] \in Nat
    BY <2>1, Types DEF IInv, Forest
  <2>3. parent[d] \in Below(n) /\ leader[d] \in Below(n)
    BY <2>1, <2>2, <1>5 DEF Below
  <2> QED BY <2>1, <2>2, <2>3, <1>2 DEF Cut, n
<1>9. TypeOK'
  <2>1. /\ parent' \in [Below(n) -> Below(n)]
        /\ leader' \in [Below(n) -> Below(n)]
        /\ column' \in [Below(n) -> Nat \cup {-1}]
    BY <1>2, <1>8 DEF Cut, n, IInv, TypeOK
  <2>2. n \in 0 .. MaxDecisions
    BY <1>5, <1>6, BoundsAssumption DEF BoundsAssumption
  <2>3. count' = n /\ columns' \in Nat /\ layerEnd' \in Seq(R)
    BY <1>2, <1>5, <1>7 DEF n
  <2>4. extending' \in BOOLEAN /\ fallback' \in BOOLEAN
    BY <1>1 DEF IInv, TypeOK
  <2>5. /\ pc' \in Pcs /\ first' \in Nat /\ todo' \in 0 .. MaxJoins
        /\ x' \in Nat /\ y' \in Nat /\ rx' \in Nat /\ cur' \in Nat
        /\ ask' \in Questions \cup {"none"} /\ next' \in Nat /\ created' \in Nat
    BY <1>1 DEF IInv, TypeOK
  <2>6. /\ parent' \in [Below(count') -> Below(count')]
        /\ leader' \in [Below(count') -> Below(count')]
        /\ column' \in [Below(count') -> Nat \cup {-1}]
        /\ count' \in 0 .. MaxDecisions
    BY <2>1, <2>2, <2>3
  <2> QED BY <2>3, <2>4, <2>5, <2>6 DEF TypeOK
<1>10. Forest'
  <2>1. count' = n
    BY <1>2 DEF n
  <2> SUFFICES ASSUME NEW d \in Below(n)
               PROVE  /\ parent'[d] <= d /\ leader'[d] <= d
                      /\ leader'[parent'[d]] = leader'[d]
                      /\ leader'[leader'[d]] = leader'[d]
                      /\ parent'[d] = d => leader'[d] = d
    BY <2>1 DEF Forest
  <2> QED BY <1>8 DEF IInv, Forest
<1>11. Numbered'
  <2>1. Settled = count /\ Settled' = n /\ created' = 0 /\ n <= n
    BY <1>1, <1>2, <1>4, <1>5 DEF Settled, IInv, LoopOrder, n
  <2>2. ASSUME NEW d \in Below(n) PROVE 0 <= column'[d] /\ column'[d] < columns' + created'
    <3>1. column'[d] \in Below(layerEnd[k].columns)
      BY <1>6, <1>8
    <3>2. columns' = layerEnd[k].columns
      BY <1>2
    <3> QED BY <3>1, <3>2, <2>1, <1>5 DEF Below
  <2>3. \A d, e \in Below(n) : leader'[d] < leader'[e] <=> column'[d] < column'[e]
    BY <2>1, <1>8 DEF IInv, Numbered
  <2>4. count' = n /\ n <= n
    BY <1>2, <1>5 DEF n
  <2> QED BY <2>1, <2>2, <2>3, <2>4 DEF Numbered
<1>12. (Finding /\ OwnedPrefix /\ LoopOrder)'
  BY <1>1, <1>4 DEF IInv, Finding, OwnedPrefix, LoopOrder
<1>13. Ends'
  <2>1. ASSUME NEW i \in 1 .. k
        PROVE  /\ layerEnd[i].decisions <= n /\ layerEnd[i].columns <= layerEnd[k].columns
               /\ \A d \in Below(layerEnd[i].decisions) : column'[d] \in Below(layerEnd[i].columns)
    <3>1. layerEnd[i].decisions <= n /\ layerEnd[i].columns <= layerEnd[k].columns
      BY <1>3, <1>7 DEF IInv, Ends, n
    <3>2. layerEnd[i].decisions \in Nat
      BY <1>7, EndTypes DEF IInv
    <3>3. \A d \in Below(layerEnd[i].decisions) : d \in Below(n)
      BY <3>1, <3>2, <1>5 DEF Below
    <3> QED BY <3>1, <3>3, <1>7, <1>8 DEF IInv, Ends
  <2> QED BY <2>1, <1>2, <1>4, <1>7 DEF IInv, Ends, n
<1> QED BY <1>9, <1>10, <1>11, <1>12, <1>13 DEF IInv

\* The invariant speaks of vars only.
LEMMA StutterInv == ASSUME IInv, UNCHANGED vars PROVE IInv'
<1>1. /\ UNCHANGED <<parent, leader, column, count, columns, layerEnd>>
      /\ UNCHANGED <<pc, extending, fallback, first, todo, x, y, rx, ask, cur, next, created>>
  BY DEF vars, model, args, join, finds, loop
<1>2. Joining' = Joining /\ InLoop' = InLoop /\ Settled' = Settled
  BY <1>1 DEF Joining, InLoop, Settled
<1>3. TypeOK' /\ Forest'
  BY <1>1 DEF IInv, TypeOK, Forest
<1>4. Numbered' /\ OwnedPrefix' /\ LoopOrder' /\ Ends'
  BY <1>1, <1>2 DEF IInv, Numbered, OwnedPrefix, LoopOrder, Ends
<1>5. Finding'
  BY <1>1 DEF IInv, Finding, Sought
<1> QED BY <1>3, <1>4, <1>5 DEF IInv

\* The invariant is inductive.
LEMMA NextInv == ASSUME IInv, [Next]_vars PROVE IInv'
<1>1. CASE Answer
  BY <1>1, OwnsXInv, OwnsYInv, RootXInv, SameRootInv, OwnAColumnApieceInv, UniteAInv, UniteBInv,
     NewColumnInv, SharedColumnInv, OldColumnInv DEF Answer
<1>2. CASE Step
  BY <1>1, <1>2, HalveInv, ReadJoinInv, StartColumnsInv, ReadDecisionInv, HandOverInv,
     BuildFallbackInv DEF Step
<1> QED BY <1>2, BuildFullInv, ExtendInv, TruncateInv, BuildFailsInv, StutterInv DEF Next

\* A kept layer's end is below the decisions and columns there are.
LEMMA EndBelowCount ==
    ASSUME IInv, NEW k \in 1 .. Len(layerEnd)
    PROVE  layerEnd[k].decisions <= count
<1>1. layerEnd[k].decisions <= IF Joining \/ InLoop THEN first ELSE count
  BY DEF IInv, Ends
<1>2. first \in Nat /\ count \in Nat /\ next \in Nat /\ layerEnd[k].decisions \in Nat
  BY EndTypes, BoundsAssumption DEF IInv, TypeOK, BoundsAssumption
<1>3. Joining => first <= count
  BY DEF IInv, Numbered, Settled, Joining
<1>4. InLoop => first <= next /\ next <= count
  BY DEF IInv, Numbered, Settled, Joining, InLoop, LoopOrder
<1> QED BY <1>1, <1>2, <1>3, <1>4

-----------------------------------------------------------------------------
(* The theorems.                                                           *)

\* The strengthening is an invariant of every build of every model.
THEOREM Invariance == Spec => []IInv
BY InitInv, NextInv, PTL DEF Spec

\* The forest, the columns and the layer ends keep their types and ranges.
THEOREM TypeCorrect == Spec => []TypeOK
<1>1. IInv => TypeOK
  BY DEF IInv
<1> QED BY <1>1, Invariance, PTL

\* A root of the forest is always the first decision of its class, through
\* every halving of a path, every union, every extension and truncation.
THEOREM RootsLeadHolds == Spec => []RootsLead
<1>1. IInv => RootsLead
  <2> SUFFICES ASSUME IInv, NEW d \in Below(count) PROVE parent[d] = d <=> leader[d] = d
    BY DEF RootsLead
  <2>1. parent[d] \in Below(count) /\ parent[d] \in Nat /\ d \in Nat
    BY Types DEF IInv
  <2>2. ASSUME leader[d] = d PROVE parent[d] = d
    <3>1. leader[parent[d]] = d /\ parent[d] <= d /\ leader[parent[d]] <= parent[d]
      BY <2>1, <2>2 DEF IInv, Forest
    <3> QED BY <3>1, <2>1
  <2> QED BY <2>2 DEF IInv, Forest
<1> QED BY <1>1, Invariance, PTL

\* Between builds two decisions share a column exactly when they were joined,
\* and the columns follow the order of the classes.
THEOREM ColumnOrderHolds == Spec => []ColumnOrder
<1>1. IInv => ColumnOrder
  BY DEF IInv, Numbered, Settled, ColumnOrder
<1> QED BY <1>1, Invariance, PTL

\* Between builds every decision has a column the backend was given.
THEOREM EveryDecisionHasColumnHolds == Spec => []EveryDecisionHasColumn
<1>1. IInv => EveryDecisionHasColumn
  <2> SUFFICES ASSUME IInv, pc = "idle", NEW d \in Below(count)
               PROVE  column[d] \in Below(columns)
    BY DEF EveryDecisionHasColumn
  <2>1. created = 0
    BY DEF IInv, LoopOrder, InLoop
  <2>2. 0 <= column[d] /\ column[d] < columns + created
    BY DEF IInv, Numbered, Settled
  <2>3. columns \in Nat /\ column[d] \in Int
    BY Types DEF IInv, TypeOK
  <2> QED BY <2>1, <2>2, <2>3 DEF Below
<1> QED BY <1>1, Invariance, PTL

\* A layer's end cuts decisions and columns at the same place for as long as
\* it is kept, also while a layer above it is being built.
THEOREM CutKeepsColumnsHolds == Spec => []CutKeepsColumns
<1>1. IInv => CutKeepsColumns
  BY EndBelowCount DEF IInv, Ends, CutKeepsColumns
<1> QED BY <1>1, Invariance, PTL

\* While a layer's end is kept no step renumbers a decision below it: this is
\* what lets a run post only what lies above the last unchanged layer.
THEOREM KeptColumnsStableHolds == Spec => KeptColumnsStable
<1> DEFINE Stable ==
        \A k \in 1 .. Len(layerEnd) :
          k <= Len(layerEnd') =>
              \A d \in Below(layerEnd[k].decisions) :
                  /\ d < count'
                  /\ column'[d] = column[d]
<1>1. ASSUME IInv, [Next]_vars PROVE Stable
  <2> SUFFICES ASSUME NEW k \in 1 .. Len(layerEnd), k <= Len(layerEnd'),
                      NEW d \in Below(layerEnd[k].decisions)
               PROVE  d < count' /\ column'[d] = column[d]
    OBVIOUS
  <2>1. /\ d \in Nat /\ d < layerEnd[k].decisions /\ layerEnd[k].decisions <= count
        /\ layerEnd[k].decisions \in Nat /\ count \in Nat /\ d \in Below(count) /\ d < count
    <3>1. layerEnd[k].decisions \in Nat /\ layerEnd[k].decisions <= count /\ count \in Nat
      BY <1>1, EndBelowCount, EndTypes, BoundsAssumption, SMTT(30) DEF IInv, TypeOK, BoundsAssumption
    <3> QED BY <3>1 DEF Below
  <2>2. CASE column' = column /\ count' = count
    BY <2>1, <2>2
  <2>3. CASE layerEnd' = <<>>
    <3>1. Len(layerEnd') = 0
      BY <2>3
    <3>2. k >= 1
      OBVIOUS
    <3> QED BY <3>1, <3>2, EndTypes, <1>1 DEF IInv
  <2>4. ASSUME NewColumn \/ SharedColumn PROVE d < count' /\ column'[d] = column[d]
    <3>1. Found("column") /\ count' = count
      BY <2>4 DEF NewColumn, SharedColumn
    <3>2. d # next
      <4>1. layerEnd[k].decisions <= first /\ first <= next
        BY <1>1, <3>1, LoopFacts DEF IInv, Ends, LoopOrder
      <4>2. first \in Nat /\ next \in Nat
        BY <1>1 DEF IInv, TypeOK
      <4> QED BY <4>1, <4>2, <2>1
    <3>3. ASSUME NewColumn PROVE cur = next
      <4>1. ASSUME cur # next PROVE FALSE
        <5>1. column[cur] < 0 /\ 0 <= column[cur]
          BY <1>1, <3>1, <3>3, <4>1, LoopFacts DEF IInv, Numbered, NewColumn
        <5> QED BY <1>1, <3>1, <5>1, LoopFacts, Types DEF IInv
      <4> QED BY <4>1
    <3>4. column \in [Below(count) -> Nat \cup {-1}]
      BY <1>1 DEF IInv, TypeOK
    <3>5. CASE NewColumn
      <4>1. column' = [column EXCEPT ![cur] = columns + created, ![next] = columns + created]
        BY <3>5 DEF NewColumn
      <4> QED BY <2>1, <3>1, <3>2, <3>3, <3>4, <3>5, <4>1
    <3>6. CASE SharedColumn
      <4>1. column' = [column EXCEPT ![next] = column[cur]]
        BY <3>6 DEF SharedColumn
      <4> QED BY <2>1, <3>1, <3>2, <3>4, <4>1
    <3> QED BY <2>4, <3>5, <3>6
  <2>5. ASSUME Extend PROVE d < count' /\ column'[d] = column[d]
    <3>1. PICK n \in Kept.decisions .. MaxDecisions :
            /\ count' = n
            /\ column' = [e \in Below(n) |-> IF e < count THEN column[e] ELSE -1]
      BY <2>5 DEF Extend
    <3>2. layerEnd[k].decisions <= Kept.decisions /\ Kept.decisions \in Nat
      <4>1. Len(layerEnd) \in 1 .. Len(layerEnd) /\ k <= Len(layerEnd)
        BY <1>1, EndTypes DEF IInv
      <4> QED BY <1>1, <4>1, EndTypes DEF IInv, Ends, Kept
    <3>3. d < n /\ d \in Below(n) /\ n \in Nat
      BY <2>1, <3>1, <3>2, BoundsAssumption DEF BoundsAssumption, Below
    <3> QED BY <2>1, <3>1, <3>3
  <2>6. ASSUME Truncate PROVE d < count' /\ column'[d] = column[d]
    <3>1. PICK m \in 1 .. Len(layerEnd) - 1 :
            /\ column' = Cut(column, layerEnd[m].decisions)
            /\ count' = layerEnd[m].decisions
            /\ layerEnd' = SubSeq(layerEnd, 1, m)
      BY <2>6 DEF Truncate
    <3>2. m \in 1 .. Len(layerEnd) /\ m \in Nat /\ k <= m
      <4>1. layerEnd \in Seq([decisions : Nat, columns : Nat]) /\ Len(layerEnd) \in Nat
        BY <1>1, EndTypes DEF IInv, TypeOK
      <4>2. m \in 1 .. Len(layerEnd) /\ m \in Nat
        BY <4>1
      <4>3. Len(SubSeq(layerEnd, 1, m)) = m
        BY <4>1, <4>2
      <4> QED BY <3>1, <4>2, <4>3
    <3>3. layerEnd[k].decisions <= layerEnd[m].decisions /\ layerEnd[m].decisions \in Nat
      BY <1>1, <3>2, EndTypes DEF IInv, Ends
    <3>4. d < layerEnd[m].decisions /\ d \in Below(layerEnd[m].decisions)
      BY <2>1, <3>3 DEF Below
    <3> QED BY <3>1, <3>4 DEF Cut
  <2>7. CASE Answer
    BY <2>2, <2>4, <2>7 DEF Answer, OwnsX, OwnsY, RootX, SameRoot, OwnAColumnApiece, UniteA, UniteB,
       OldColumn, model
  <2>8. CASE Step
    BY <2>2, <2>3, <2>7, <2>8 DEF Step, Halve, ReadJoin, StartColumns, ReadDecision, HandOver,
       BuildFallback, BuildWhole, model
  <2>9. CASE UNCHANGED vars
    BY <2>2, <2>9 DEF vars, model
  <2> QED BY <1>1, <2>3, <2>5, <2>6, <2>8, <2>9 DEF Next, BuildFull, BuildWhole, BuildFails
<1>2. IInv /\ [Next]_vars => [Stable]_vars
  BY <1>1
<1> QED BY <1>2, Invariance, PTL DEF Spec, KeptColumnsStable

-----------------------------------------------------------------------------
(***************************************************************************)
(* Aliasing implements ColumnClasses: the forest, the finds and the loops  *)
(* of a build are stuttering steps, and handing the columns over is one    *)
(* numbering of the classes.  RInv adds to IInv what the numbering needs:  *)
(* which column a class gets is how many classes come before it.           *)
(***************************************************************************)
\* The first decisions of the new classes below n.
NewRoots(n) == {r \in first .. n - 1 : leader[r] = r}

\* A build above kept layers begins where the last of them ends; any other has
\* nothing below it.
BuildsAboveKept ==
    Joining \/ InLoop =>
        IF extending THEN layerEnd # <<>> /\ first = Kept.decisions /\ ~fallback
        ELSE layerEnd = <<>> /\ first = 0

\* Decisions that had a column before the build come before those that had none.
OldFirst ==
    InLoop =>
        \A d, e \in Below(count) :
            d < e /\ HandedOver[e] >= 0 => HandedOver[d] >= 0

\* The loop counts the new classes, and gives each the number it counted.
Counted ==
    InLoop =>
        /\ created = Cardinality(NewRoots(next))
        /\ \A d \in first .. next - 1 : column[d] = columns + Cardinality(NewRoots(leader[d]))

RInv == IInv /\ BuildsAboveKept /\ OldFirst /\ Counted

-----------------------------------------------------------------------------
LEMMA NewRootsFinite ==
    ASSUME TypeOK, NEW n \in Nat
    PROVE  IsFiniteSet(NewRoots(n)) /\ Cardinality(NewRoots(n)) \in Nat
<1>1. first \in Int /\ n - 1 \in Int
  BY DEF TypeOK
<1>2. IsFiniteSet(first .. n - 1)
  BY <1>1, FS_Interval
<1>3. NewRoots(n) \subseteq first .. n - 1
  BY DEF NewRoots
<1> QED
  BY <1>2, <1>3, FS_Subset, FS_CardinalityType

\* What is handed over of a decision.
LEMMA HandedOverIs ==
    ASSUME NEW d \in Below(count)
    PROVE  HandedOver[d] = IF column[d] < columns THEN column[d] ELSE -1
BY DEF HandedOver

\* The loop's turn leaves what was handed over.
LEMMA TurnStutters ==
    ASSUME RInv, NewColumn \/ SharedColumn
    PROVE  /\ HandedOver' = HandedOver
           /\ UNCHANGED <<leader, count, columns, layerEnd, extending, fallback, first>>
           /\ InLoop' /\ ~Joining'
<1> USE DEF RInv
<1>1. Found("column")
  BY DEF NewColumn, SharedColumn
<1>2. /\ UNCHANGED <<leader, count, columns, layerEnd, extending, fallback, first>>
      /\ pc' = "columns"
  BY DEF NewColumn, SharedColumn, args
<1>3. next \in Below(count) /\ cur \in Below(count) /\ cur <= next /\ InLoop
  BY <1>1, LoopFacts
<1>4. columns \in Nat /\ created \in Nat /\ column[cur] \in Int /\ column[next] \in Int
  BY <1>3, Types DEF IInv, TypeOK
<1>5. column[next] < 0 /\ column'[next] >= columns
  <2>1. CASE NewColumn
    <3>1. cur = next
      <4> SUFFICES ASSUME cur # next PROVE FALSE
        OBVIOUS
      <4>1. column[cur] < 0 /\ 0 <= column[cur]
        BY <2>1, <1>1, LoopFacts DEF NewColumn, IInv, Numbered
      <4> QED
        BY <4>1, <1>4
    <3>2. column'[next] = columns + created
      BY <2>1, <3>1, <1>3 DEF NewColumn, IInv, TypeOK
    <3> QED
      BY <2>1, <3>1, <3>2, <1>4 DEF NewColumn
  <2>2. CASE SharedColumn
    <3>1. column'[next] = column[cur] /\ column[cur] >= columns
      BY <2>2, <1>3 DEF SharedColumn, IInv, TypeOK
    <3>2. column[next] < columns
      BY <1>1, LoopFacts
    <3>3. ~(column[next] >= 0)
      <4> SUFFICES ASSUME column[next] >= 0 PROVE FALSE
        OBVIOUS
      <4>1. cur # next
        BY <3>1, <3>2, <1>4
      <4>2. cur < next
        BY <4>1, <1>3, Types DEF IInv
      <4>3. HandedOver[next] >= 0
        BY <3>2, <1>3, HandedOverIs
      <4>4. HandedOver[cur] >= 0
        BY <4>2, <4>3, <1>3 DEF OldFirst
      <4>5. HandedOver[cur] = -1
        BY <3>1, <1>3, <1>4, HandedOverIs
      <4> QED
        BY <4>4, <4>5
    <3> QED
      BY <3>1, <3>3, <1>4
  <2> QED
    BY <2>1, <2>2
<1>6. ASSUME NEW d \in Below(count), d # next PROVE column'[d] = column[d]
  <2>1. CASE NewColumn
    <3>1. cur = next
      <4> SUFFICES ASSUME cur # next PROVE FALSE
        OBVIOUS
      <4>1. column[cur] < 0 /\ 0 <= column[cur]
        BY <2>1, <1>1, LoopFacts DEF NewColumn, IInv, Numbered
      <4> QED
        BY <4>1, <1>4
    <3> QED
      BY <2>1, <3>1, <1>6 DEF NewColumn, IInv, TypeOK
  <2>2. CASE SharedColumn
    BY <2>2, <1>6 DEF SharedColumn, IInv, TypeOK
  <2> QED
    BY <2>1, <2>2
<1>7. ASSUME NEW d \in Below(count)
      PROVE  (IF column'[d] < columns THEN column'[d] ELSE -1)
                = (IF column[d] < columns THEN column[d] ELSE -1)
  <2>1. CASE d = next
    <3>1. column[next] = -1
      BY <1>3, <1>5, Types DEF IInv
    <3>2. ~(column'[next] < columns)
      <4>1. column'[next] \in Int
        <5>1. CASE NewColumn
          BY <5>1, <1>3, <1>4 DEF NewColumn, IInv, TypeOK
        <5>2. CASE SharedColumn
          BY <5>2, <1>3, <1>4 DEF SharedColumn, IInv, TypeOK
        <5> QED
          BY <5>1, <5>2
      <4> QED
        BY <4>1, <1>5, <1>4
    <3> QED
      BY <2>1, <3>1, <3>2
  <2>2. CASE d # next
    BY <2>2, <1>6
  <2> QED
    BY <2>1, <2>2
<1>8. HandedOver' = HandedOver
  BY <1>2, <1>7 DEF HandedOver
<1> QED
  BY <1>2, <1>8 DEF InLoop, Joining

\* Another decision of a class that was met: no new class.  The first of one: the
\* next number.
LEMMA TurnCounts ==
    ASSUME RInv, NewColumn \/ SharedColumn
    PROVE  Counted'
<1> USE DEF RInv
<1>1. Found("column")
  BY DEF NewColumn, SharedColumn
<1>2. /\ next \in Below(count) /\ cur \in Below(count) /\ cur <= next /\ InLoop
      /\ leader[cur] = cur /\ leader[next] = cur
      /\ cur # next => cur \in Below(next)
      /\ \A d \in Below(next) : d \in Below(count) /\ d < next
  BY <1>1, LoopFacts
<1>3. /\ next \in Nat /\ cur \in Nat /\ first \in Nat /\ first <= next
      /\ columns \in Nat /\ created \in Nat /\ count \in Nat
  BY <1>2, Types DEF IInv, TypeOK, LoopOrder
<1>4. /\ UNCHANGED <<leader, columns, first>> /\ next' = next + 1
  BY DEF NewColumn, SharedColumn, args
<1>5. \A n : NewRoots(n)' = NewRoots(n)
  BY <1>4 DEF NewRoots
<1>6. ASSUME NEW d \in first .. next - 1
      PROVE  /\ d \in Below(next) /\ d \in Below(count) /\ d # next
             /\ column[d] = columns + Cardinality(NewRoots(leader[d]))
  BY <1>2, <1>3 DEF Below, Counted
<1>7. created = Cardinality(NewRoots(next))
  BY <1>2 DEF Counted
<1>8. CASE NewColumn
  <2>1. cur = next
    <3> SUFFICES ASSUME cur # next PROVE FALSE
      OBVIOUS
    <3>1. column[cur] < 0 /\ 0 <= column[cur] /\ column[cur] \in Int
      BY <1>1, <1>2, <1>8, LoopFacts, Types DEF NewColumn, IInv, Numbered
    <3> QED
      BY <3>1
  <2>2. NewRoots(next + 1) = NewRoots(next) \cup {next}
    BY <1>2, <1>3, <2>1 DEF NewRoots
  <2>3. next \notin NewRoots(next)
    BY <1>3 DEF NewRoots
  <2>4. Cardinality(NewRoots(next + 1)) = created + 1
    BY <1>3, <1>7, <2>2, <2>3, NewRootsFinite, FS_AddElement DEF IInv
  <2>5. /\ created' = created + 1
        /\ column' = [column EXCEPT ![next] = columns + created]
    BY <1>8, <2>1 DEF NewColumn, IInv, TypeOK
  <2>6. ASSUME NEW d \in first .. next
        PROVE  column'[d] = columns + Cardinality(NewRoots(leader[d]))
    <3>1. CASE d = next
      BY <1>2, <1>7, <2>1, <2>5, <3>1 DEF IInv, TypeOK
    <3>2. CASE d # next
      <4>1. d \in first .. next - 1
        BY <1>3, <3>2
      <4>2. column'[d] = column[d]
        BY <1>6, <2>5, <4>1 DEF IInv, TypeOK
      <4> QED
        BY <1>6, <4>1, <4>2
    <3> QED
      BY <3>1, <3>2
  <2>7. first .. next' - 1 = first .. next
    BY <1>3, <1>4
  <2> QED
    BY <1>4, <1>5, <2>4, <2>5, <2>6, <2>7 DEF Counted
<1>9. CASE SharedColumn
  <2>1. column[cur] >= columns /\ created' = created
        /\ column' = [column EXCEPT ![next] = column[cur]]
    BY <1>9 DEF SharedColumn
  <2>2. cur # next
    BY <1>1, <1>2, <1>3, <2>1, LoopFacts, Types DEF IInv
  <2>3. NewRoots(next + 1) = NewRoots(next)
    BY <1>2, <1>3, <2>2 DEF NewRoots
  <2>4. cur \in first .. next - 1
    <3> SUFFICES ASSUME cur < first PROVE FALSE
      BY <1>2, <1>3, <2>2
    <3>1. extending
      BY <1>2, <1>3 DEF BuildsAboveKept
    <3>2. layerEnd # <<>> /\ first = Kept.decisions
      BY <1>2, <3>1 DEF BuildsAboveKept
    <3>3. Len(layerEnd) \in 1 .. Len(layerEnd)
      <4>1. layerEnd \in Seq([decisions : Nat, columns : Nat])
        BY DEF IInv, TypeOK
      <4> QED
        BY <3>2, <4>1, EmptySeq, LenProperties
    <3>4. column[cur] < Kept.columns /\ Kept.columns <= columns
      BY <1>3, <3>2, <3>3, EndTypes DEF IInv, Ends, Kept, Below
    <3> QED
      BY <1>2, <1>3, <2>1, <3>3, <3>4, EndTypes, Types DEF IInv, Kept
  <2>5. ASSUME NEW d \in first .. next
        PROVE  column'[d] = columns + Cardinality(NewRoots(leader[d]))
    <3>1. CASE d = next
      <4>1. column'[d] = column[cur]
        BY <1>2, <2>1, <3>1 DEF IInv, TypeOK
      <4> QED
        BY <1>2, <1>6, <2>4, <3>1, <4>1
    <3>2. CASE d # next
      <4>1. d \in first .. next - 1
        BY <1>3, <3>2
      <4>2. column'[d] = column[d]
        BY <1>6, <2>1, <4>1 DEF IInv, TypeOK
      <4> QED
        BY <1>6, <4>1, <4>2
    <3> QED
      BY <3>1, <3>2
  <2>6. first .. next' - 1 = first .. next
    BY <1>3, <1>4
  <2> QED
    BY <1>4, <1>5, <1>7, <2>1, <2>3, <2>5, <2>6 DEF Counted
<1> QED
  BY <1>8, <1>9

-----------------------------------------------------------------------------
LEMMA InitRInv == ASSUME Init PROVE RInv
<1>1. IInv
  BY InitInv
<1>2. ~Joining /\ ~InLoop
  BY DEF Init, Joining, InLoop
<1> QED
  BY <1>1, <1>2 DEF RInv, BuildsAboveKept, OldFirst, Counted

\* Pass 1 and the finds of both passes change nothing that RInv adds.
LEMMA QuietStep ==
    ASSUME RInv, UNCHANGED <<column, count, columns, layerEnd, args, next, created>>,
           InLoop' => InLoop /\ leader' = leader,
           Joining' \/ InLoop' => Joining \/ InLoop
    PROVE  BuildsAboveKept' /\ OldFirst' /\ Counted'
<1>1. BuildsAboveKept'
  BY DEF RInv, BuildsAboveKept, Kept, args
<1>2. HandedOver' = HandedOver
  BY DEF HandedOver
<1>3. OldFirst'
  BY <1>2 DEF RInv, OldFirst
<1>4. Counted'
  BY DEF RInv, Counted, NewRoots, args
<1> QED
  BY <1>1, <1>3, <1>4

\* A step to where no build runs.
LEMMA BuildOver ==
    ASSUME ~Joining', ~InLoop'
    PROVE  BuildsAboveKept' /\ OldFirst' /\ Counted'
BY DEF BuildsAboveKept, OldFirst, Counted

LEMMA StartColumnsRInv ==
    ASSUME RInv, StartColumns
    PROVE  BuildsAboveKept' /\ OldFirst' /\ Counted'
<1>1. /\ Joining /\ pc' = "columns" /\ next' = first /\ created' = 0
      /\ UNCHANGED <<column, count, columns, layerEnd, extending, fallback, first, leader>>
  BY DEF StartColumns, Joining, model, args
<1>2. BuildsAboveKept'
  BY <1>1 DEF RInv, BuildsAboveKept, Kept
<1>3. OldFirst'
  <2> SUFFICES ASSUME NEW d \in Below(count), NEW e \in Below(count),
                      d < e, HandedOver[e] >= 0
               PROVE  HandedOver[d] >= 0
    BY <1>1 DEF OldFirst, HandedOver
  <2>1. column[d] < columns /\ column[e] < columns
    BY <1>1 DEF RInv, IInv, OwnedPrefix
  <2>2. HandedOver[d] = column[d] /\ HandedOver[e] = column[e]
    BY <2>1, HandedOverIs
  <2> QED
    BY <1>1, <2>2 DEF RInv, IInv, OwnedPrefix
<1>4. Counted'
  <2>1. first \in Nat
    BY DEF RInv, IInv, TypeOK
  <2>2. first .. first - 1 = {}
    BY <2>1
  <2>3. NewRoots(next)' = {}
    BY <1>1, <2>2 DEF NewRoots
  <2>4. \A d \in first' .. next' - 1 : FALSE
    BY <1>1, <2>2
  <2> QED
    BY <1>1, <2>3, <2>4, FS_EmptySet DEF Counted
<1> QED
  BY <1>2, <1>3, <1>4

LEMMA BeginRInv ==
    ASSUME RInv, BuildFull \/ BuildFallback \/ Extend
    PROVE  BuildsAboveKept' /\ OldFirst' /\ Counted'
<1>1. pc' = "join"
  BY DEF BuildFull, BuildFallback, Extend, BuildWhole
<1>2. ~InLoop'
  BY <1>1 DEF InLoop
<1>3. BuildsAboveKept'
  <2>1. CASE BuildFull \/ BuildFallback
    BY <2>1 DEF BuildFull, BuildFallback, BuildWhole, BuildsAboveKept
  <2>2. CASE Extend
    BY <2>2 DEF Extend, BuildsAboveKept, Kept
  <2> QED
    BY <2>1, <2>2
<1> QED
  BY <1>2, <1>3 DEF OldFirst, Counted

LEMMA NextRInv == ASSUME RInv, [Next]_vars PROVE RInv'
<1>1. IInv'
  BY NextInv DEF RInv
<1> SUFFICES BuildsAboveKept' /\ OldFirst' /\ Counted'
  BY <1>1 DEF RInv
<1>2. CASE UNCHANGED vars
  BY <1>2, QuietStep DEF vars, model, args, finds, loop, Joining, InLoop
<1>3. CASE Halve
  <2>1. /\ UNCHANGED <<column, count, columns, layerEnd, args, next, created, leader>>
        /\ UNCHANGED <<pc, ask>>
    BY <1>3 DEF Halve, loop
  <2> QED
    BY <2>1, QuietStep DEF Joining, InLoop
<1>4. CASE ReadJoin
  <2>1. /\ UNCHANGED <<column, count, columns, layerEnd, args, next, created, leader>>
        /\ pc = "join" /\ pc' = "find" /\ ask' \in {"owns x", "a"}
    BY <1>4 DEF ReadJoin, Find, model, loop
  <2> QED
    BY <2>1, QuietStep DEF Joining, InLoop
<1>5. CASE OwnsX \/ OwnsY \/ RootX \/ SameRoot \/ UniteA
  <2>1. /\ UNCHANGED <<column, count, columns, layerEnd, args, next, created, leader>>
        /\ pc = "find" /\ pc' = "find" /\ ask # "column" /\ ask' # "column"
    BY <1>5 DEF OwnsX, OwnsY, RootX, SameRoot, UniteA, Found, Find, model, loop
  <2> QED
    BY <2>1, QuietStep DEF Joining, InLoop
<1>6. CASE UniteB
  <2>1. /\ UNCHANGED <<column, count, columns, layerEnd, args, next, created>>
        /\ pc = "find" /\ pc' = "join" /\ ask = "b"
    BY <1>6 DEF UniteB, Found, loop
  <2> QED
    BY <2>1, QuietStep DEF Joining, InLoop
<1>7. CASE OwnAColumnApiece \/ OldColumn
  <2>1. pc' = "rebuild"
    BY <1>7 DEF OwnAColumnApiece, OldColumn
  <2> QED
    BY <2>1, BuildOver DEF Joining, InLoop
<1>8. CASE HandOver \/ BuildFails \/ Truncate
  <2>1. pc' = "idle"
    <3>1. CASE HandOver
      BY <3>1 DEF HandOver
    <3>2. CASE BuildFails
      BY <3>2 DEF BuildFails
    <3>3. CASE Truncate
      BY <3>3 DEF Truncate, RInv
    <3> QED
      BY <1>8, <3>1, <3>2, <3>3
  <2> QED
    BY <2>1, BuildOver DEF Joining, InLoop
<1>9. CASE ReadDecision
  <2>1. /\ UNCHANGED <<column, count, columns, layerEnd, args, next, created, leader>>
        /\ pc = "columns" /\ pc' = "find" /\ ask' = "column"
    BY <1>9 DEF ReadDecision, Find, model, loop
  <2> QED
    BY <2>1, QuietStep DEF Joining, InLoop
<1>10. CASE NewColumn \/ SharedColumn
  <2>1. InLoop
    BY <1>10 DEF NewColumn, SharedColumn, Found, InLoop
  <2>2. BuildsAboveKept'
    BY <1>10, <2>1, TurnStutters DEF RInv, BuildsAboveKept, Kept
  <2>3. OldFirst'
    BY <1>10, <2>1, TurnStutters DEF RInv, OldFirst
  <2> QED
    BY <1>10, <2>2, <2>3, TurnCounts
<1> QED
  BY <1>2, <1>3, <1>4, <1>5, <1>6, <1>7, <1>8, <1>9, <1>10, StartColumnsRInv, BeginRInv
  DEF Next, Step, Answer

THEOREM RefinementInvariance == Spec => []RInv
BY InitRInv, NextRInv, PTL DEF Spec

-----------------------------------------------------------------------------
(* The steps of ColumnClasses.                                             *)
LEMMA CardinalityIs == \A S : Classes!Cardinality(S) = Cardinality(S)
BY Zenon DEF Cardinality, Classes!Cardinality

LEMMA BelowIs == \A n : Classes!Below(n) = Below(n)
BY DEF Below, Classes!Below

\* What the abstract specification calls the decisions and those with a column.
LEMMA OwnedIs ==
    ASSUME RInv
    PROVE  /\ Classes!Decisions = Below(count)
           /\ Classes!Owned = {d \in Below(count) : HandedOver[d] >= 0}
BY DEF Classes!Decisions, Classes!Owned, HandedOver

LEMMA KeptIs ==
    ASSUME RInv
    PROVE  /\ layerEnd = <<>> => Classes!KeptDecisions = {}
           /\ layerEnd # <<>> => /\ Classes!KeptDecisions = Below(Kept.decisions)
                                /\ Kept.decisions \in Nat /\ Kept.columns \in Nat
                                /\ Kept.columns <= columns
                                /\ Len(layerEnd) \in 1 .. Len(layerEnd)
<1>1. layerEnd = <<>> => Classes!KeptDecisions = {}
  BY DEF Classes!KeptDecisions
<1>2. ASSUME layerEnd # <<>>
      PROVE  /\ Classes!KeptDecisions = Below(Kept.decisions)
             /\ Kept.decisions \in Nat /\ Kept.columns \in Nat
             /\ Kept.columns <= columns
             /\ Len(layerEnd) \in 1 .. Len(layerEnd)
  <2>1. Len(layerEnd) \in 1 .. Len(layerEnd)
    <3>1. layerEnd \in Seq([decisions : Nat, columns : Nat])
      BY DEF RInv, IInv, TypeOK
    <3> QED
      BY <1>2, <3>1, EmptySeq, LenProperties
  <2>2. /\ Kept.decisions \in Nat /\ Kept.columns \in Nat /\ Kept.columns <= columns
    BY <2>1, EndTypes DEF RInv, IInv, Ends, Kept
  <2>3. Classes!KeptDecisions = Below(Kept.decisions)
    BY <1>2, BelowIs DEF Classes!KeptDecisions, Kept
  <2> QED
    BY <2>1, <2>2, <2>3
<1> QED
  BY <1>1, <1>2

\* Between builds every decision has a column.
LEMMA AllOwned ==
    ASSUME RInv, pc = "idle"
    PROVE  /\ \A d \in Below(count) : 0 <= column[d] /\ column[d] < columns /\ HandedOver[d] = column[d]
           /\ Classes!Owned = Classes!Decisions
<1>1. created = 0 /\ Settled = count
  BY DEF RInv, IInv, LoopOrder, InLoop, Settled
<1>2. columns \in Nat
  BY DEF RInv, IInv, TypeOK
<1>3. \A d \in Below(count) : 0 <= column[d] /\ column[d] < columns /\ HandedOver[d] = column[d]
  BY <1>1, <1>2, HandedOverIs DEF RInv, IInv, Numbered
<1> QED
  BY <1>3, OwnedIs

\* A function on nothing.
LEMMA NoDecisions == [d \in Below(0) |-> 0] = <<>>
BY DEF Below

LEMMA InitImplements == ASSUME Init PROVE Classes!Init
<1>1. HandedOver = <<>>
  <2>1. Below(0) = {}
    BY DEF Below
  <2> QED
    BY <2>1 DEF Init, HandedOver
<1> QED
  BY <1>1, NoDecisions DEF Init, Classes!Init, Empty

LEMMA BuildWholeImplements ==
    ASSUME RInv, NEW n \in 0 .. MaxDecisions, BuildWhole(n)
    PROVE  Classes!StartOver
<1>1. n \in Nat
  BY BoundsAssumption DEF BoundsAssumption
<1>2. /\ leader' = [d \in Classes!Below(n) |-> d]
      /\ columns' = 0 /\ layerEnd' = <<>> /\ count' = n
      /\ \A d \in Below(n) : column'[d] = -1
  BY BelowIs DEF BuildWhole
<1>3. HandedOver' = [d \in Classes!Below(n) |-> -1]
  BY <1>2, BelowIs DEF HandedOver
<1> QED
  BY <1>2, <1>3 DEF Classes!StartOver

LEMMA ExtendImplements == ASSUME RInv, Extend PROVE Classes!Grow
<1>1. pc = "idle" /\ layerEnd # <<>> /\ UNCHANGED <<columns, layerEnd>>
  BY DEF Extend
<1>2. PICK n \in Kept.decisions .. MaxDecisions :
        /\ leader' = [d \in Below(n) |-> IF d < Kept.decisions THEN leader[d] ELSE d]
        /\ column' = [d \in Below(n) |-> IF d < count THEN column[d] ELSE -1]
        /\ count' = n
  BY DEF Extend
<1>3. /\ n \in Nat /\ n \in 0 .. MaxDecisions /\ Kept.decisions <= n
      /\ Kept.decisions \in Nat
      /\ Classes!KeptDecisions = Below(Kept.decisions)
  BY <1>1, <1>2, KeptIs, BoundsAssumption DEF BoundsAssumption
<1>4. count \in Nat /\ columns \in Nat
  BY BoundsAssumption DEF RInv, IInv, TypeOK, BoundsAssumption
<1>5. Classes!KeptDecisions \subseteq Classes!Below(n)
  BY <1>3, BelowIs DEF Below
<1>6. leader' = [d \in Classes!Below(n) |-> IF d \in Classes!KeptDecisions THEN leader[d] ELSE d]
  BY <1>2, <1>3, BelowIs DEF Below
<1>7. HandedOver' = [d \in Classes!Below(n) |-> IF d \in Classes!Decisions THEN HandedOver[d] ELSE -1]
  <2>1. HandedOver' = [d \in Below(n) |-> IF column'[d] < columns THEN column'[d] ELSE -1]
    BY <1>1, <1>2 DEF HandedOver
  <2>2. ASSUME NEW d \in Below(n)
        PROVE  (IF column'[d] < columns THEN column'[d] ELSE -1)
                  = (IF d \in Classes!Decisions THEN HandedOver[d] ELSE -1)
    <3>1. d \in Nat /\ (d < count <=> d \in Below(count))
      BY <1>3, <1>4 DEF Below
    <3>2. column'[d] = IF d < count THEN column[d] ELSE -1
      BY <1>2
    <3>3. CASE d \in Below(count)
      BY <3>1, <3>2, <3>3, OwnedIs, HandedOverIs
    <3>4. CASE d \notin Below(count)
      BY <1>4, <3>1, <3>2, <3>4, OwnedIs
    <3> QED
      BY <3>3, <3>4
  <2> QED
    BY <2>1, <2>2, BelowIs
<1>8. Classes!Owned = Classes!Decisions
  BY <1>1, AllOwned
<1> QED
  BY <1>1, <1>3, <1>5, <1>6, <1>7, <1>8 DEF Classes!Grow

LEMMA BuildFailsImplements == ASSUME RInv, BuildFails PROVE Classes!Drop
<1>1. leader' = <<>> /\ count' = 0 /\ columns' = 0 /\ layerEnd' = <<>>
  BY NoDecisions DEF BuildFails, Empty
<1>2. HandedOver' = <<>>
  <2>1. Below(count') = {}
    BY <1>1 DEF Below
  <2> QED
    BY <2>1 DEF HandedOver
<1> QED
  BY <1>1, <1>2 DEF Classes!Drop

\* The root of the merged class is the lower of the two.
LEMMA UniteBImplements == ASSUME RInv, UniteB PROVE Classes!Join
<1>1. /\ pc = "find" /\ ask = "b" /\ parent[cur] = cur
      /\ leader' = Merge(leader, rx, cur)
      /\ UNCHANGED <<column, count, columns, layerEnd>>
  BY DEF UniteB, Found
<1>2. /\ x \in Below(count) /\ y \in Below(count)
      /\ cur \in Below(count) /\ rx \in Below(count)
      /\ leader[x] = rx /\ leader[y] = cur
      /\ leader[x] = leader[y] \/ column[leader[x]] < 0 \/ column[leader[y]] < 0
  BY <1>1, FoundLeader DEF RInv, IInv, Finding, Sought
<1>3. /\ cur \in Nat /\ rx \in Nat /\ columns \in Nat
      /\ column[cur] \in Int /\ column[rx] \in Int
  BY <1>2, Types DEF RInv, IInv, TypeOK
<1>4. \/ leader[x] = leader[y]
      \/ {leader[x], leader[y]} \cap Classes!Owned # {leader[x], leader[y]}
  <2> SUFFICES ASSUME leader[x] # leader[y], NEW r \in {leader[x], leader[y]}, column[r] < 0
               PROVE  r \notin Classes!Owned
    BY <1>2
  <2>1. r \in Below(count)
    BY <1>2
  <2>2. HandedOver[r] \in Int /\ HandedOver[r] < 0
    <3>1. column[r] \in Int /\ column[r] < columns
      BY <1>2, <1>3
    <3> QED
      BY <2>1, <3>1, HandedOverIs
  <2> QED
    BY <1>3, <2>1, <2>2, OwnedIs
<1> DEFINE both == {leader[x], leader[y]}
           root == CHOOSE r \in both : \A s \in both : r <= s
<1>5. root = Lower(rx, cur)
  <2>1. both = {rx, cur}
    BY <1>2
  <2>2. /\ Lower(rx, cur) \in both
        /\ \A s \in both : Lower(rx, cur) <= s
    BY <1>3, <2>1 DEF Lower
  <2>3. root \in both /\ \A s \in both : root <= s
    BY <2>2
  <2> HIDE DEF root
  <2>4. root \in Nat /\ Lower(rx, cur) \in Nat
    BY <1>3, <2>1, <2>3 DEF Lower
  <2>5. root <= Lower(rx, cur) /\ Lower(rx, cur) <= root
    BY <2>2, <2>3
  <2> QED
    BY <2>4, <2>5
<1>6. leader' = [d \in Classes!Decisions |-> IF leader[d] \in both THEN root ELSE leader[d]]
  <2>1. DOMAIN leader = Below(count)
    BY DEF RInv, IInv, TypeOK
  <2> HIDE DEF root
  <2> QED
    BY <1>1, <1>2, <1>5, <2>1, OwnedIs DEF Merge
<1>7. HandedOver' = HandedOver
  BY <1>1 DEF HandedOver
<1>8. x \in Classes!Decisions /\ y \in Classes!Decisions
  BY <1>2, OwnedIs
<1> HIDE DEF root
<1> QED
  BY <1>1, <1>4, <1>6, <1>7, <1>8 DEF Classes!Join, root

LEMMA TruncateImplements == ASSUME RInv, Truncate PROVE Classes!Retract
<1>1. pc = "idle"
  BY DEF Truncate
<1>2. PICK k \in 1 .. Len(layerEnd) - 1 :
        /\ leader' = Cut(leader, layerEnd[k].decisions)
        /\ column' = Cut(column, layerEnd[k].decisions)
        /\ count' = layerEnd[k].decisions
        /\ columns' = layerEnd[k].columns
        /\ layerEnd' = SubSeq(layerEnd, 1, k)
  BY DEF Truncate
<1>3. k \in 1 .. Len(layerEnd)
  <2>1. Len(layerEnd) \in Nat
    BY LenProperties DEF RInv, IInv, TypeOK
  <2> QED
    BY <2>1
<1>4. /\ layerEnd[k].decisions \in Nat /\ layerEnd[k].columns \in Nat
      /\ layerEnd[k].decisions <= count /\ count \in Nat
      /\ \A d \in Below(layerEnd[k].decisions) : column[d] \in Below(layerEnd[k].columns)
  <2>1. layerEnd[k].decisions \in Nat /\ layerEnd[k].columns \in Nat
    BY <1>3, EndTypes DEF RInv, IInv
  <2>2. layerEnd[k].decisions <= count
    BY <1>3, EndBelowCount DEF RInv
  <2>3. \A d \in Below(layerEnd[k].decisions) : column[d] \in Below(layerEnd[k].columns)
    BY <1>3 DEF RInv, IInv, Ends
  <2>4. count \in Nat
    BY BoundsAssumption DEF RInv, IInv, TypeOK, BoundsAssumption
  <2> QED
    BY <2>1, <2>2, <2>3, <2>4
<1>5. HandedOver' = [d \in Below(layerEnd[k].decisions) |-> HandedOver[d]]
  <2>1. ASSUME NEW d \in Below(layerEnd[k].decisions)
        PROVE  (IF column'[d] < columns' THEN column'[d] ELSE -1) = HandedOver[d]
    <3>1. d \in Below(count) /\ column'[d] = column[d]
      BY <1>2, <1>4 DEF Below, Cut
    <3>2. column'[d] < columns'
      BY <1>2, <1>4, <3>1 DEF Below
    <3>3. HandedOver[d] = column[d]
      BY <1>1, <3>1, AllOwned
    <3> QED
      BY <3>1, <3>2, <3>3
  <2> QED
    BY <1>2, <2>1 DEF HandedOver
<1>6. Classes!Owned = Classes!Decisions
  BY <1>1, AllOwned
<1> QED
  BY <1>2, <1>5, <1>6, BelowIs DEF Classes!Retract, Cut

\* At the end of the loop the decisions with a column of an earlier build are
\* those of the kept layers, and the others are of new classes.
LEMMA OwnedAreKept ==
    ASSUME RInv, pc = "columns", next = count
    PROVE  /\ Classes!Owned = Classes!KeptDecisions
           /\ Classes!KeptDecisions = Below(first)
           /\ Classes!Decisions \ Classes!Owned = first .. count - 1
           /\ first \in Nat /\ count \in Nat /\ first <= count /\ InLoop
<1>1. InLoop /\ ~Joining
  BY DEF InLoop, Joining
<1>2. /\ first \in Nat /\ count \in Nat /\ first <= count /\ columns \in Nat
  BY <1>1, BoundsAssumption DEF RInv, IInv, TypeOK, LoopOrder, BoundsAssumption
<1>3. Classes!KeptDecisions = Below(first)
  <2>1. CASE extending
    BY <1>1, <2>1, KeptIs DEF RInv, BuildsAboveKept
  <2>2. CASE ~extending
    BY <1>1, <2>2, KeptIs DEF RInv, BuildsAboveKept, Below
  <2> QED
    BY <2>1, <2>2
<1>4. ASSUME NEW d \in Below(first) PROVE d \in Below(count) /\ HandedOver[d] >= 0
  <2>1. d \in Below(count) /\ 0 < first
    BY <1>2 DEF Below
  <2>2. layerEnd # <<>> /\ first = Kept.decisions
    BY <1>1, <2>1 DEF RInv, BuildsAboveKept
  <2>3. column[d] \in Below(Kept.columns)
    BY <2>2, KeptIs DEF RInv, IInv, Ends, Kept
  <2>4. 0 <= column[d] /\ column[d] < columns
    BY <1>2, <2>2, <2>3, KeptIs DEF Below
  <2> QED
    BY <2>1, <2>4, HandedOverIs
<1>5. ASSUME NEW d \in first .. count - 1 PROVE d \in Below(count) /\ ~(HandedOver[d] >= 0)
  <2>1. d \in Below(count) /\ leader[d] \in Nat
    <3>1. d \in Below(count)
      BY <1>2 DEF Below
    <3> QED
      BY <3>1, Types DEF RInv, IInv
  <2>2. column[d] = columns + Cardinality(NewRoots(leader[d]))
    BY <1>1 DEF RInv, Counted
  <2>3. ~(column[d] < columns)
    BY <1>2, <2>1, <2>2, NewRootsFinite DEF RInv, IInv
  <2> QED
    BY <2>1, <2>3, HandedOverIs
<1>6. ASSUME NEW d \in Below(count) PROVE d \in Below(first) \/ d \in first .. count - 1
  BY <1>2 DEF Below
<1>7. Classes!Owned = Below(first)
  BY <1>4, <1>5, <1>6, OwnedIs
<1>8. Classes!Decisions \ Classes!Owned = first .. count - 1
  BY <1>4, <1>5, <1>6, OwnedIs
<1> QED
  BY <1>1, <1>2, <1>3, <1>7, <1>8

LEMMA HandOverImplements == ASSUME RInv, HandOver PROVE Classes!Number
<1>1. /\ pc = "columns" /\ next = count
      /\ UNCHANGED <<column, count, leader>>
  BY DEF HandOver
<1>2. PICK s \in 0 .. MaxSelectors :
        /\ columns' = columns + created + s
        /\ IF fallback
           THEN layerEnd' = layerEnd
           ELSE \E e \in first .. count : layerEnd' = Append(layerEnd, LayerEnd(e, columns'))
  BY DEF HandOver
<1>3. /\ Classes!Owned = Classes!KeptDecisions
      /\ Classes!KeptDecisions = Below(first)
      /\ Classes!Decisions \ Classes!Owned = first .. count - 1
      /\ first \in Nat /\ count \in Nat /\ first <= count /\ InLoop
  BY <1>1, OwnedAreKept
<1>4. columns \in Nat /\ created \in Nat /\ s \in Nat /\ count <= MaxDecisions
  BY BoundsAssumption DEF RInv, IInv, TypeOK, BoundsAssumption
<1>5. Settled = count
  BY <1>1, <1>3 DEF Settled, Joining, InLoop
\* The columns of the new classes are those of their first decisions.
<1>6. ASSUME NEW d \in first .. count - 1
      PROVE  /\ d \in Below(count) /\ leader[d] \in Below(count) /\ leader[d] \in Nat
             /\ leader[d] <= d
             /\ leader[d] \in first .. count - 1
  <2>1. d \in Below(count)
    BY <1>3 DEF Below
  <2>2. /\ leader[d] \in Below(count) /\ leader[d] \in Nat /\ leader[d] <= d
        /\ leader[leader[d]] = leader[d]
    BY <2>1, Types DEF RInv, IInv, Forest
  <2>3. column[leader[d]] \in Int /\ column[d] \in Int
    BY <2>1, <2>2, Types DEF RInv, IInv
  <2>4. column[leader[d]] = column[d]
    <3>1. /\ leader[d] < leader[leader[d]] <=> column[d] < column[leader[d]]
          /\ leader[leader[d]] < leader[d] <=> column[leader[d]] < column[d]
      BY <1>5, <2>1, <2>2 DEF RInv, IInv, Numbered
    <3> QED
      BY <2>2, <2>3, <3>1
  <2>5. HandedOver[leader[d]] = HandedOver[d]
    BY <2>1, <2>2, <2>4, HandedOverIs
  <2>6. leader[d] \notin Classes!Owned
    <3>1. d \notin Classes!Owned
      BY <1>3
    <3> QED
      BY <2>1, <2>2, <2>5, <3>1, OwnedIs
  <2>7. leader[d] \in Classes!Decisions \ Classes!Owned
    BY <2>2, <2>6, OwnedIs
  <2> QED
    BY <1>3, <2>1, <2>2, <2>7
<1>7. \A d \in Classes!Decisions \ Classes!Owned : leader[d] \notin Classes!Owned
  BY <1>3, <1>6
<1>8. ASSUME NEW d \in first .. count - 1
      PROVE  column[d] = columns + Cardinality(Classes!Fresh(leader[d]))
  <2>1. Classes!Fresh(leader[d]) = NewRoots(leader[d])
    BY <1>3, <1>6 DEF Classes!Fresh, NewRoots
  <2> QED
    BY <1>1, <1>3, <2>1 DEF RInv, Counted
<1>9. ASSUME NEW d \in Below(count) PROVE column[d] < columns' /\ HandedOver'[d] = column[d]
  <2>1. column[d] < columns + created /\ column[d] \in Int
    BY <1>5, Types DEF RInv, IInv, Numbered
  <2>2. column[d] < columns'
    BY <1>2, <1>4, <2>1
  <2> QED
    BY <1>1, <2>2 DEF HandedOver
<1>10. HandedOver' = [d \in Classes!Decisions |->
                        IF d \in Classes!Owned THEN HandedOver[d]
                        ELSE columns + Cardinality(Classes!Fresh(leader[d]))]
  <2>1. ASSUME NEW d \in Below(count)
        PROVE  HandedOver'[d] = IF d \in Classes!Owned THEN HandedOver[d]
                                ELSE columns + Cardinality(Classes!Fresh(leader[d]))
    <3>1. CASE d \in Classes!Owned
      <4>1. HandedOver[d] >= 0
        BY <3>1, OwnedIs
      <4>2. HandedOver[d] = column[d]
        BY <4>1, HandedOverIs
      <4> QED
        BY <1>9, <3>1, <4>2
    <3>2. CASE d \notin Classes!Owned
      <4>1. d \in first .. count - 1
        BY <1>3, <3>2, OwnedIs
      <4> QED
        BY <1>8, <1>9, <3>2, <4>1
    <3> QED
      BY <3>1, <3>2
  <2>2. HandedOver' = [d \in Below(count) |-> HandedOver'[d]]
    BY <1>1 DEF HandedOver
  <2> QED
    BY <2>1, <2>2, OwnedIs
<1>11. columns' = columns + Cardinality({r \in Classes!Decisions \ Classes!Owned : leader[r] = r}) + s
  <2>1. {r \in Classes!Decisions \ Classes!Owned : leader[r] = r} = NewRoots(count)
    BY <1>3 DEF NewRoots
  <2> QED
    BY <1>1, <1>2, <1>3, <2>1 DEF RInv, Counted
<1>12. \E t \in 0 .. MaxSelectors :
          columns' = columns + Cardinality({r \in Classes!Decisions \ Classes!Owned : leader[r] = r}) + t
  BY <1>11
<1>13. \/ layerEnd' = layerEnd /\ layerEnd = <<>>
       \/ \E e \in 0 .. MaxDecisions :
            /\ Classes!KeptDecisions \subseteq Classes!Below(e)
            /\ Classes!Below(e) \subseteq Classes!Decisions
            /\ layerEnd' = Append(layerEnd, [decisions |-> e, columns |-> columns'])
  <2>1. CASE fallback
    BY <1>2, <1>3, <2>1 DEF RInv, BuildsAboveKept
  <2>2. CASE ~fallback
    <3>1. PICK e \in first .. count : layerEnd' = Append(layerEnd, LayerEnd(e, columns'))
      BY <1>2, <2>2
    <3>2. e \in 0 .. MaxDecisions /\ first <= e /\ e <= count /\ e \in Nat
      BY <1>3, <1>4, BoundsAssumption DEF BoundsAssumption
    <3>3. Below(first) \subseteq Below(e) /\ Below(e) \subseteq Below(count)
      BY <1>3, <3>2 DEF Below
    <3> QED
      BY <1>3, <3>1, <3>2, <3>3, BelowIs, OwnedIs DEF LayerEnd
  <2> QED
    BY <2>1, <2>2
<1> QED
  BY <1>1, <1>3, <1>7, <1>10, <1>12, <1>13, CardinalityIs DEF Classes!Number

\* Everything else is invisible.
LEMMA SmallStepsStutter ==
    ASSUME RInv,
           \/ Halve \/ ReadJoin \/ StartColumns \/ ReadDecision
           \/ OwnsX \/ OwnsY \/ RootX \/ SameRoot \/ UniteA
           \/ OwnAColumnApiece \/ OldColumn \/ NewColumn \/ SharedColumn
           \/ UNCHANGED vars
    PROVE  UNCHANGED Classes!vars
<1>1. CASE NewColumn \/ SharedColumn
  BY <1>1, TurnStutters DEF Classes!vars
<1>2. CASE ~(NewColumn \/ SharedColumn)
  <2>1. UNCHANGED <<column, count, columns, layerEnd, leader>>
    BY <1>2 DEF Halve, ReadJoin, StartColumns, ReadDecision, OwnsX, OwnsY, RootX, SameRoot, UniteA,
                OwnAColumnApiece, OldColumn, vars, model
  <2> QED
    BY <2>1 DEF Classes!vars, HandedOver
<1> QED
  BY <1>1, <1>2

LEMMA StepImplements ==
    ASSUME RInv, [Next]_vars
    PROVE  [Classes!Next]_(Classes!vars)
<1>1. CASE BuildFull
  BY <1>1, BuildWholeImplements DEF BuildFull, Classes!Next
<1>2. CASE BuildFallback
  <2>1. count \in 0 .. MaxDecisions
    BY DEF RInv, IInv, TypeOK
  <2> QED
    BY <1>2, <2>1, BuildWholeImplements DEF BuildFallback, Classes!Next
<1>3. CASE Extend \/ BuildFails \/ UniteB \/ Truncate \/ HandOver
  BY <1>3, ExtendImplements, BuildFailsImplements, UniteBImplements, TruncateImplements,
     HandOverImplements DEF Classes!Next
<1> QED
  BY <1>1, <1>2, <1>3, SmallStepsStutter DEF Next, Step, Answer

\* "The first decision of each class gets the class's column": a build of many
\* small steps, whatever the joins are, in whatever order find answers, numbers
\* the classes in one step, in order, and leaves the kept layers alone.
THEOREM Refinement == Spec => ImplementsClasses
<1>1. Init => Classes!Init
  BY InitImplements
<1>2. RInv /\ [Next]_vars => [Classes!Next]_(Classes!vars)
  BY StepImplements
<1> QED
  BY <1>1, <1>2, RefinementInvariance, PTL DEF Spec, ImplementsClasses, Classes!Spec

=============================================================================
