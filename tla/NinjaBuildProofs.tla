-------------------------- MODULE NinjaBuildProofs --------------------------
(***************************************************************************)
(* Proofs about NinjaBuild, for any manifest whose edges are finitely      *)
(* many: the plan and the executors never disagree about an edge, remote   *)
(* commands are accounted for, inputs are there, and what a build leaves.  *)
(***************************************************************************)
EXTENDS NinjaBuild, FiniteSetTheorems, SequenceTheorems, TLAPS

(***************************************************************************)
(* The inductive invariant.                                                *)
(***************************************************************************)
Ended == {"aborting", "done"}

\* Every edge in some place is scheduled; the others are not, and no edge is in two.
Held == ready \cup delayed \cup running \cup FinishedEdges \cup requests \cup ResultEdges

Located == \A e \in Held : e \in DOMAIN want /\ want[e] = "finish"

Apart ==
  /\ ready \cap (delayed \cup running \cup FinishedEdges \cup requests \cup ResultEdges) = {}
  /\ delayed \cap (running \cup FinishedEdges \cup requests \cup ResultEdges) = {}
  /\ running \cap (FinishedEdges \cup requests \cup ResultEdges) = {}
  /\ FinishedEdges \cap (requests \cup ResultEdges) = {}
  /\ requests \cap ResultEdges = {}

Single ==
  /\ \A r, q \in finished : r[1] = q[1] => r = q
  /\ \A i, j \in DOMAIN results : results[i][1] = results[j][1] => i = j

\* What the remote is offered, holds and answers are compilations of split edges.
RemoteSide ==
  /\ readyRemote \subseteq ready
  /\ \A e \in readyRemote \cup requests \cup ResultEdges : IsRemote(e)
  /\ \A e \in running \cup FinishedEdges : ~IsPhony(manifest, e)

\* The pool has counted the edges it has let go.
PoolBusy == {e \in ready \cup running \cup FinishedEdges : InPool(manifest, e)}
PoolKept == /\ Cardinality(PoolBusy) <= poolUse
            /\ \A e \in delayed : InPool(manifest, e)

\* The loop's counts, and the executor's edges; the executor has started if it has any.
Accounts ==
  /\ at \notin Ended =>
       /\ pendingRemote = Cardinality(requests) + Len(results)
       /\ activeEdges = requests
       /\ outcome # "interrupted" => pendingCommands = Processes
       /\ requests # {} => hasStart
  /\ at \in Ended => ~hasStart
  /\ at = "aborting" => requests \subseteq activeEdges

\* An edge that is scheduled or finished has no input to wait for.
Ordered ==
  \A e \in Edges(manifest) : (e \in DOMAIN want => want[e] = "finish") =>
    Inputs(manifest, e) \cap DOMAIN want = {}

\* What a finished edge has written is there as long as it is needed.
Needed(e) == e[2] = "pp" => <<e[1], "cc">> \in DOMAIN want
Kept ==
  /\ (at # "done" \/ outcome = "success") =>
       \A e \in Edges(manifest) \ DOMAIN want :
         (~IsPhony(manifest, e) /\ ~manifest.dryRun /\ Needed(e)) => e \in files
  /\ at # "done" =>
       /\ \A r \in finished : r[2] /\ ~manifest.dryRun => r[1] \in files
       /\ \A i \in DOMAIN results : results[i][2] => results[i][1] \in files
       /\ written \subseteq files
  /\ \A e \in files : /\ e \in Edges(manifest) /\ ~IsPhony(manifest, e)
                      /\ outcome # "error" => Needed(e)
  /\ manifest.dryRun => files = {} /\ running = {} /\ requests = {}

\* How Build returned.
Returned ==
  /\ outcome # "none" => at \in {"cleanup"} \cup Ended
  /\ outcome = "success" => DOMAIN want = {} /\ activeEdges = {}
  /\ at = "done" => running = {} /\ finished = {} /\ requests = {}

\* The outputs of edges that have not finished.
Left ==
  \A e \in files \cap DOMAIN want :
    /\ at \notin Ended => e \in running \cup FinishedEdges \cup requests \cup ResultEdges \cup excused
    /\ at = "aborting" => e \in running \cup FinishedEdges \cup activeEdges \cup excused
    /\ at = "done" => e \in excused

IInv ==
  /\ TypeOK
  /\ Located /\ Apart /\ Single /\ RemoteSide /\ PoolKept /\ Accounts
  /\ Ordered /\ Kept /\ Returned /\ Left

(***************************************************************************)
(* Finite sets and the queue of results.                                   *)
(***************************************************************************)
\* There are finitely many edges, so every set of them has a cardinality.
LEMMA FinitelyMany ==
  ASSUME NEW S \in SUBSET AllEdges
  PROVE  IsFiniteSet(S) /\ Cardinality(S) \in Nat
<1>1. IsFiniteSet({"run", "pp", "cc"})
  <2>1. IsFiniteSet({}) BY FS_EmptySet
  <2>2. IsFiniteSet({} \cup {"run"}) BY <2>1, FS_AddElement
  <2>3. IsFiniteSet(({} \cup {"run"}) \cup {"pp"}) BY <2>2, FS_AddElement
  <2>4. IsFiniteSet((({} \cup {"run"}) \cup {"pp"}) \cup {"cc"}) BY <2>3, FS_AddElement
  <2>5. (({} \cup {"run"}) \cup {"pp"}) \cup {"cc"} = {"run", "pp", "cc"} OBVIOUS
  <2> QED BY <2>4, <2>5
<1>2. IsFiniteSet(ManifestEdges) BY BuildAssumption
<1>3. IsFiniteSet(AllEdges) BY <1>1, <1>2, FS_Product DEF AllEdges
<1>4. IsFiniteSet(S) BY <1>3, FS_Subset
<1> QED BY <1>4, FS_CardinalityType

\* So are the results of subprocesses.
LEMMA FinitelyManyResults ==
  ASSUME NEW S \in SUBSET (AllEdges \X BOOLEAN)
  PROVE  IsFiniteSet(S) /\ Cardinality(S) \in Nat
<1>1. IsFiniteSet(BOOLEAN)
  <2>1. IsFiniteSet({}) BY FS_EmptySet
  <2>2. IsFiniteSet({} \cup {TRUE}) BY <2>1, FS_AddElement
  <2>3. IsFiniteSet(({} \cup {TRUE}) \cup {FALSE}) BY <2>2, FS_AddElement
  <2>4. ({} \cup {TRUE}) \cup {FALSE} = BOOLEAN OBVIOUS
  <2> QED BY <2>3, <2>4
<1>2. IsFiniteSet(AllEdges) BY FinitelyMany
<1>3. IsFiniteSet(AllEdges \X BOOLEAN) BY <1>1, <1>2, FS_Product
<1>4. IsFiniteSet(S) BY <1>3, FS_Subset
<1> QED BY <1>4, FS_CardinalityType

\* A union has at most as many elements as its parts together.
LEMMA UnionBound ==
  ASSUME NEW S, NEW T, IsFiniteSet(S), IsFiniteSet(T)
  PROVE  /\ IsFiniteSet(S \cup T)
         /\ Cardinality(S \cup T) <= Cardinality(S) + Cardinality(T)
<1>1. Cardinality(S) \in Nat /\ Cardinality(T) \in Nat BY FS_CardinalityType
<1>2. IsFiniteSet(S \cap T) BY FS_Subset
<1>3. Cardinality(S \cap T) \in Nat BY <1>2, FS_CardinalityType
<1>4. /\ IsFiniteSet(S \cup T)
      /\ Cardinality(S \cup T) = Cardinality(S) + Cardinality(T) - Cardinality(S \cap T)
  BY FS_Union
<1> QED BY <1>1, <1>3, <1>4

\* The edges of the results, by their positions.
LEMMA ResultPositions == ResultEdges = {results[i][1] : i \in DOMAIN results}
BY DEF ResultEdges, ToSet

\* A result of an edge that has none is appended.
LEMMA AppendedResult ==
  ASSUME TypeOK, Single, NEW e \in AllEdges, e \notin ResultEdges, NEW success \in BOOLEAN,
         results' = Append(results, <<e, success>>)
  PROVE  /\ results' \in Seq(AllEdges \X BOOLEAN)
         /\ Len(results') = Len(results) + 1
         /\ ResultEdges' = ResultEdges \cup {e}
         /\ \A i \in DOMAIN results' :
              \/ i \in DOMAIN results /\ results'[i] = results[i]
              \/ results'[i] = <<e, success>>
         /\ \A i, j \in DOMAIN results' : results'[i][1] = results'[j][1] => i = j
<1> DEFINE n == Len(results)
<1>1. results \in Seq(AllEdges \X BOOLEAN) BY DEF TypeOK
<1>2. /\ n \in Nat /\ DOMAIN results = 1 .. n
      /\ results' \in Seq(AllEdges \X BOOLEAN)
      /\ Len(results') = n + 1 /\ DOMAIN results' = 1 .. n + 1
      /\ \A i \in 1 .. n : results'[i] = results[i]
      /\ results'[n + 1] = <<e, success>>
  BY <1>1
<1> HIDE DEF n
<1>3. ResultEdges' = {results'[i][1] : i \in DOMAIN results'} BY DEF ResultEdges, ToSet
<1>4. ResultEdges = {results[i][1] : i \in 1 .. n} BY <1>2, ResultPositions
<1>5. \A i \in 1 .. n + 1 : i \in 1 .. n \/ i = n + 1 BY <1>2
<1>6. \A i \in 1 .. n : results[i][1] # e BY <1>4
<1>7. ResultEdges' = ResultEdges \cup {e}
  <2>1. ASSUME NEW d \in ResultEdges' PROVE d \in ResultEdges \cup {e}
    <3>1. PICK i \in 1 .. n + 1 : d = results'[i][1] BY <1>2, <1>3
    <3>2. CASE i \in 1 .. n
      <4>1. d = results[i][1] BY <1>2, <3>1, <3>2
      <4> QED BY <1>4, <3>2, <4>1
    <3>3. CASE i = n + 1 BY <1>2, <3>1, <3>3
    <3> QED BY <1>5, <3>2, <3>3
  <2>2. ASSUME NEW d \in ResultEdges PROVE d \in ResultEdges'
    <3>1. PICK i \in 1 .. n : d = results[i][1] BY <1>4
    <3>2. i \in DOMAIN results' /\ d = results'[i][1] BY <1>2, <3>1
    <3> QED BY <1>3, <3>2
  <2>3. e \in ResultEdges'
    <3>1. n + 1 \in DOMAIN results' /\ e = results'[n + 1][1] BY <1>2
    <3> QED BY <1>3, <3>1
  <2> QED BY <2>1, <2>2, <2>3
<1>8. \A i, j \in DOMAIN results' : results'[i][1] = results'[j][1] => i = j
  BY <1>2, <1>5, <1>6 DEF Single
<1> QED BY <1>2, <1>5, <1>7, <1>8 DEF n

\* A result is taken from the front.
LEMMA TakenResult ==
  ASSUME TypeOK, Single, results # << >>, results' = Tail(results)
  PROVE  /\ Head(results) \in AllEdges \X BOOLEAN
         /\ Head(results)[1] \in ResultEdges
         /\ \E i \in DOMAIN results : Head(results) = results[i]
         /\ results' \in Seq(AllEdges \X BOOLEAN)
         /\ Len(results') = Len(results) - 1
         /\ ResultEdges' = ResultEdges \ {Head(results)[1]}
         /\ \A i \in DOMAIN results' : i + 1 \in DOMAIN results /\ results'[i] = results[i + 1]
         /\ \A i, j \in DOMAIN results' : results'[i][1] = results'[j][1] => i = j
<1> DEFINE n == Len(results)
<1>1. results \in Seq(AllEdges \X BOOLEAN) BY DEF TypeOK
<1>2. /\ n \in Nat /\ n > 0 /\ DOMAIN results = 1 .. n
      /\ results' \in Seq(AllEdges \X BOOLEAN)
      /\ Len(results') = n - 1 /\ DOMAIN results' = 1 .. n - 1
      /\ \A i \in 1 .. n - 1 : results'[i] = results[i + 1]
      /\ Head(results) = results[1] /\ Head(results) \in AllEdges \X BOOLEAN
  BY <1>1
<1> HIDE DEF n
<1>3. ResultEdges' = {results'[i][1] : i \in DOMAIN results'} BY DEF ResultEdges, ToSet
<1>4. ResultEdges = {results[i][1] : i \in 1 .. n} BY <1>2, ResultPositions
<1>5. \A i \in 1 .. n : i = 1 \/ (i - 1 \in 1 .. n - 1 /\ results'[i - 1] = results[i])
  BY <1>2
<1>6. \A i \in 1 .. n - 1 : i + 1 \in 1 .. n /\ i + 1 # 1 /\ results'[i] = results[i + 1]
  BY <1>2
<1>7. \A i, j \in 1 .. n : results[i][1] = results[j][1] => i = j BY <1>2 DEF Single
<1>8. ResultEdges' = ResultEdges \ {Head(results)[1]}
  <2>1. ASSUME NEW e \in ResultEdges' PROVE e \in ResultEdges /\ e # results[1][1]
    BY <1>2, <1>3, <1>4, <1>6, <1>7
  <2>2. ASSUME NEW e \in ResultEdges, e # results[1][1] PROVE e \in ResultEdges'
    <3>1. PICK i \in 1 .. n : e = results[i][1] BY <1>4
    <3>2. i - 1 \in DOMAIN results' /\ results'[i - 1] = results[i]
      BY <1>2, <1>5, <2>2, <3>1
    <3> QED BY <1>3, <3>1, <3>2
  <2> QED BY <1>2, <2>1, <2>2
<1>9. \A i, j \in DOMAIN results' : results'[i][1] = results'[j][1] => i = j
  BY <1>2, <1>6, <1>7
<1>10. 1 \in DOMAIN results /\ Head(results)[1] \in ResultEdges BY <1>2, <1>4
<1> QED BY <1>2, <1>6, <1>8, <1>9, <1>10 DEF n

(***************************************************************************)
(* EdgeFinished.                                                           *)
(***************************************************************************)
\* A retrieval from a pool takes some edges of a set, and no more than there is room for.
LEMMA Retrieved ==
  ASSUME manifest \in Manifests,
         NEW S \in SUBSET AllEdges, NEW use \in Nat, use <= manifest.depth,
         NEW R \in Retrievals(manifest, S, use)
  PROVE  /\ R \subseteq S
         /\ Cardinality(R) \in Nat /\ use + Cardinality(R) <= manifest.depth
<1>1. manifest.depth \in Nat BY BuildAssumption DEF ManifestRecords
<1>2. Cardinality(S) \in Nat BY FinitelyMany
<1>3. R \in SUBSET S /\ Cardinality(R) <= Room(manifest, use)
  BY <1>1, <1>2 DEF Retrievals, kSubset, Room
<1>4. Cardinality(R) \in Nat BY <1>3, FinitelyMany
<1> QED BY <1>1, <1>3, <1>4 DEF Room

\* The edges of the graph are among those that are named.
LEMMA NamedEdges ==
  ASSUME TypeOK PROVE Edges(manifest) \subseteq AllEdges
BY BuildAssumption DEF TypeOK, ManifestRecords, Edges, AllEdges, Split

\* What becomes of the plan when an edge has been reaped, or a phony one found, and new
\* edges are scheduled.
PlanAfter(e, success, new) ==
  /\ e \notin new
  /\ \A d \in new : /\ want[d] = "start"
                    /\ Inputs(manifest, d) \cap (DOMAIN want \ {e}) = {}
  /\ success => /\ DOMAIN want' = DOMAIN want \ {e}
                /\ \A d \in DOMAIN want' :
                     want'[d] = IF d \in new THEN "finish" ELSE want[d]
  /\ ~success => want' = want /\ new = {}
  /\ ready \ {e} \subseteq ready'
  /\ ready' \subseteq (ready \ {e}) \cup new \cup delayed
  /\ readyRemote' = readyRemote \cup {d \in new : IsRemote(d)}
  /\ {d \in new : IsRemote(d)} \subseteq ready'
  /\ delayed' \subseteq delayed \cup new
  /\ ready' \cap delayed' = {}
  /\ \A d \in delayed' : InPool(manifest, d)
  /\ poolUse' \in 0 .. manifest.depth
  /\ Cardinality({x \in ready' \cup ((running \cup FinishedEdges) \ {e}) :
                    InPool(manifest, x)}) <= poolUse'

LEMMA Finishing ==
  ASSUME IInv, NEW e \in ready \cup FinishedEdges \cup ResultEdges, NEW success \in BOOLEAN,
         EdgeFinished(e, success)
  PROVE  \E new \in SUBSET DOMAIN want : PlanAfter(e, success, new)
<1> DEFINE m == manifest
           left == [d \in DOMAIN want \ {e} |-> want[d]]
           waiting == {d \in DOMAIN left : /\ want[d] = "start" /\ e \in Inputs(m, d)
                                           /\ Inputs(m, d) \cap DOMAIN left = {}}
           new == IF success THEN waiting ELSE {}
           newPooled == {d \in new : InPool(m, d)}
           use == poolUse - (IF InPool(m, e) THEN 1 ELSE 0)
           Kin == {x \in ready \cup running \cup FinishedEdges : InPool(m, x) /\ x # e}
<1>0. PICK freed \in Retrievals(m, delayed, use) :
        \E now \in Retrievals(m, (delayed \ freed) \cup newPooled, use + Cardinality(freed)) :
          /\ want' = IF success
                     THEN [d \in DOMAIN left |-> IF d \in new THEN "finish" ELSE left[d]]
                     ELSE want
          /\ ready' = (ready \ {e}) \cup (new \ newPooled) \cup freed \cup now
          /\ readyRemote' = readyRemote \cup {d \in new : IsRemote(d)}
          /\ delayed' = (delayed \cup newPooled) \ (freed \cup now)
          /\ poolUse' = use + Cardinality(freed) + Cardinality(now)
  BY DEF EdgeFinished
<1>1. PICK now \in Retrievals(m, (delayed \ freed) \cup newPooled, use + Cardinality(freed)) :
        /\ want' = IF success
                   THEN [d \in DOMAIN left |-> IF d \in new THEN "finish" ELSE left[d]]
                   ELSE want
        /\ ready' = (ready \ {e}) \cup (new \ newPooled) \cup freed \cup now
        /\ readyRemote' = readyRemote \cup {d \in new : IsRemote(d)}
        /\ delayed' = (delayed \cup newPooled) \ (freed \cup now)
        /\ poolUse' = use + Cardinality(freed) + Cardinality(now)
  BY <1>0
<1>2. /\ DOMAIN want \subseteq AllEdges /\ delayed \subseteq AllEdges
      /\ ready \cup running \cup FinishedEdges \subseteq DOMAIN want
      /\ \A d \in ready \cup delayed \cup running \cup FinishedEdges \cup {e} :
           d \in DOMAIN want /\ want[d] = "finish"
      /\ ready \cap delayed = {}
      /\ \A d \in delayed : InPool(m, d)
      /\ poolUse \in 0 .. m.depth /\ m.depth \in Nat
      /\ Cardinality(PoolBusy) <= poolUse
  <2>1. m.depth \in Nat BY BuildAssumption DEF IInv, TypeOK, ManifestRecords
  <2> QED BY <2>1, NamedEdges DEF IInv, TypeOK, Located, Held, Apart, PoolKept
<1>3. /\ DOMAIN left = DOMAIN want \ {e}
      /\ new \subseteq DOMAIN want \ {e} /\ newPooled \subseteq new
      /\ \A d \in new : /\ want[d] = "start"
                        /\ Inputs(m, d) \cap (DOMAIN want \ {e}) = {}
      /\ success => \A d \in DOMAIN left : left[d] = want[d]
      /\ ~success => new = {}
  OBVIOUS
<1>4. use \in Nat /\ use <= m.depth /\ Cardinality(Kin) \in Nat /\ Cardinality(Kin) <= use
  <2>1. PoolBusy \subseteq AllEdges /\ Kin = PoolBusy \ {e} BY <1>2 DEF PoolBusy
  <2>2. IsFiniteSet(PoolBusy) /\ Cardinality(PoolBusy) \in Nat BY <2>1, FinitelyMany
  <2>3. Kin \in SUBSET AllEdges BY <2>1
  <2>4. Cardinality(Kin) \in Nat BY <2>3, FinitelyMany
  <2>5. CASE e \in PoolBusy
    <3>1. Cardinality(Kin) = Cardinality(PoolBusy) - 1 BY <2>1, <2>2, <2>5, FS_RemoveElement
    <3>2. InPool(m, e) BY <2>5 DEF PoolBusy
    <3> QED BY <1>2, <2>2, <2>4, <3>1, <3>2
  <2>6. CASE e \notin PoolBusy
    <3>1. Kin = PoolBusy BY <2>1, <2>6
    <3>2. ~InPool(m, e)
      <4>1. e \in ready \cup running \cup FinishedEdges => ~InPool(m, e) BY <2>6 DEF PoolBusy
      <4>2. e \in ResultEdges => ~InPool(m, e) BY DEF IInv, RemoteSide, IsRemote, InPool
      <4> QED BY <4>1, <4>2
    <3> QED BY <1>2, <2>4, <3>1, <3>2
  <2> QED BY <2>5, <2>6
<1> HIDE DEF use, Kin, left, waiting, new, newPooled, m
<1>5. /\ freed \subseteq delayed
      /\ Cardinality(freed) \in Nat /\ use + Cardinality(freed) <= m.depth
  BY <1>2, <1>4, Retrieved DEF IInv, TypeOK, m
<1>6. /\ now \subseteq (delayed \ freed) \cup newPooled
      /\ Cardinality(now) \in Nat /\ use + Cardinality(freed) + Cardinality(now) <= m.depth
  <2>1. (delayed \ freed) \cup newPooled \in SUBSET AllEdges BY <1>2, <1>3
  <2>2. use + Cardinality(freed) \in Nat BY <1>4, <1>5
  <2> QED BY <1>5, <2>1, <2>2, Retrieved DEF IInv, TypeOK, m
<1>7. \A d \in newPooled : InPool(m, d) BY DEF newPooled
<1>8. \A d \in new : IsRemote(d) => d \notin newPooled
  BY <1>7 DEF IsRemote, InPool
<1>9. \A d \in new : InPool(m, d) => d \in newPooled BY DEF newPooled
<1>10. ready' \cap delayed' = {} BY <1>1, <1>2, <1>3, <1>5, <1>6
<1>11. Cardinality({x \in ready' \cup ((running \cup FinishedEdges) \ {e}) : InPool(m, x)})
         <= poolUse'
  <2> DEFINE Busy == {x \in ready' \cup ((running \cup FinishedEdges) \ {e}) : InPool(m, x)}
  <2>1. Busy \subseteq (Kin \cup freed) \cup now
    BY <1>1, <1>9 DEF Kin
  <2>2. /\ IsFiniteSet(Kin) /\ IsFiniteSet(freed) /\ IsFiniteSet(now)
    <3>1. Kin \in SUBSET AllEdges /\ freed \in SUBSET AllEdges /\ now \in SUBSET AllEdges
      BY <1>2, <1>3, <1>5, <1>6 DEF Kin
    <3> QED BY <3>1, FinitelyMany
  <2>3. /\ IsFiniteSet(Kin \cup freed)
        /\ Cardinality(Kin \cup freed) <= Cardinality(Kin) + Cardinality(freed)
    BY <2>2, UnionBound
  <2>4. /\ IsFiniteSet((Kin \cup freed) \cup now)
        /\ Cardinality((Kin \cup freed) \cup now) <= Cardinality(Kin \cup freed) + Cardinality(now)
    BY <2>2, <2>3, UnionBound
  <2>5. Cardinality(Busy) <= Cardinality((Kin \cup freed) \cup now)
    BY <2>1, <2>4, FS_Subset
  <2>6. /\ Cardinality(Busy) \in Nat /\ Cardinality(Kin \cup freed) \in Nat
        /\ Cardinality((Kin \cup freed) \cup now) \in Nat
    BY <2>1, <2>3, <2>4, FS_Subset, FS_CardinalityType
  <2> HIDE DEF Busy
  <2>7. Cardinality(Busy) <= poolUse'
    BY <1>1, <1>4, <1>5, <1>6, <2>3, <2>4, <2>5, <2>6
  <2> QED BY <2>7 DEF Busy
<1>12. /\ ready \ {e} \subseteq ready'
       /\ ready' \subseteq (ready \ {e}) \cup new \cup delayed
       /\ readyRemote' = readyRemote \cup {d \in new : IsRemote(d)}
       /\ {d \in new : IsRemote(d)} \subseteq ready'
       /\ delayed' \subseteq delayed \cup new
       /\ \A d \in delayed' : InPool(m, d)
       /\ poolUse' \in 0 .. m.depth
  BY <1>1, <1>2, <1>3, <1>4, <1>5, <1>6, <1>7, <1>8
<1>13. /\ success => /\ DOMAIN want' = DOMAIN want \ {e}
                     /\ \A d \in DOMAIN want' :
                          want'[d] = IF d \in new THEN "finish" ELSE want[d]
       /\ ~success => want' = want
  BY <1>1, <1>3
<1>14. new \in SUBSET DOMAIN want /\ e \notin new BY <1>3
<1>15. PlanAfter(e, success, new)
  BY <1>3, <1>10, <1>11, <1>12, <1>13, <1>14 DEF m, PlanAfter
<1> QED BY <1>14, <1>15

(***************************************************************************)
(* Every action keeps the invariant.                                       *)
(***************************************************************************)
\* Taking edges from those the pool counts leaves the pool right.
LEMMA FewerBusy ==
  ASSUME IInv, PoolBusy' \subseteq PoolBusy, UNCHANGED poolUse
  PROVE  Cardinality(PoolBusy') <= poolUse'
<1>1. PoolBusy \subseteq AllEdges
  BY NamedEdges DEF IInv, TypeOK, Located, Held, PoolBusy
<1>2. /\ IsFiniteSet(PoolBusy) /\ Cardinality(PoolBusy) \in Nat /\ Cardinality(PoolBusy') \in Nat
  BY <1>1, FinitelyMany
<1>3. Cardinality(PoolBusy') <= Cardinality(PoolBusy) BY <1>2, FS_Subset
<1> QED BY <1>2, <1>3 DEF IInv, TypeOK, PoolKept

\* A subprocess that has ended is among the finished until it is reaped.
LEMMA AddedFinished ==
  ASSUME NEW e, NEW success \in BOOLEAN, finished' = finished \cup {<<e, success>>}
  PROVE  FinishedEdges' = FinishedEdges \cup {e}
<1>1. <<e, success>>[1] = e OBVIOUS
<1>2. ASSUME NEW d \in FinishedEdges' PROVE d \in FinishedEdges \cup {e}
  <2>1. PICK r \in finished' : d = r[1] BY DEF FinishedEdges
  <2>2. CASE r = <<e, success>> BY <1>1, <2>1, <2>2
  <2>3. CASE r \in finished BY <2>1, <2>3 DEF FinishedEdges
  <2> QED BY <2>1, <2>2, <2>3
<1>3. ASSUME NEW d \in FinishedEdges \cup {e} PROVE d \in FinishedEdges'
  <2>1. CASE d = e
    <3>1. <<e, success>> \in finished' OBVIOUS
    <3> QED BY <1>1, <2>1, <3>1 DEF FinishedEdges
  <2>2. CASE d \in FinishedEdges
    <3>1. PICK r \in finished : d = r[1] BY <2>2 DEF FinishedEdges
    <3>2. r \in finished' BY <3>1
    <3> QED BY <3>1, <3>2 DEF FinishedEdges
  <2> QED BY <1>3, <2>1, <2>2
<1> QED BY <1>2, <1>3

LEMMA RemovedFinished ==
  ASSUME Single, NEW r \in finished, finished' = finished \ {r}
  PROVE  FinishedEdges' = FinishedEdges \ {r[1]}
<1>1. ASSUME NEW d \in FinishedEdges' PROVE d \in FinishedEdges \ {r[1]}
  <2>1. PICK q \in finished' : d = q[1] BY DEF FinishedEdges
  <2>2. q \in finished /\ q # r BY <2>1
  <2>3. q[1] # r[1] BY <2>2 DEF Single
  <2> QED BY <2>1, <2>2, <2>3 DEF FinishedEdges
<1>2. ASSUME NEW d \in FinishedEdges \ {r[1]} PROVE d \in FinishedEdges'
  <2>1. PICK q \in finished : d = q[1] BY <1>2 DEF FinishedEdges
  <2>2. q \in finished' BY <1>2, <2>1
  <2> QED BY <2>1, <2>2 DEF FinishedEdges
<1> QED BY <1>1, <1>2

\* The loop moves on, or returns, or the user interrupts.
LEMMA MoveKeeps ==
  ASSUME IInv, UNCHANGED <<manifest, planVars, runnerVars, clientVars, remoteVars, files>>,
         UNCHANGED <<failuresAllowed, diskErrors, excused>>, interrupted' \in BOOLEAN,
         \/ UNCHANGED <<at, outcome>>
         \/ /\ at \notin Ended /\ outcome = "none" /\ outcome' = "none"
            /\ at' \in {"remote", "reap", "local", "wait", "idle"}
         \/ /\ at \notin Ended /\ outcome = "none" /\ at' = "cleanup"
            /\ outcome' \in {"success", "failed", "stuck", "interrupted"}
            /\ outcome' = "success" => ~MoreToDo
  PROVE  IInv'
<1>1. FinishedEdges' = FinishedEdges /\ ResultEdges' = ResultEdges /\ PoolBusy' = PoolBusy
  BY DEF planVars, runnerVars, remoteVars, FinishedEdges, ResultEdges, PoolBusy, InPool
<1>2. TypeOK'
  BY <1>1 DEF MoreToDo, IInv, TypeOK, RemoteEdges, planVars, loopVars, runnerVars,
     clientVars, remoteVars, envVars
<1>3. Located'
  BY <1>1 DEF MoreToDo, IInv, Located, Held, planVars, loopVars, runnerVars, clientVars,
     remoteVars, envVars
<1>4. Apart'
  BY <1>1 DEF MoreToDo, IInv, Apart, planVars, loopVars, runnerVars, clientVars,
     remoteVars, envVars
<1>5. Single'
  BY <1>1 DEF MoreToDo, IInv, Single, planVars, loopVars, runnerVars, clientVars,
     remoteVars, envVars
<1>6. RemoteSide'
  BY <1>1 DEF MoreToDo, IInv, RemoteSide, planVars, loopVars, runnerVars, clientVars,
     remoteVars, envVars
<1>7. PoolKept'
  BY <1>1 DEF MoreToDo, IInv, PoolKept, planVars, loopVars, runnerVars, clientVars,
     remoteVars, envVars
<1>8. Accounts'
  BY <1>1 DEF MoreToDo, IInv, Accounts, Ended, Processes, planVars, loopVars,
     runnerVars, clientVars, remoteVars, envVars
<1>9. Ordered'
  BY <1>1 DEF MoreToDo, IInv, Ordered, planVars, loopVars, runnerVars, clientVars,
     remoteVars, envVars
<1>10. Kept'
  BY <1>1 DEF MoreToDo, IInv, Kept, Needed, planVars, loopVars, runnerVars, clientVars,
     remoteVars, envVars, Ended
<1>11. Returned'
  BY <1>1 DEF MoreToDo, IInv, Returned, Ended, planVars, loopVars, runnerVars,
     clientVars, remoteVars, envVars, Accounts, Located, Held
<1>12. Left'
  BY <1>1 DEF MoreToDo, IInv, Left, Ended, planVars, loopVars, runnerVars, clientVars,
     remoteVars, envVars
<1> QED
  BY <1>2, <1>3, <1>4, <1>5, <1>6, <1>7, <1>8, <1>9, <1>10, <1>11, <1>12 DEF IInv

\* A command that cannot be started ends the build.
LEMMA StartFailsKeeps ==
  ASSUME IInv, NEW place \in {"remote", "local"}, NEW onlyRemote \in BOOLEAN,
         StartFails(place, onlyRemote)
  PROVE  IInv'
<1>1. PICK e \in Edges(manifest) : FindWork(e, onlyRemote) BY DEF StartFails
<1>2. e \in ready BY <1>1 DEF FindWork, IInv, RemoteSide
<1>3. FinishedEdges' = FinishedEdges /\ ResultEdges' = ResultEdges /\ PoolBusy' \subseteq PoolBusy
  BY <1>1 DEF StartFails, FindWork, runnerVars, remoteVars, FinishedEdges, ResultEdges, PoolBusy,
     InPool
<1>4. TypeOK'
  BY <1>1, <1>2, <1>3 DEF StartFails, FindWork, Return, IInv, TypeOK, RemoteEdges,
     planVars, loopVars, runnerVars, clientVars, remoteVars, envVars
<1>5. Located'
  BY <1>1, <1>2, <1>3 DEF StartFails, FindWork, Return, IInv, Located, Held, planVars,
     loopVars, runnerVars, clientVars, remoteVars, envVars
<1>6. Apart'
  BY <1>1, <1>2, <1>3 DEF StartFails, FindWork, Return, IInv, Apart, planVars, loopVars,
     runnerVars, clientVars, remoteVars, envVars
<1>7. Single'
  BY <1>1, <1>2, <1>3 DEF StartFails, FindWork, Return, IInv, Single, planVars,
     loopVars, runnerVars, clientVars, remoteVars, envVars
<1>8. RemoteSide'
  BY <1>1, <1>2, <1>3 DEF StartFails, FindWork, Return, IInv, RemoteSide, planVars,
     loopVars, runnerVars, clientVars, remoteVars, envVars
<1>9. PoolKept'
  BY <1>1, <1>2, <1>3, FewerBusy DEF StartFails, FindWork, Return, IInv, PoolKept,
     planVars, loopVars, runnerVars, clientVars, remoteVars, envVars
<1>10. Accounts'
  BY <1>1, <1>2, <1>3 DEF StartFails, FindWork, Return, IInv, Accounts, Returned, Ended,
     Processes, planVars, loopVars, runnerVars, clientVars, remoteVars, envVars
<1>11. Ordered'
  BY <1>1, <1>2, <1>3 DEF StartFails, FindWork, Return, IInv, Ordered, planVars,
     loopVars, runnerVars, clientVars, remoteVars, envVars
<1>12. Kept'
  BY <1>1, <1>2, <1>3 DEF StartFails, FindWork, Return, IInv, Kept, Needed, planVars,
     loopVars, runnerVars, clientVars, remoteVars, envVars, Ended
<1>13. Returned'
  BY <1>1, <1>2, <1>3 DEF StartFails, FindWork, Return, IInv, Returned, Ended, planVars,
     loopVars, runnerVars, clientVars, remoteVars, envVars, Accounts, Located, Held
<1>14. Left'
  BY <1>1, <1>2, <1>3 DEF StartFails, FindWork, Return, IInv, Left, Ended, planVars,
     loopVars, runnerVars, clientVars, remoteVars, envVars
<1> QED
  BY <1>4, <1>5, <1>6, <1>7, <1>8, <1>9, <1>10, <1>11, <1>12, <1>13, <1>14 DEF IInv

\* A command goes to the remote, or is answered for its missing input.
LEMMA StartRemoteKeeps ==
  ASSUME IInv, StartRemote
  PROVE  IInv'
<1>1. PICK e \in Edges(manifest) :
        /\ FindWork(e, TRUE)
        /\ \/ /\ requests' = requests \cup {e} /\ activeEdges' = activeEdges \cup {e}
              /\ Inputs(manifest, e) \subseteq files
              /\ UNCHANGED results
           \/ /\ results' = Append(results, <<e, FALSE>>)
              /\ UNCHANGED <<requests, activeEdges>>
  BY DEF StartRemote
<1>2. /\ e \in ready /\ IsRemote(e) /\ e \in AllEdges
      /\ e \notin requests /\ e \notin ResultEdges
  BY <1>1, NamedEdges DEF FindWork, IInv, RemoteSide, Apart
<1>3. FinishedEdges' = FinishedEdges /\ PoolBusy' \subseteq PoolBusy
  BY <1>1 DEF StartRemote, FindWork, runnerVars, remoteVars, FinishedEdges, PoolBusy, InPool
<1>4. /\ results' \in Seq(AllEdges \X BOOLEAN)
      /\ Len(results) \in Nat /\ Len(results') \in Nat
      /\ requests' \cup ResultEdges' = requests \cup ResultEdges \cup {e}
      /\ \/ requests' = requests \cup {e} /\ activeEdges' = activeEdges \cup {e}
            /\ Inputs(manifest, e) \subseteq files
            /\ ResultEdges' = ResultEdges /\ UNCHANGED results
         \/ UNCHANGED <<requests, activeEdges>> /\ ResultEdges' = ResultEdges \cup {e}
            /\ Len(results') = Len(results) + 1
      /\ \A i, j \in DOMAIN results' : results'[i][1] = results'[j][1] => i = j
      /\ \A i \in DOMAIN results' : \/ i \in DOMAIN results /\ results'[i] = results[i]
                                    \/ results'[i][2] = FALSE
  <2>1. CASE /\ requests' = requests \cup {e} /\ activeEdges' = activeEdges \cup {e}
             /\ Inputs(manifest, e) \subseteq files
             /\ UNCHANGED results
    <3>1. ResultEdges' = ResultEdges BY <2>1 DEF ResultEdges
    <3>2. results \in Seq(AllEdges \X BOOLEAN) BY DEF IInv, TypeOK
    <3>3. Len(results) \in Nat BY <3>2
    <3>4. \A i, j \in DOMAIN results' : results'[i][1] = results'[j][1] => i = j
      BY <2>1 DEF IInv, Single
    <3> QED BY <2>1, <3>1, <3>2, <3>3, <3>4
  <2>2. CASE /\ results' = Append(results, <<e, FALSE>>)
             /\ UNCHANGED <<requests, activeEdges>>
    <3>1. results \in Seq(AllEdges \X BOOLEAN) BY DEF IInv, TypeOK
    <3>2. Len(results) \in Nat BY <3>1
    <3>3. /\ results' \in Seq(AllEdges \X BOOLEAN)
          /\ Len(results') = Len(results) + 1 /\ ResultEdges' = ResultEdges \cup {e}
          /\ \A i \in DOMAIN results' :
               \/ i \in DOMAIN results /\ results'[i] = results[i]
               \/ results'[i] = <<e, FALSE>>
          /\ \A i, j \in DOMAIN results' : results'[i][1] = results'[j][1] => i = j
      BY <1>2, <2>2, AppendedResult DEF IInv
    <3>4. \A i \in DOMAIN results' : \/ i \in DOMAIN results /\ results'[i] = results[i]
                                     \/ results'[i][2] = FALSE
      <4>1. ASSUME NEW i \in DOMAIN results', results'[i] = <<e, FALSE>>
            PROVE  results'[i][2] = FALSE
        <5>1. <<e, FALSE>>[2] = FALSE OBVIOUS
        <5> QED BY <4>1, <5>1, Zenon
      <4> QED BY <3>3, <4>1, Zenon
    <3>5. Len(results') \in Nat BY <3>2, <3>3
    <3>6. requests' \cup ResultEdges' = requests \cup ResultEdges \cup {e} BY <2>2, <3>3
    <3> QED BY <2>2, <3>2, <3>3, <3>4, <3>5, <3>6
  <2> QED BY <1>1, <2>1, <2>2
<1>5. Cardinality(requests') + Len(results') = Cardinality(requests) + Len(results) + 1
  <2>1. requests \in SUBSET AllEdges /\ IsFiniteSet(requests) /\ Cardinality(requests) \in Nat
    BY FinitelyMany DEF IInv, TypeOK
  <2>2. Cardinality(requests \cup {e}) = Cardinality(requests) + 1
    BY <1>2, <2>1, FS_AddElement
  <2>3. CASE requests' = requests \cup {e} /\ UNCHANGED results BY <1>4, <2>1, <2>2, <2>3
  <2>4. CASE UNCHANGED requests /\ Len(results') = Len(results) + 1 BY <1>4, <2>1, <2>4
  <2> QED BY <1>4, <2>3, <2>4
<1>6. ~manifest.dryRun \/ requests' = requests
  <2>1. <<e[1], "pp">> \in Inputs(manifest, e) BY <1>2 DEF IsRemote, Inputs
  <2> QED BY <1>4, <2>1 DEF IInv, Kept
<1>7. TypeOK'
  BY <1>1, <1>2, <1>3, <1>4, <1>5, <1>6, NamedEdges DEF StartRemote, FindWork, IInv,
     TypeOK, RemoteEdges, planVars, loopVars, runnerVars, clientVars, remoteVars,
     envVars
<1>8. Located'
  BY <1>1, <1>2, <1>3, <1>4, <1>5, <1>6 DEF StartRemote, FindWork, IInv, Located, Held,
     planVars, loopVars, runnerVars, clientVars, remoteVars, envVars
<1>9. Apart'
  BY <1>1, <1>2, <1>3, <1>4, <1>5, <1>6 DEF StartRemote, FindWork, IInv, Apart,
     planVars, loopVars, runnerVars, clientVars, remoteVars, envVars
<1>10. Single'
  BY <1>1, <1>2, <1>3, <1>4, <1>5, <1>6 DEF StartRemote, FindWork, IInv, Single,
     planVars, loopVars, runnerVars, clientVars, remoteVars, envVars
<1>11. RemoteSide'
  BY <1>1, <1>2, <1>3, <1>4, <1>5, <1>6 DEF StartRemote, FindWork, IInv, RemoteSide,
     planVars, loopVars, runnerVars, clientVars, remoteVars, envVars
<1>12. PoolKept'
  BY <1>1, <1>2, <1>3, <1>4, <1>5, <1>6, FewerBusy DEF StartRemote, FindWork, IInv,
     PoolKept, planVars, loopVars, runnerVars, clientVars, remoteVars, envVars
<1>13. Accounts'
  BY <1>1, <1>2, <1>3, <1>4, <1>5, <1>6 DEF StartRemote, FindWork, IInv, Accounts,
     Ended, Processes, planVars, loopVars, runnerVars, clientVars, remoteVars, envVars,
     TypeOK
<1>14. Ordered'
  BY <1>1, <1>2, <1>3, <1>4, <1>5, <1>6 DEF StartRemote, FindWork, IInv, Ordered,
     planVars, loopVars, runnerVars, clientVars, remoteVars, envVars
<1>15. Kept'
  BY <1>1, <1>2, <1>3, <1>4, <1>5, <1>6 DEF StartRemote, FindWork, IInv, Kept, Needed,
     planVars, loopVars, runnerVars, clientVars, remoteVars, envVars
<1>16. Returned'
  BY <1>1, <1>2, <1>3, <1>4, <1>5, <1>6 DEF StartRemote, FindWork, IInv, Returned,
     Ended, planVars, loopVars, runnerVars, clientVars, remoteVars, envVars
<1>17. Left'
  BY <1>1, <1>2, <1>3, <1>4, <1>5, <1>6 DEF StartRemote, FindWork, IInv, Left, Ended,
     planVars, loopVars, runnerVars, clientVars, remoteVars, envVars
<1> QED
  BY <1>7, <1>8, <1>9, <1>10, <1>11, <1>12, <1>13, <1>14, <1>15, <1>16, <1>17 DEF IInv

\* A command starts here; in a dry run it has finished at once.
LEMMA StartLocalKeeps ==
  ASSUME IInv, StartLocal
  PROVE  IInv'
<1>1. PICK e \in Edges(manifest) :
        /\ FindWork(e, FALSE) /\ ~IsPhony(manifest, e)
        /\ \/ /\ manifest.dryRun
              /\ finished' = finished \cup {<<e, TRUE>>} /\ UNCHANGED running
           \/ /\ ~manifest.dryRun
              /\ running' = running \cup {e} /\ UNCHANGED finished
  BY DEF StartLocal
<1>2. /\ e \in ready /\ e \in AllEdges /\ e \notin running /\ e \notin FinishedEdges
      /\ <<e, TRUE>> \notin finished
  BY <1>1, NamedEdges DEF FindWork, IInv, Apart, FinishedEdges
<1>3. /\ ResultEdges' = ResultEdges
      /\ PoolBusy' \subseteq PoolBusy
      /\ \/ running' = running /\ FinishedEdges' = FinishedEdges \cup {e}
         \/ running' = running \cup {e} /\ FinishedEdges' = FinishedEdges
      /\ manifest.dryRun => FinishedEdges' = FinishedEdges \cup {e}
      /\ ~manifest.dryRun => FinishedEdges' = FinishedEdges
  <2>1. ResultEdges' = ResultEdges BY DEF StartLocal, remoteVars, ResultEdges
  <2>2. CASE manifest.dryRun
    <3>1. FinishedEdges' = FinishedEdges \cup {e}
      <4>1. finished' = finished \cup {<<e, TRUE>>} BY <1>1, <2>2, Zenon
      <4> QED BY <4>1, AddedFinished, Zenon
    <3> QED BY <1>1, <1>2, <2>1, <2>2, <3>1 DEF PoolBusy, InPool, StartLocal, FindWork
  <2>3. CASE ~manifest.dryRun
    <3>1. FinishedEdges' = FinishedEdges BY <1>1, <2>3 DEF FinishedEdges
    <3> QED BY <1>1, <1>2, <2>1, <2>3, <3>1 DEF PoolBusy, InPool, StartLocal, FindWork
  <2> QED BY <2>2, <2>3
<1>4. Processes' = Processes + 1
  <2>1. /\ IsFiniteSet(running) /\ Cardinality(running) \in Nat
        /\ IsFiniteSet(finished) /\ Cardinality(finished) \in Nat
    BY FinitelyMany, FinitelyManyResults DEF IInv, TypeOK
  <2>2. CASE manifest.dryRun
    <3>1. running' = running /\ finished' = finished \cup {<<e, TRUE>>} BY <1>1, <2>2, Zenon
    <3>2. Cardinality(finished') = Cardinality(finished) + 1
      BY <1>2, <2>1, <3>1, FS_AddElement, Zenon
    <3>3. Cardinality(running') = Cardinality(running) BY <3>1, Zenon
    <3> QED BY <2>1, <3>2, <3>3 DEF Processes
  <2>3. CASE ~manifest.dryRun
    <3>1. finished' = finished /\ running' = running \cup {e} BY <1>1, <2>3, Zenon
    <3>2. Cardinality(running') = Cardinality(running) + 1
      BY <1>2, <2>1, <3>1, FS_AddElement, Zenon
    <3>3. Cardinality(finished') = Cardinality(finished) BY <3>1, Zenon
    <3> QED BY <2>1, <3>2, <3>3 DEF Processes
  <2> QED BY <2>2, <2>3
<1>5. \A r \in finished' : r \in finished \/ r = <<e, TRUE>> BY <1>1
<1>6. running' \subseteq AllEdges /\ finished' \subseteq AllEdges \X BOOLEAN
  <2>1. <<e, TRUE>> \in AllEdges \X BOOLEAN BY <1>2
  <2>2. finished' \subseteq AllEdges \X BOOLEAN BY <1>5, <2>1 DEF IInv, TypeOK
  <2> QED BY <1>2, <1>3, <2>2 DEF IInv, TypeOK
<1>7. /\ ready' = ready \ {e} /\ readyRemote' = readyRemote \ {e}
      /\ UNCHANGED <<want, delayed, poolUse, results>>
  BY <1>1 DEF FindWork, StartLocal, remoteVars
<1>8. TypeOK'
  BY <1>6, <1>7 DEF StartLocal, Go, IInv, TypeOK, RemoteEdges, clientVars, remoteVars, envVars
<1>9. Located'
  BY <1>1, <1>2, <1>3 DEF StartLocal, FindWork, Go, IInv, Located, Held, planVars,
     loopVars, runnerVars, clientVars, remoteVars, envVars
<1>10. Apart'
  BY <1>2, <1>3, <1>7 DEF StartLocal, clientVars, IInv, Apart
<1>11. Single'
  <2>1. \A r \in finished' : (r \in finished /\ r[1] # e) \/ r = <<e, TRUE>>
    BY <1>2, <1>5 DEF FinishedEdges
  <2>2. ASSUME NEW r \in finished', NEW q \in finished', r[1] = q[1] PROVE r = q
    <3>1. <<e, TRUE>>[1] = e OBVIOUS
    <3>2. CASE r \in finished /\ q \in finished BY <2>2, <3>2 DEF IInv, Single
    <3>3. CASE r = <<e, TRUE>> BY <2>1, <2>2, <3>1, <3>3
    <3>4. CASE q = <<e, TRUE>> BY <2>1, <2>2, <3>1, <3>4
    <3> QED BY <2>1, <3>2, <3>3, <3>4
  <2>3. results' = results BY <1>7
  <2>4. \A i, j \in DOMAIN results' : results'[i][1] = results'[j][1] => i = j
    BY <2>3 DEF IInv, Single
  <2> QED BY <2>2, <2>4 DEF Single
<1>12. RemoteSide'
  BY <1>1, <1>2, <1>3 DEF StartLocal, FindWork, Go, IInv, RemoteSide, planVars,
     loopVars, runnerVars, clientVars, remoteVars, envVars
<1>13. PoolKept'
  BY <1>1, <1>2, <1>3, FewerBusy DEF StartLocal, FindWork, Go, IInv, PoolKept, planVars,
     loopVars, runnerVars, clientVars, remoteVars, envVars
<1>14. Accounts'
  BY <1>4 DEF StartLocal, Go, IInv, Accounts, Ended, clientVars, remoteVars
<1>15. Ordered'
  BY <1>1, <1>2, <1>3 DEF StartLocal, FindWork, Go, IInv, Ordered, planVars, loopVars,
     runnerVars, clientVars, remoteVars, envVars
<1>16. Kept'
  BY <1>1, <1>2, <1>3, <1>5 DEF StartLocal, FindWork, Go, IInv, Kept, Needed, planVars,
     loopVars, runnerVars, clientVars, remoteVars, envVars
<1>17. Returned'
  BY <1>1, <1>2, <1>3 DEF StartLocal, FindWork, Go, IInv, Returned, Ended, planVars,
     loopVars, runnerVars, clientVars, remoteVars, envVars
<1>18. Left'
  BY <1>1, <1>2, <1>3 DEF StartLocal, FindWork, Go, IInv, Left, Ended, planVars,
     loopVars, runnerVars, clientVars, remoteVars, envVars, Accounts
<1> QED
  BY <1>8, <1>9, <1>10, <1>11, <1>12, <1>13, <1>14, <1>15, <1>16, <1>17, <1>18 DEF IInv

\* What EdgeFinished does to the plan keeps plan and places together.
LEMMA PlanKeeps ==
  ASSUME IInv, NEW e \in ready \cup FinishedEdges \cup ResultEdges, e \notin readyRemote,
         NEW success \in BOOLEAN, EdgeFinished(e, success),
         UNCHANGED <<manifest, running, requests>>,
         FinishedEdges' = FinishedEdges \ {e}, ResultEdges' = ResultEdges \ {e}
  PROVE  \E new \in SUBSET DOMAIN want :
           /\ PlanAfter(e, success, new) /\ new \cap Held = {}
           /\ Located' /\ Apart' /\ RemoteSide' /\ PoolKept' /\ Ordered'
           /\ /\ DOMAIN want' \subseteq Edges(manifest)
              /\ \A d \in DOMAIN want' : want'[d] \in {"start", "finish"}
              /\ ready' \subseteq DOMAIN want' /\ delayed' \subseteq DOMAIN want'
              /\ readyRemote' \subseteq RemoteEdges(manifest)
              /\ poolUse' \in 0 .. manifest.depth
<1>0. PICK new \in SUBSET DOMAIN want : PlanAfter(e, success, new) BY Finishing
<1>1. /\ e \notin new
      /\ \A d \in new : /\ want[d] = "start"
                        /\ Inputs(manifest, d) \cap (DOMAIN want \ {e}) = {}
      /\ success => /\ DOMAIN want' = DOMAIN want \ {e}
                    /\ \A d \in DOMAIN want' :
                         want'[d] = IF d \in new THEN "finish" ELSE want[d]
      /\ ~success => want' = want /\ new = {}
      /\ ready \ {e} \subseteq ready'
      /\ ready' \subseteq (ready \ {e}) \cup new \cup delayed
      /\ readyRemote' = readyRemote \cup {d \in new : IsRemote(d)}
      /\ {d \in new : IsRemote(d)} \subseteq ready'
      /\ delayed' \subseteq delayed \cup new
      /\ ready' \cap delayed' = {}
      /\ \A d \in delayed' : InPool(manifest, d)
      /\ poolUse' \in 0 .. manifest.depth
      /\ Cardinality({x \in ready' \cup ((running \cup FinishedEdges) \ {e}) :
                        InPool(manifest, x)}) <= poolUse'
  BY <1>0 DEF PlanAfter
<1>2. /\ e \in DOMAIN want /\ want[e] = "finish" /\ e \in Edges(manifest)
      /\ e \notin delayed \cup running \cup requests
  <2>1. e \in Held /\ DOMAIN want \subseteq Edges(manifest) BY DEF IInv, TypeOK, Held
  <2>2. CASE e \in ready BY <2>1, <2>2 DEF IInv, Located, Apart
  <2>3. CASE e \in FinishedEdges BY <2>1, <2>3 DEF IInv, Located, Apart
  <2>4. CASE e \in ResultEdges BY <2>1, <2>4 DEF IInv, Located, Apart
  <2> QED BY <2>2, <2>3, <2>4
<1>3. \A d \in Held : d \in DOMAIN want /\ want[d] = "finish" /\ d \notin new
  BY <1>1 DEF IInv, Located
<1>4. Held' \subseteq (Held \ {e}) \cup new BY <1>1, <1>2 DEF Held
<1>5. Located' BY <1>1, <1>3, <1>4 DEF Located
<1>6. Apart'
  <2>1. \A d \in new : d \notin ready \cup delayed \cup running \cup FinishedEdges
                             \cup requests \cup ResultEdges
    BY <1>3 DEF Held
  <2> QED BY <1>1, <1>2, <2>1 DEF IInv, Apart
<1>7. RemoteSide' BY <1>1, <1>2 DEF IInv, RemoteSide, IsPhony
<1>8. PoolKept'
  <2>1. PoolBusy' = {x \in ready' \cup ((running \cup FinishedEdges) \ {e}) : InPool(manifest, x)}
    BY <1>2 DEF PoolBusy, InPool
  <2> QED BY <1>1, <2>1 DEF PoolKept, InPool
<1>9. Ordered'
  <2> SUFFICES ASSUME NEW d \in Edges(manifest), d \in DOMAIN want' => want'[d] = "finish"
               PROVE  Inputs(manifest, d) \cap DOMAIN want' = {}
    BY DEF Ordered, Edges, Inputs
  <2>1. DOMAIN want' \subseteq DOMAIN want BY <1>1
  <2>2. CASE d \in new BY <1>1, <2>2
  <2>3. CASE d \notin new
    <3>1. d \in DOMAIN want => want[d] = "finish" BY <1>1, <1>2, <2>3
    <3> QED BY <2>1, <3>1 DEF IInv, Ordered
  <2> QED BY <2>2, <2>3
<1>10. /\ DOMAIN want' \subseteq Edges(manifest)
       /\ \A d \in DOMAIN want' : want'[d] \in {"start", "finish"}
  BY <1>1 DEF IInv, TypeOK
<1>11. ready' \subseteq DOMAIN want' /\ delayed' \subseteq DOMAIN want'
  <2>1. ready \cup delayed \cup new \subseteq DOMAIN want BY DEF IInv, TypeOK
  <2>2. CASE success BY <1>1, <1>2, <2>1, <2>2
  <2>3. CASE ~success BY <1>1, <2>1, <2>3
  <2> QED BY <2>2, <2>3
<1>12. readyRemote' \subseteq RemoteEdges(manifest)
  BY <1>1 DEF IInv, TypeOK, RemoteEdges
<1>13. new \cap Held = {} BY <1>3
<1> QED BY <1>0, <1>1, <1>5, <1>6, <1>7, <1>8, <1>9, <1>10, <1>11, <1>12, <1>13

\* A command is reaped, whichever executor had it.
LEMMA FinishKeeps ==
  ASSUME IInv, NEW e \in FinishedEdges \cup ResultEdges, NEW success \in BOOLEAN,
         at = "reap" \/ at = "wait", outcome = "none", Finished(e, success),
         UNCHANGED <<manifest, running, requests, written, activeEdges, hasStart>>,
         success /\ ~manifest.dryRun => e \in files, ~IsPhony(manifest, e),
         FinishedEdges' = FinishedEdges \ {e}, ResultEdges' = ResultEdges \ {e},
         finished' \subseteq finished,
         results' \in Seq(AllEdges \X BOOLEAN),
         \A i \in DOMAIN results' : \E j \in DOMAIN results : results'[i] = results[j],
         \A i, j \in DOMAIN results' : results'[i][1] = results'[j][1] => i = j,
         pendingRemote' \in Nat, pendingRemote' = Cardinality(requests) + Len(results'),
         pendingCommands' \in Nat, pendingCommands' = Processes'
  PROVE  IInv'
<1>1. /\ EdgeFinished(e, success) /\ e \notin readyRemote
      /\ e \in DOMAIN want /\ want[e] = "finish" /\ e \in Edges(manifest) /\ e \in AllEdges
  <2>1. EdgeFinished(e, success) BY DEF Finished
  <2>2. e \in Held /\ DOMAIN want \subseteq Edges(manifest) /\ Edges(manifest) \subseteq AllEdges
    BY NamedEdges DEF IInv, TypeOK, Held
  <2>3. e \notin ready BY DEF IInv, Apart
  <2> QED BY <2>1, <2>2, <2>3 DEF IInv, Located, RemoteSide
<1>2. PICK new \in SUBSET DOMAIN want :
        /\ PlanAfter(e, success, new) /\ new \cap Held = {}
        /\ Located' /\ Apart' /\ RemoteSide' /\ PoolKept' /\ Ordered'
        /\ /\ DOMAIN want' \subseteq Edges(manifest)
           /\ \A d \in DOMAIN want' : want'[d] \in {"start", "finish"}
           /\ ready' \subseteq DOMAIN want' /\ delayed' \subseteq DOMAIN want'
           /\ readyRemote' \subseteq RemoteEdges(manifest)
           /\ poolUse' \in 0 .. manifest.depth
  BY <1>1, PlanKeeps
<1>3. /\ success => DOMAIN want' = DOMAIN want \ {e}
      /\ ~success => want' = want
  BY <1>2 DEF PlanAfter
<1>4. \A d \in Held : d \in DOMAIN want BY DEF IInv, Located
<1>5. /\ at' = "remote" /\ outcome' = outcome /\ diskErrors' = diskErrors
      /\ interrupted' = interrupted
      /\ failuresAllowed' \in 0 .. manifest.failures
      /\ excused' = IF success THEN excused ELSE excused \cup {e}
      /\ files' = RemainingFiles(e, success)
  <2>1. manifest.failures \in Nat BY BuildAssumption DEF IInv, TypeOK, ManifestRecords
  <2> QED BY <2>1 DEF Finished, IInv, TypeOK
<1>6. /\ files' \subseteq files
      /\ \A d \in files \ files' : /\ success /\ IsRemote(e)
                                   /\ d = <<e[1], "pp">> /\ d \notin DOMAIN want
      /\ success /\ IsRemote(e) => <<e[1], "pp">> \notin files'
  BY <1>1, <1>5
     DEF RemainingFiles, UsesTemporaryInputs, IsRemote, Inputs, IInv, Ordered
<1>7. TypeOK'
  <2>1. files' \subseteq AllEdges /\ excused' \subseteq AllEdges
    BY <1>1, <1>5, <1>6 DEF IInv, TypeOK
  <2> QED BY <1>2, <1>5, <2>1 DEF IInv, TypeOK, RemoteEdges, Edges
<1>8. Located'
  BY <1>2
<1>9. Apart'
  BY <1>2
<1>10. Single'
  BY DEF IInv, Single
<1>11. RemoteSide'
  BY <1>2
<1>12. PoolKept'
  BY <1>2
<1>13. Accounts'
  BY <1>5 DEF IInv, Accounts, Ended
<1>14. Ordered'
  BY <1>2
<1>15. Kept'
  <2>1. \A d \in Held : d \in DOMAIN want BY <1>4
  <2>2. ASSUME NEW d \in Edges(manifest) \ DOMAIN want',
               ~IsPhony(manifest, d), ~manifest.dryRun,
               d[2] = "pp" => <<d[1], "cc">> \in DOMAIN want'
        PROVE  d \in files'
    <3>1. d = e \/ d \notin DOMAIN want BY <1>3, <2>2
    <3>2. d \in files
      <4>1. CASE d = e
        <5>1. success BY <1>1, <1>3, <2>2, <4>1
        <5> QED BY <2>2, <4>1, <5>1
      <4>2. CASE d \notin DOMAIN want
        <5>1. Needed(d) BY <1>3, <2>2 DEF Needed
        <5> QED BY <2>2, <4>2, <5>1 DEF IInv, Kept
      <4> QED BY <3>1, <4>1, <4>2
    <3>3. ASSUME success, IsRemote(e), d = <<e[1], "pp">> PROVE FALSE
      <4>1. e = <<e[1], "cc">> BY <1>1, <3>3 DEF IsRemote, AllEdges
      <4> QED BY <1>3, <2>2, <3>3, <4>1
    <3> QED BY <1>6, <3>2, <3>3
  <2>3. /\ \A r \in finished' : r[2] /\ ~manifest.dryRun => r[1] \in files'
        /\ \A i \in DOMAIN results' : results'[i][2] => results'[i][1] \in files'
        /\ written' \subseteq files'
    <3>1. \A d \in Held \cap files : d \in files' BY <1>6, <2>1
    <3>2. \A r \in finished : r[1] \in Held BY DEF Held, FinishedEdges
    <3>3. \A i \in DOMAIN results : results[i][1] \in Held BY ResultPositions DEF Held
    <3>4. written \subseteq Held BY DEF IInv, TypeOK, Held
    <3> QED BY <3>1, <3>2, <3>3, <3>4 DEF IInv, Kept
  <2>4. ASSUME NEW d \in files' PROVE d \in Edges(manifest) /\ ~IsPhony(manifest, d) /\ Needed(d)'
    <3>1. d \in Edges(manifest) /\ ~IsPhony(manifest, d) /\ Needed(d)
      BY <1>6 DEF IInv, Kept
    <3>2. ASSUME success, d[2] = "pp", <<d[1], "cc">> = e PROVE FALSE
      <4>1. d = <<e[1], "pp">> BY <3>1, <3>2, NamedEdges DEF IInv, AllEdges
      <4> QED BY <1>6, <3>2, <4>1 DEF IsRemote
    <3> QED BY <1>3, <3>1, <3>2 DEF Needed
  <2>5. manifest.dryRun => files' = {} /\ running' = {} /\ requests' = {}
    BY <1>6 DEF IInv, Kept
  <2> QED BY <2>2, <2>3, <2>4, <2>5 DEF Kept, Needed, Edges, IsPhony
<1>16. Returned'
  BY <1>5 DEF IInv, Returned, Ended
<1>17. Left'
  BY <1>3, <1>5, <1>6 DEF IInv, Left, Ended
<1> QED
  BY <1>7, <1>8, <1>9, <1>10, <1>11, <1>12, <1>13, <1>14, <1>15, <1>16, <1>17 DEF IInv

\* A command that is reaped and stays in the plan takes nothing from it.
LEMMA PlanIsLeft ==
  ASSUME IInv, NEW e \in FinishedEdges \cup ResultEdges,
         UNCHANGED <<manifest, planVars, running, requests>>,
         FinishedEdges' = FinishedEdges \ {e}, ResultEdges' = ResultEdges \ {e}
  PROVE  /\ Located' /\ Apart' /\ RemoteSide' /\ PoolKept' /\ Ordered'
         /\ /\ DOMAIN want' \subseteq Edges(manifest)
            /\ \A d \in DOMAIN want' : want'[d] \in {"start", "finish"}
            /\ ready' \subseteq DOMAIN want' /\ delayed' \subseteq DOMAIN want'
            /\ readyRemote' \subseteq RemoteEdges(manifest)
            /\ poolUse' \in 0 .. manifest.depth
<1>1. Located' BY DEF IInv, Located, Held, planVars
<1>2. Apart' BY DEF IInv, Apart, planVars
<1>3. RemoteSide' BY DEF IInv, RemoteSide, planVars, IsPhony
<1>4. PoolKept'
  <2>1. PoolBusy' \subseteq PoolBusy BY DEF PoolBusy, InPool, planVars
  <2> QED BY <2>1, FewerBusy DEF IInv, PoolKept, InPool, planVars
<1>5. Ordered' BY DEF IInv, Ordered, planVars, Edges, Inputs, Output, Split
<1> QED BY <1>1, <1>2, <1>3, <1>4, <1>5 DEF IInv, TypeOK, planVars

\* A command is reaped and the build ends with it.
LEMMA LastReapKeeps ==
  ASSUME IInv, NEW e \in FinishedEdges \cup ResultEdges,
         at = "reap" \/ at = "wait", outcome = "none",
         at' = "cleanup", outcome' = "error" \/ outcome' = "interrupted",
         \/ UNCHANGED planVars
         \/ /\ outcome' = "error" /\ EdgeFinished(e, TRUE)
            /\ ~manifest.dryRun => e \in files,
         UNCHANGED <<manifest, running, requests, written, activeEdges, hasStart, files,
                     failuresAllowed, interrupted>>,
         excused' = excused \cup {e}, diskErrors' \in 0 .. 1,
         FinishedEdges' = FinishedEdges \ {e}, ResultEdges' = ResultEdges \ {e},
         finished' \subseteq finished,
         results' \in Seq(AllEdges \X BOOLEAN),
         \A i \in DOMAIN results' : \E j \in DOMAIN results : results'[i] = results[j],
         \A i, j \in DOMAIN results' : results'[i][1] = results'[j][1] => i = j,
         pendingRemote' \in Nat, pendingRemote' = Cardinality(requests) + Len(results'),
         pendingCommands' \in Nat,
         outcome' # "interrupted" => pendingCommands' = Processes'
  PROVE  IInv'
<1>1. /\ e \notin readyRemote /\ e \in DOMAIN want /\ e \in Edges(manifest) /\ e \in AllEdges
  <2>1. e \in Held /\ DOMAIN want \subseteq Edges(manifest) /\ Edges(manifest) \subseteq AllEdges
    BY NamedEdges DEF IInv, TypeOK, Held
  <2>2. e \notin ready BY DEF IInv, Apart
  <2> QED BY <2>1, <2>2 DEF IInv, Located, RemoteSide
<1>2. /\ Located' /\ Apart' /\ RemoteSide' /\ PoolKept' /\ Ordered'
      /\ /\ DOMAIN want' \subseteq Edges(manifest)
         /\ \A d \in DOMAIN want' : want'[d] \in {"start", "finish"}
         /\ ready' \subseteq DOMAIN want' /\ delayed' \subseteq DOMAIN want'
         /\ readyRemote' \subseteq RemoteEdges(manifest)
         /\ poolUse' \in 0 .. manifest.depth
      /\ \/ DOMAIN want' = DOMAIN want
         \/ /\ DOMAIN want' = DOMAIN want \ {e} /\ outcome' = "error"
            /\ ~manifest.dryRun => e \in files
  <2>1. CASE UNCHANGED planVars
    <3>1. DOMAIN want' = DOMAIN want BY <2>1 DEF planVars
    <3> QED BY <2>1, <3>1, PlanIsLeft
  <2>2. CASE outcome' = "error" /\ EdgeFinished(e, TRUE) /\ (~manifest.dryRun => e \in files)
    <3>1. e \in ready \cup FinishedEdges \cup ResultEdges /\ TRUE \in BOOLEAN OBVIOUS
    <3>2. PICK new \in SUBSET DOMAIN want :
            /\ PlanAfter(e, TRUE, new) /\ new \cap Held = {}
            /\ Located' /\ Apart' /\ RemoteSide' /\ PoolKept' /\ Ordered'
            /\ /\ DOMAIN want' \subseteq Edges(manifest)
               /\ \A d \in DOMAIN want' : want'[d] \in {"start", "finish"}
               /\ ready' \subseteq DOMAIN want' /\ delayed' \subseteq DOMAIN want'
               /\ readyRemote' \subseteq RemoteEdges(manifest)
               /\ poolUse' \in 0 .. manifest.depth
      BY <1>1, <2>2, <3>1, PlanKeeps
    <3>3. DOMAIN want' = DOMAIN want \ {e} BY <3>2 DEF PlanAfter
    <3> QED BY <2>2, <3>2, <3>3
  <2> QED BY <2>1, <2>2
<1>3. TypeOK'
  <2>1. excused' \subseteq AllEdges BY <1>1 DEF IInv, TypeOK
  <2> QED BY <1>2, <2>1 DEF IInv, TypeOK, RemoteEdges, Edges
<1>4. Single' BY DEF IInv, Single
<1>5. Accounts' BY DEF IInv, Accounts, Ended
<1>6. Kept'
  <2>1. ASSUME NEW d \in Edges(manifest) \ DOMAIN want', ~IsPhony(manifest, d),
               ~manifest.dryRun, d[2] = "pp" => <<d[1], "cc">> \in DOMAIN want'
        PROVE  d \in files
    <3>1. CASE d = e BY <1>1, <1>2, <2>1, <3>1
    <3>2. CASE d # e
      <4>1. d \notin DOMAIN want /\ Needed(d) BY <1>2, <2>1, <3>2 DEF Needed
      <4> QED BY <2>1, <4>1 DEF IInv, Kept
    <3> QED BY <3>1, <3>2
  <2>2. ASSUME NEW d \in files, outcome' # "error" PROVE Needed(d)'
    <3>1. DOMAIN want' = DOMAIN want BY <1>2, <2>2
    <3>2. Needed(d)
      <4>1. outcome # "error" OBVIOUS
      <4> QED BY <4>1 DEF IInv, Kept
    <3> QED BY <3>1, <3>2 DEF Needed
  <2> QED BY <2>1, <2>2 DEF IInv, Kept, Needed, Edges, IsPhony
<1>7. Returned' BY DEF IInv, Returned, Ended
<1>8. Left'
  <2>1. DOMAIN want' \subseteq DOMAIN want BY <1>2
  <2> QED BY <2>1 DEF IInv, Left, Ended
<1> QED BY <1>2, <1>3, <1>4, <1>5, <1>6, <1>7, <1>8 DEF IInv

\* FinishCommand, however it returns.
LEMMA FinishCommandKeeps ==
  ASSUME IInv, NEW r \in AllEdges \X BOOLEAN, r[1] \in FinishedEdges \cup ResultEdges,
         at = "reap" \/ at = "wait", FinishCommand(r),
         UNCHANGED <<manifest, running, requests, written, activeEdges, hasStart>>,
         r[2] /\ ~manifest.dryRun => r[1] \in files, ~IsPhony(manifest, r[1]),
         FinishedEdges' = FinishedEdges \ {r[1]}, ResultEdges' = ResultEdges \ {r[1]},
         finished' \subseteq finished,
         results' \in Seq(AllEdges \X BOOLEAN),
         \A i \in DOMAIN results' : \E j \in DOMAIN results : results'[i] = results[j],
         \A i, j \in DOMAIN results' : results'[i][1] = results'[j][1] => i = j,
         pendingRemote' \in Nat, pendingRemote' = Cardinality(requests) + Len(results'),
         pendingCommands' \in Nat, pendingCommands' = Processes'
  PROVE  IInv'
<1> DEFINE e == r[1]
<1>1. outcome = "none" BY DEF IInv, Returned, Ended
<1>2. e \in FinishedEdges \cup ResultEdges /\ r[2] \in BOOLEAN /\ FALSE \in BOOLEAN OBVIOUS
<1>3. CASE Finished(e, r[2]) BY <1>1, <1>2, <1>3, FinishKeeps
<1>4. CASE Finished(e, FALSE) BY <1>1, <1>2, <1>4, FinishKeeps
<1>5. CASE r[2] /\ NotRecorded(e)
  <2>1. diskErrors' \in 0 .. 1 BY <1>5 DEF NotRecorded, IInv, TypeOK
  <2>2. /\ at' = "cleanup" /\ outcome' = "error" /\ excused' = excused \cup {e}
        /\ UNCHANGED <<files, failuresAllowed, interrupted>>
        /\ UNCHANGED planVars \/ EdgeFinished(e, TRUE)
    BY <1>5 DEF NotRecorded, Return
  <2>3. ~manifest.dryRun => e \in files BY <1>5
  <2>4. outcome' = "error" \/ outcome' = "interrupted" BY <2>2
  <2>5. \/ UNCHANGED planVars
        \/ /\ outcome' = "error" /\ EdgeFinished(e, TRUE)
           /\ ~manifest.dryRun => e \in files
    BY <2>2, <2>3
  <2>6. /\ FinishedEdges' = FinishedEdges \ {e} /\ ResultEdges' = ResultEdges \ {e}
        /\ outcome' # "interrupted" => pendingCommands' = Processes'
    OBVIOUS
  <2> HIDE DEF e
  <2> QED BY <1>1, <1>2, <2>1, <2>2, <2>4, <2>5, <2>6, LastReapKeeps
<1> QED BY <1>3, <1>4, <1>5 DEF FinishCommand

\* A phony edge is found and has finished.
LEMMA FinishPhonyKeeps ==
  ASSUME IInv, FinishPhony
  PROVE  IInv'
<1>1. PICK e \in ready : IsPhony(manifest, e) /\ EdgeFinished(e, TRUE) BY DEF FinishPhony
<1>2. /\ e \notin FinishedEdges /\ e \notin ResultEdges /\ e \in DOMAIN want
      /\ e \in Edges(manifest) /\ e \notin readyRemote /\ ~IsRemote(e)
  <2>1. e \in Edges(manifest) /\ e \in DOMAIN want BY DEF IInv, TypeOK
  <2>2. ~IsRemote(e)
    BY <1>1, <2>1, BuildAssumption DEF IInv, TypeOK, IsPhony, IsRemote, Edges, Split
  <2> QED BY <2>1, <2>2 DEF IInv, Apart, RemoteSide
<1>3. /\ UNCHANGED <<manifest, running, requests, results, finished>>
      /\ FinishedEdges' = FinishedEdges /\ ResultEdges' = ResultEdges
      /\ at' = "remote"
  BY DEF FinishPhony, Go, runnerVars, clientVars, remoteVars, FinishedEdges, ResultEdges
<1>4. PICK new \in SUBSET DOMAIN want :
        /\ PlanAfter(e, TRUE, new) /\ new \cap Held = {}
        /\ Located' /\ Apart' /\ RemoteSide' /\ PoolKept' /\ Ordered'
        /\ /\ DOMAIN want' \subseteq Edges(manifest)
           /\ \A d \in DOMAIN want' : want'[d] \in {"start", "finish"}
           /\ ready' \subseteq DOMAIN want' /\ delayed' \subseteq DOMAIN want'
           /\ readyRemote' \subseteq RemoteEdges(manifest)
           /\ poolUse' \in 0 .. manifest.depth
  <2>1. FinishedEdges' = FinishedEdges \ {e} /\ ResultEdges' = ResultEdges \ {e}
    BY <1>2, <1>3
  <2>2. e \in ready \cup FinishedEdges \cup ResultEdges OBVIOUS
  <2>3. UNCHANGED <<manifest, running, requests>> BY <1>3
  <2> QED BY <1>1, <1>2, <2>1, <2>2, <2>3, PlanKeeps
<1>5. DOMAIN want' = DOMAIN want \ {e} BY <1>4 DEF PlanAfter
<1>6. TypeOK'
  BY <1>3, <1>4 DEF FinishPhony, Go, IInv, TypeOK, RemoteEdges, Edges, runnerVars, clientVars,
     remoteVars, envVars
<1>7. Located'
  BY <1>4
<1>8. Apart'
  BY <1>4
<1>9. Single'
  BY <1>3 DEF IInv, Single
<1>10. RemoteSide'
  BY <1>4
<1>11. PoolKept'
  BY <1>4
<1>12. Accounts'
  BY <1>1, <1>2, <1>3, <1>5 DEF FinishPhony, Go, IInv, Accounts, Ended, Processes,
     planVars, loopVars, runnerVars, clientVars, remoteVars, envVars
<1>13. Ordered'
  BY <1>4
<1>14. Kept'
  <2>1. ASSUME NEW d \in Edges(manifest) \ DOMAIN want',
               ~IsPhony(manifest, d), ~manifest.dryRun,
               d[2] = "pp" => <<d[1], "cc">> \in DOMAIN want'
        PROVE  d \in files
    <3>1. d \notin DOMAIN want /\ Needed(d) BY <1>1, <1>5, <2>1 DEF Needed
    <3> QED BY <2>1, <3>1 DEF FinishPhony, IInv, Kept
  <2>2. ASSUME NEW d \in files PROVE Needed(d)'
    <3>1. Needed(d) BY DEF FinishPhony, IInv, Kept, Returned, Ended
    <3> QED BY <1>2, <1>5, <3>1 DEF Needed, IsRemote
  <2> QED BY <1>3, <2>1, <2>2
        DEF FinishPhony, Go, IInv, Kept, Needed, Edges, IsPhony, clientVars
<1>15. Returned'
  BY <1>1, <1>2, <1>3, <1>5 DEF FinishPhony, Go, IInv, Returned, Ended, planVars,
     loopVars, runnerVars, clientVars, remoteVars, envVars
<1>16. Left'
  BY <1>1, <1>2, <1>3, <1>5 DEF FinishPhony, Go, IInv, Left, Ended, planVars, loopVars,
     runnerVars, clientVars, remoteVars, envVars
<1> QED
  BY <1>6, <1>7, <1>8, <1>9, <1>10, <1>11, <1>12, <1>13, <1>14, <1>15, <1>16 DEF IInv

\* The answer of the remote is reaped.
LEMMA ReapRemoteKeeps == ASSUME IInv, ReapRemote PROVE IInv'
<1> DEFINE e == Head(results)[1]
           success == Head(results)[2]
<1>1. /\ at = "reap" /\ results # << >> /\ results' = Tail(results)
      /\ FinishCommand(Head(results))
      /\ UNCHANGED <<manifest, running, finished, requests, written, activeEdges, hasStart,
                     pendingCommands>>
      /\ pendingRemote' = pendingRemote - 1
  BY DEF ReapRemote, runnerVars, clientVars
<1>2. /\ Head(results) \in AllEdges \X BOOLEAN
      /\ e \in ResultEdges
      /\ \E i \in DOMAIN results : Head(results) = results[i]
      /\ results' \in Seq(AllEdges \X BOOLEAN)
      /\ Len(results') = Len(results) - 1
      /\ ResultEdges' = ResultEdges \ {e}
      /\ \A i \in DOMAIN results' : i + 1 \in DOMAIN results /\ results'[i] = results[i + 1]
      /\ \A i, j \in DOMAIN results' : results'[i][1] = results'[j][1] => i = j
  BY <1>1, TakenResult DEF IInv
<1>3. success \in BOOLEAN /\ (success => e \in files)
  BY <1>1, <1>2 DEF IInv, Kept
<1>4. IsRemote(e) /\ ~IsPhony(manifest, e)
  <2>1. IsRemote(e) /\ e \in Edges(manifest) BY <1>2 DEF IInv, RemoteSide, Located, Held, TypeOK
  <2> QED BY <2>1, BuildAssumption DEF IInv, TypeOK, IsPhony, IsRemote, Edges, Split
<1>5. FinishedEdges' = FinishedEdges \ {e}
  BY <1>1, <1>2 DEF IInv, Apart, FinishedEdges
<1>6. \A i \in DOMAIN results' : \E j \in DOMAIN results : results'[i] = results[j] BY <1>2
<1>7. /\ pendingRemote' = Cardinality(requests) + Len(results') /\ pendingRemote' \in Nat
      /\ pendingCommands' = Processes' /\ pendingCommands' \in Nat
  <2>1. Cardinality(requests) \in Nat BY FinitelyMany DEF IInv, TypeOK
  <2>2. Len(results) \in Nat /\ Len(results') \in Nat
    <3>1. results \in Seq(AllEdges \X BOOLEAN) BY DEF IInv, TypeOK
    <3> QED BY <1>2, <3>1
  <2>3. pendingRemote = Cardinality(requests) + Len(results) /\ pendingCommands = Processes
    BY <1>1 DEF IInv, Accounts, Returned, Ended
  <2>4. pendingRemote \in Nat /\ pendingCommands \in Nat BY DEF IInv, TypeOK
  <2>5. pendingRemote' = Cardinality(requests) + Len(results') /\ pendingRemote' \in Nat
    BY <1>1, <1>2, <2>1, <2>2, <2>3, <2>4
  <2>6. pendingCommands' = Processes' /\ pendingCommands' \in Nat
    BY <1>1, <1>2, <2>3, <2>4 DEF Processes
  <2> QED BY <2>5, <2>6
<1>8. finished' \subseteq finished BY <1>1
<1>9. Head(results)[2] /\ ~manifest.dryRun => Head(results)[1] \in files BY <1>3
<1> QED BY <1>1, <1>2, <1>4, <1>5, <1>6, <1>7, <1>8, <1>9, FinishCommandKeeps

\* A subprocess is reaped.
LEMMA ReapLocalKeeps == ASSUME IInv, ReapLocal PROVE IInv'
<1>1. PICK result \in finished :
        finished' = finished \ {result} /\ FinishCommand(result)
  BY DEF ReapLocal
<1> DEFINE e == result[1]
           success == result[2]
<1>2. /\ at = "wait" /\ FinishCommand(result)
      /\ UNCHANGED <<manifest, running, requests, written, activeEdges, hasStart, results,
                     pendingRemote>>
      /\ pendingCommands > 0 /\ pendingCommands' = pendingCommands - 1
  BY <1>1 DEF ReapLocal, clientVars, remoteVars
<1>3. /\ e \in FinishedEdges /\ success \in BOOLEAN
      /\ success /\ ~manifest.dryRun => e \in files
  BY <1>2 DEF IInv, TypeOK, Kept, FinishedEdges
<1>4. ~IsPhony(manifest, e) BY <1>3 DEF IInv, RemoteSide
<1>5. FinishedEdges' = FinishedEdges \ {e} BY <1>1, RemovedFinished DEF IInv
<1>6. ResultEdges' = ResultEdges \ {e}
  <2>1. ResultEdges' = ResultEdges BY <1>2 DEF ResultEdges
  <2> QED BY <1>3, <2>1 DEF IInv, Apart
<1>7. /\ results' \in Seq(AllEdges \X BOOLEAN)
      /\ \A i \in DOMAIN results' : \E j \in DOMAIN results : results'[i] = results[j]
      /\ \A i, j \in DOMAIN results' : results'[i][1] = results'[j][1] => i = j
  BY <1>2 DEF IInv, TypeOK, Single
<1>8. /\ pendingRemote' = Cardinality(requests) + Len(results') /\ pendingRemote' \in Nat
      /\ pendingCommands' = Processes' /\ pendingCommands' \in Nat
  <2>1. IsFiniteSet(finished) /\ Cardinality(finished) \in Nat /\ Cardinality(running) \in Nat
    BY FinitelyMany, FinitelyManyResults DEF IInv, TypeOK
  <2>2. Cardinality(finished') = Cardinality(finished) - 1
    BY <1>1, <2>1, FS_RemoveElement
  <2>3. pendingRemote = Cardinality(requests) + Len(results) /\ pendingCommands = Processes
    BY <1>2 DEF IInv, Accounts, Returned, Ended
  <2>4. pendingRemote \in Nat /\ pendingCommands \in Nat BY DEF IInv, TypeOK
  <2>5. pendingRemote' \in Nat /\ pendingCommands' \in Nat
    BY <1>2, <2>4
  <2>6. pendingCommands' = Processes' BY <1>2, <2>1, <2>2, <2>3 DEF Processes
  <2>7. pendingRemote' = Cardinality(requests) + Len(results') BY <1>2, <2>3
  <2> QED BY <2>5, <2>6, <2>7
<1>9. finished' \subseteq finished BY <1>1
<1>10. result \in AllEdges \X BOOLEAN BY DEF IInv, TypeOK
<1> QED BY <1>2, <1>3, <1>4, <1>5, <1>6, <1>7, <1>8, <1>9, <1>10, FinishCommandKeeps

\* An interrupted subprocess is reaped.
LEMMA ReapInterruptedKeeps == ASSUME IInv, ReapInterrupted PROVE IInv'
<1>1. PICK result \in finished :
        finished' = finished \ {result} /\ excused' = excused \cup {result[1]}
  BY DEF ReapInterrupted
<1> DEFINE e == result[1]
<1>2. /\ at = "wait" /\ at' = "cleanup" /\ outcome' = "interrupted"
      /\ UNCHANGED <<manifest, planVars, running, requests, written, activeEdges, hasStart,
                     results, pendingRemote, pendingCommands, files, failuresAllowed,
                     interrupted, diskErrors>>
  BY DEF ReapInterrupted, Return, clientVars, remoteVars
<1>3. outcome = "none" BY <1>2 DEF IInv, Returned, Ended
<1>4. e \in FinishedEdges BY DEF FinishedEdges
<1>5. FinishedEdges' = FinishedEdges \ {e} BY <1>1, RemovedFinished DEF IInv
<1>6. ResultEdges' = ResultEdges \ {e}
  <2>1. ResultEdges' = ResultEdges BY <1>2 DEF ResultEdges
  <2> QED BY <1>4, <2>1 DEF IInv, Apart
<1>7. /\ results' \in Seq(AllEdges \X BOOLEAN)
      /\ \A i \in DOMAIN results' : \E j \in DOMAIN results : results'[i] = results[j]
      /\ \A i, j \in DOMAIN results' : results'[i][1] = results'[j][1] => i = j
  BY <1>2 DEF IInv, TypeOK, Single
<1>8. /\ pendingRemote' \in Nat /\ pendingRemote' = Cardinality(requests) + Len(results')
      /\ pendingCommands' \in Nat /\ diskErrors' \in 0 .. 1
  BY <1>2 DEF IInv, TypeOK, Accounts, Ended
<1>9. finished' \subseteq finished /\ excused' = excused \cup {e} BY <1>1
<1> HIDE DEF e
<1> QED BY <1>2, <1>3, <1>4, <1>5, <1>6, <1>7, <1>8, <1>9, LastReapKeeps

\* The remote executor is aborted.
LEMMA AbortKeeps ==
  ASSUME IInv, Abort
  PROVE  IInv'
<1>1. FinishedEdges' = FinishedEdges /\ ResultEdges' = ResultEdges /\ PoolBusy' = PoolBusy
  BY DEF Abort, planVars, runnerVars, FinishedEdges, ResultEdges, PoolBusy, InPool
<1>2. excused' = excused \cup ResultEdges BY DEF Abort, ResultEdges
<1>3. ResultEdges \subseteq AllEdges
  BY NamedEdges DEF IInv, TypeOK, Located, Held
<1>4. TypeOK'
  BY <1>1, <1>2, <1>3 DEF Abort, Go, IInv, TypeOK, RemoteEdges, planVars, loopVars,
     runnerVars, clientVars, remoteVars, envVars
<1>5. Located'
  BY <1>1, <1>2, <1>3 DEF Abort, Go, IInv, Located, Held, planVars, loopVars,
     runnerVars, clientVars, remoteVars, envVars
<1>6. Apart'
  BY <1>1, <1>2, <1>3 DEF Abort, Go, IInv, Apart, planVars, loopVars, runnerVars,
     clientVars, remoteVars, envVars
<1>7. Single'
  BY <1>1, <1>2, <1>3 DEF Abort, Go, IInv, Single, planVars, loopVars, runnerVars,
     clientVars, remoteVars, envVars
<1>8. RemoteSide'
  BY <1>1, <1>2, <1>3 DEF Abort, Go, IInv, RemoteSide, planVars, loopVars, runnerVars,
     clientVars, remoteVars, envVars
<1>9. PoolKept'
  BY <1>1, <1>2, <1>3 DEF Abort, Go, IInv, PoolKept, planVars, loopVars, runnerVars,
     clientVars, remoteVars, envVars
<1>10. Accounts'
  BY <1>1, <1>2, <1>3 DEF Abort, Go, IInv, Accounts, Ended, Processes, planVars,
     loopVars, runnerVars, clientVars, remoteVars, envVars
<1>11. Ordered'
  BY <1>1, <1>2, <1>3 DEF Abort, Go, IInv, Ordered, planVars, loopVars, runnerVars,
     clientVars, remoteVars, envVars
<1>12. Kept'
  BY <1>1, <1>2, <1>3 DEF Abort, Go, IInv, Kept, Needed, planVars, loopVars, runnerVars,
     clientVars, remoteVars, envVars
<1>13. Returned'
  BY <1>1, <1>2, <1>3 DEF Abort, Go, IInv, Returned, Ended, planVars, loopVars,
     runnerVars, clientVars, remoteVars, envVars
<1>14. Left'
  BY <1>1, <1>2, <1>3 DEF Abort, Go, IInv, Left, Ended, planVars, loopVars, runnerVars,
     clientVars, remoteVars, envVars, Accounts
<1> QED
  BY <1>4, <1>5, <1>6, <1>7, <1>8, <1>9, <1>10, <1>11, <1>12, <1>13, <1>14 DEF IInv

\* The outputs of the edges that were active go.
LEMMA RemoveOutputsKeeps ==
  ASSUME IInv, RemoveOutputs
  PROVE  IInv'
<1>1. /\ FinishedEdges' = {} /\ running' = {} /\ requests' = {} /\ finished' = {}
      /\ ResultEdges' = ResultEdges /\ results' = results
      /\ files' = files \ (activeEdges \cup running \cup FinishedEdges)
  BY DEF RemoveOutputs, remoteVars, FinishedEdges, ResultEdges
<1>2. PoolBusy' \subseteq PoolBusy
  BY <1>1 DEF RemoveOutputs, planVars, PoolBusy, InPool
<1>3. outcome = "success" => files' = files /\ DOMAIN want = {}
  <2>1. outcome = "success" => running = {} /\ FinishedEdges = {}
    BY DEF IInv, Returned, Located, Held
  <2> QED BY <1>1, <2>1 DEF IInv, Returned
<1>4. TypeOK'
  BY <1>1, <1>2, <1>3 DEF RemoveOutputs, Go, IInv, TypeOK, RemoteEdges, planVars,
     loopVars, runnerVars, clientVars, remoteVars, envVars
<1>5. Located'
  BY <1>1, <1>2, <1>3 DEF RemoveOutputs, Go, IInv, Located, Held, planVars, loopVars,
     runnerVars, clientVars, remoteVars, envVars
<1>6. Apart'
  BY <1>1, <1>2, <1>3 DEF RemoveOutputs, Go, IInv, Apart, planVars, loopVars,
     runnerVars, clientVars, remoteVars, envVars
<1>7. Single'
  BY <1>1, <1>2, <1>3 DEF RemoveOutputs, Go, IInv, Single, planVars, loopVars,
     runnerVars, clientVars, remoteVars, envVars
<1>8. RemoteSide'
  BY <1>1, <1>2, <1>3 DEF RemoveOutputs, Go, IInv, RemoteSide, planVars, loopVars,
     runnerVars, clientVars, remoteVars, envVars
<1>9. PoolKept'
  BY <1>1, <1>2, <1>3, FewerBusy DEF RemoveOutputs, Go, IInv, PoolKept, planVars,
     loopVars, runnerVars, clientVars, remoteVars, envVars
<1>10. Accounts'
  BY <1>1, <1>2, <1>3 DEF RemoveOutputs, Go, IInv, Accounts, Ended, Processes, planVars,
     loopVars, runnerVars, clientVars, remoteVars, envVars
<1>11. Ordered'
  BY <1>1, <1>2, <1>3 DEF RemoveOutputs, Go, IInv, Ordered, planVars, loopVars,
     runnerVars, clientVars, remoteVars, envVars
<1>12. Kept'
  BY <1>1, <1>2, <1>3 DEF RemoveOutputs, Go, IInv, Kept, Needed, planVars, loopVars,
     runnerVars, clientVars, remoteVars, envVars
<1>13. Returned'
  BY <1>1, <1>2, <1>3 DEF RemoveOutputs, Go, IInv, Returned, Ended, planVars, loopVars,
     runnerVars, clientVars, remoteVars, envVars
<1>14. Left'
  BY <1>1, <1>2, <1>3 DEF RemoveOutputs, Go, IInv, Left, Ended, planVars, loopVars,
     runnerVars, clientVars, remoteVars, envVars
<1> QED
  BY <1>4, <1>5, <1>6, <1>7, <1>8, <1>9, <1>10, <1>11, <1>12, <1>13, <1>14 DEF IInv

\* A subprocess writes its output.
LEMMA LocalWritesKeeps ==
  ASSUME IInv, NEW e \in AllEdges, LocalWrites(e)
  PROVE  IInv'
<1>1. FinishedEdges' = FinishedEdges /\ ResultEdges' = ResultEdges /\ PoolBusy' = PoolBusy
  BY DEF LocalWrites, planVars, runnerVars, remoteVars, FinishedEdges, ResultEdges, PoolBusy, InPool
<1>2. e \in running /\ e \in DOMAIN want /\ e \in Edges(manifest) /\ ~IsPhony(manifest, e)
      /\ at # "done"
  BY DEF LocalWrites, IInv, Located, Held, TypeOK, RemoteSide, Returned
<1>3. Needed(e)
  <2>1. CASE e[2] = "pp"
    <3>1. <<e[1], "cc">> \in Edges(manifest) /\ Inputs(manifest, <<e[1], "cc">>) = {e}
      BY <1>2, <2>1 DEF Edges, Inputs
    <3> QED BY <1>2, <3>1 DEF IInv, Ordered, Needed
  <2>2. CASE e[2] # "pp" BY <2>2 DEF Needed
  <2> QED BY <2>1, <2>2
<1>4. TypeOK'
  BY <1>1, <1>2, <1>3 DEF LocalWrites, IInv, TypeOK, RemoteEdges, planVars, loopVars,
     runnerVars, clientVars, remoteVars, envVars
<1>5. Located'
  BY <1>1, <1>2, <1>3 DEF LocalWrites, IInv, Located, Held, planVars, loopVars,
     runnerVars, clientVars, remoteVars, envVars
<1>6. Apart'
  BY <1>1, <1>2, <1>3 DEF LocalWrites, IInv, Apart, planVars, loopVars, runnerVars,
     clientVars, remoteVars, envVars
<1>7. Single'
  BY <1>1, <1>2, <1>3 DEF LocalWrites, IInv, Single, planVars, loopVars, runnerVars,
     clientVars, remoteVars, envVars
<1>8. RemoteSide'
  BY <1>1, <1>2, <1>3 DEF LocalWrites, IInv, RemoteSide, planVars, loopVars, runnerVars,
     clientVars, remoteVars, envVars
<1>9. PoolKept'
  BY <1>1, <1>2, <1>3 DEF LocalWrites, IInv, PoolKept, planVars, loopVars, runnerVars,
     clientVars, remoteVars, envVars
<1>10. Accounts'
  BY <1>1, <1>2, <1>3 DEF LocalWrites, IInv, Accounts, Ended, Processes, planVars,
     loopVars, runnerVars, clientVars, remoteVars, envVars
<1>11. Ordered'
  BY <1>1, <1>2, <1>3 DEF LocalWrites, IInv, Ordered, planVars, loopVars, runnerVars,
     clientVars, remoteVars, envVars
<1>12. Kept'
  BY <1>1, <1>2, <1>3 DEF LocalWrites, IInv, Kept, Needed, planVars, loopVars,
     runnerVars, clientVars, remoteVars, envVars
<1>13. Returned'
  BY <1>1, <1>2, <1>3 DEF LocalWrites, IInv, Returned, Ended, planVars, loopVars,
     runnerVars, clientVars, remoteVars, envVars
<1>14. Left'
  BY <1>1, <1>2, <1>3 DEF LocalWrites, IInv, Left, Ended, planVars, loopVars,
     runnerVars, clientVars, remoteVars, envVars
<1> QED
  BY <1>4, <1>5, <1>6, <1>7, <1>8, <1>9, <1>10, <1>11, <1>12, <1>13, <1>14 DEF IInv

\* A subprocess exits.
LEMMA LocalExitsKeeps ==
  ASSUME IInv, NEW e \in AllEdges, NEW success \in BOOLEAN, LocalExits(e, success)
  PROVE  IInv'
<1>1. /\ finished' = finished \cup {<<e, success>>} /\ running' = running \ {e}
      /\ e \in running /\ (success => e \in files)
      /\ UNCHANGED <<manifest, ready, delayed, want, poolUse, requests, results>>
  BY DEF LocalExits, planVars, clientVars, remoteVars
<1>2. /\ e \notin FinishedEdges /\ at # "done"
      /\ <<e, success>> \notin finished
  BY <1>1 DEF IInv, Apart, Returned, FinishedEdges
<1>3. FinishedEdges' = FinishedEdges \cup {e} BY <1>1, AddedFinished, Zenon
<1>4. ResultEdges' = ResultEdges BY <1>1 DEF ResultEdges
<1>5. PoolBusy' = PoolBusy BY <1>1, <1>3 DEF PoolBusy, InPool
<1>6. Processes' = Processes
  <2>1. /\ IsFiniteSet(running) /\ Cardinality(running) \in Nat
        /\ IsFiniteSet(finished) /\ Cardinality(finished) \in Nat
    BY FinitelyMany, FinitelyManyResults DEF IInv, TypeOK
  <2>2. Cardinality(finished') = Cardinality(finished) + 1
    BY <1>1, <1>2, <2>1, FS_AddElement, Zenon
  <2>3. Cardinality(running') = Cardinality(running) - 1
    BY <1>1, <2>1, FS_RemoveElement
  <2> QED BY <2>1, <2>2, <2>3 DEF Processes
<1>7. \A r \in finished' : (r \in finished /\ r[1] # e) \/ r = <<e, success>>
  BY <1>1, <1>2 DEF FinishedEdges
<1>8. running' \subseteq AllEdges /\ finished' \subseteq AllEdges \X BOOLEAN
  <2>1. <<e, success>> \in AllEdges \X BOOLEAN OBVIOUS
  <2> QED BY <1>1, <2>1 DEF IInv, TypeOK
<1>9. TypeOK'
  BY <1>1, <1>8 DEF LocalExits, IInv, TypeOK, RemoteEdges, planVars, loopVars, clientVars, remoteVars,
     envVars
<1>10. Located'
  BY <1>1, <1>2, <1>3, <1>4 DEF LocalExits, IInv, Located, Held, planVars, loopVars,
     runnerVars, clientVars, remoteVars, envVars
<1>11. Apart'
  BY <1>1, <1>2, <1>3, <1>4 DEF LocalExits, IInv, Apart, planVars, loopVars, runnerVars,
     clientVars, remoteVars, envVars
<1>12. Single'
  <2>1. ASSUME NEW r \in finished', NEW q \in finished', r[1] = q[1] PROVE r = q
    <3>1. <<e, success>>[1] = e OBVIOUS
    <3>2. CASE r \in finished /\ q \in finished BY <2>1, <3>2 DEF IInv, Single
    <3>3. CASE r = <<e, success>> BY <1>7, <2>1, <3>1, <3>3
    <3>4. CASE q = <<e, success>> BY <1>7, <2>1, <3>1, <3>4
    <3> QED BY <1>7, <3>2, <3>3, <3>4
  <2>2. \A i, j \in DOMAIN results' : results'[i][1] = results'[j][1] => i = j
    BY <1>1 DEF IInv, Single
  <2> QED BY <2>1, <2>2 DEF Single
<1>13. RemoteSide'
  BY <1>1, <1>2, <1>3, <1>4 DEF LocalExits, IInv, RemoteSide, planVars, loopVars,
     runnerVars, clientVars, remoteVars, envVars
<1>14. PoolKept'
  BY <1>1, <1>5 DEF IInv, PoolKept, InPool
<1>15. Accounts'
  BY <1>6 DEF LocalExits, IInv, Accounts, Ended, loopVars, clientVars, remoteVars
<1>16. Ordered'
  BY <1>1, <1>2, <1>3, <1>4 DEF LocalExits, IInv, Ordered, planVars, loopVars,
     runnerVars, clientVars, remoteVars, envVars
<1>17. Kept'
  <2>1. ASSUME NEW r \in finished', r[2], ~manifest.dryRun PROVE r[1] \in files
    <3>1. CASE r \in finished BY <1>2, <2>1, <3>1 DEF IInv, Kept
    <3>2. CASE r = <<e, success>>
      <4>1. r[1] = e /\ r[2] = success BY <3>2
      <4> QED BY <1>1, <2>1, <4>1
    <3> QED BY <1>7, <3>1, <3>2
  <2> QED BY <1>1, <1>2, <2>1
        DEF LocalExits, IInv, Kept, Needed, clientVars, loopVars, IsPhony
<1>18. Returned'
  BY <1>1, <1>2, <1>3, <1>4 DEF LocalExits, IInv, Returned, Ended, planVars, loopVars,
     runnerVars, clientVars, remoteVars, envVars
<1>19. Left'
  BY <1>1, <1>2, <1>3, <1>4 DEF LocalExits, IInv, Left, Ended, planVars, loopVars,
     runnerVars, clientVars, remoteVars, envVars
<1> QED
  BY <1>9, <1>10, <1>11, <1>12, <1>13, <1>14, <1>15, <1>16, <1>17, <1>18, <1>19 DEF IInv

\* The client writes an output it has received.
LEMMA ClientWritesKeeps ==
  ASSUME IInv, NEW e \in AllEdges, ClientWrites(e)
  PROVE  IInv'
<1>1. FinishedEdges' = FinishedEdges /\ ResultEdges' = ResultEdges /\ PoolBusy' = PoolBusy
  BY DEF ClientWrites, planVars, runnerVars, remoteVars, FinishedEdges, ResultEdges, PoolBusy, InPool
<1>2. /\ e \in requests /\ e \in DOMAIN want /\ e \in Edges(manifest)
      /\ IsRemote(e) /\ at # "done"
  BY DEF ClientWrites, IInv, Located, Held, TypeOK, RemoteSide, Returned
<1>3. Needed(e) /\ ~IsPhony(manifest, e)
  BY <1>2, BuildAssumption DEF Needed, IsRemote, IInv, TypeOK, IsPhony, Edges, Split
<1>4. TypeOK'
  BY <1>1, <1>2, <1>3 DEF ClientWrites, IInv, TypeOK, RemoteEdges, planVars, loopVars,
     runnerVars, clientVars, remoteVars, envVars
<1>5. Located'
  BY <1>1, <1>2, <1>3 DEF ClientWrites, IInv, Located, Held, planVars, loopVars,
     runnerVars, clientVars, remoteVars, envVars
<1>6. Apart'
  BY <1>1, <1>2, <1>3 DEF ClientWrites, IInv, Apart, planVars, loopVars, runnerVars,
     clientVars, remoteVars, envVars
<1>7. Single'
  BY <1>1, <1>2, <1>3 DEF ClientWrites, IInv, Single, planVars, loopVars, runnerVars,
     clientVars, remoteVars, envVars
<1>8. RemoteSide'
  BY <1>1, <1>2, <1>3 DEF ClientWrites, IInv, RemoteSide, planVars, loopVars,
     runnerVars, clientVars, remoteVars, envVars
<1>9. PoolKept'
  BY <1>1, <1>2, <1>3 DEF ClientWrites, IInv, PoolKept, planVars, loopVars, runnerVars,
     clientVars, remoteVars, envVars
<1>10. Accounts'
  BY <1>1, <1>2, <1>3 DEF ClientWrites, IInv, Accounts, Ended, Processes, planVars,
     loopVars, runnerVars, clientVars, remoteVars, envVars
<1>11. Ordered'
  BY <1>1, <1>2, <1>3 DEF ClientWrites, IInv, Ordered, planVars, loopVars, runnerVars,
     clientVars, remoteVars, envVars
<1>12. Kept'
  BY <1>1, <1>2, <1>3 DEF ClientWrites, IInv, Kept, Needed, planVars, loopVars,
     runnerVars, clientVars, remoteVars, envVars
<1>13. Returned'
  BY <1>1, <1>2, <1>3 DEF ClientWrites, IInv, Returned, Ended, planVars, loopVars,
     runnerVars, clientVars, remoteVars, envVars
<1>14. Left'
  BY <1>1, <1>2, <1>3 DEF ClientWrites, IInv, Left, Ended, planVars, loopVars,
     runnerVars, clientVars, remoteVars, envVars, Accounts
<1> QED
  BY <1>4, <1>5, <1>6, <1>7, <1>8, <1>9, <1>10, <1>11, <1>12, <1>13, <1>14 DEF IInv

\* The client answers, in one of its threads.
LEMMA ClientAnswersKeeps ==
  ASSUME IInv, NEW e \in AllEdges, NEW success \in BOOLEAN, ClientAnswers(e, success)
  PROVE  IInv'
<1>1. /\ e \in requests /\ success = (e \in written)
      /\ requests' = requests \ {e} /\ written' = written \ {e}
      /\ results' = Append(results, <<e, success>>)
      /\ activeEdges' = IF hasStart THEN activeEdges \ {e} ELSE activeEdges
      /\ UNCHANGED <<manifest, want, ready, readyRemote, delayed, poolUse, running, finished>>
  BY DEF ClientAnswers, CallbackOf, planVars, runnerVars
<1>2. /\ e \notin ResultEdges /\ IsRemote(e) /\ at # "done"
  BY <1>1 DEF IInv, Apart, RemoteSide, Returned
<1>3. /\ results' \in Seq(AllEdges \X BOOLEAN)
      /\ Len(results') = Len(results) + 1
      /\ ResultEdges' = ResultEdges \cup {e}
      /\ \A i \in DOMAIN results' :
           \/ i \in DOMAIN results /\ results'[i] = results[i]
           \/ results'[i] = <<e, success>>
      /\ \A i, j \in DOMAIN results' : results'[i][1] = results'[j][1] => i = j
  BY <1>1, <1>2, AppendedResult DEF IInv
<1>4. FinishedEdges' = FinishedEdges BY <1>1 DEF FinishedEdges
<1>5. PoolBusy' = PoolBusy BY <1>1, <1>4 DEF PoolBusy, InPool
<1>6. Cardinality(requests') + Len(results') = Cardinality(requests) + Len(results)
  <2>1. requests \in SUBSET AllEdges BY DEF IInv, TypeOK
  <2>2. IsFiniteSet(requests) /\ Cardinality(requests) \in Nat BY <2>1, FinitelyMany
  <2>3. Cardinality(requests') = Cardinality(requests) - 1
    BY <1>1, <2>2, FS_RemoveElement
  <2>4. results \in Seq(AllEdges \X BOOLEAN) BY DEF IInv, TypeOK
  <2>5. Len(results) \in Nat BY <2>4
  <2> QED BY <1>3, <2>2, <2>3, <2>5
<1>7. TypeOK'
  BY <1>1, <1>2, <1>3, <1>4 DEF ClientAnswers, IInv, TypeOK, RemoteEdges, planVars,
     loopVars, runnerVars, clientVars, remoteVars, envVars
<1>8. Located'
  BY <1>1, <1>2, <1>3, <1>4 DEF ClientAnswers, IInv, Located, Held, planVars, loopVars,
     runnerVars, clientVars, remoteVars, envVars
<1>9. Apart'
  BY <1>1, <1>2, <1>3, <1>4 DEF ClientAnswers, IInv, Apart, planVars, loopVars,
     runnerVars, clientVars, remoteVars, envVars
<1>10. Single'
  BY <1>1, <1>3 DEF IInv, Single
<1>11. RemoteSide'
  BY <1>1, <1>2, <1>3, <1>4 DEF ClientAnswers, IInv, RemoteSide, planVars, loopVars,
     runnerVars, clientVars, remoteVars, envVars
<1>12. PoolKept'
  BY <1>1, <1>5 DEF IInv, PoolKept, InPool
<1>13. Accounts'
  BY <1>1, <1>6 DEF ClientAnswers, IInv, Accounts, Ended, Processes, loopVars, runnerVars
<1>14. Ordered'
  BY <1>1, <1>2, <1>3, <1>4 DEF ClientAnswers, IInv, Ordered, planVars, loopVars,
     runnerVars, clientVars, remoteVars, envVars
<1>15. Kept'
  <2>1. ASSUME NEW i \in DOMAIN results', results'[i][2] PROVE results'[i][1] \in files
    <3>1. CASE i \in DOMAIN results /\ results'[i] = results[i]
      BY <1>2, <2>1, <3>1 DEF IInv, Kept
    <3>2. CASE results'[i] = <<e, success>>
      <4>1. results'[i][1] = e /\ results'[i][2] = success BY <3>2
      <4> QED BY <1>1, <1>2, <2>1, <4>1 DEF IInv, Kept
    <3> QED BY <1>3, <3>1, <3>2
  <2> QED BY <1>1, <1>2, <2>1
        DEF ClientAnswers, IInv, Kept, Needed, loopVars, IsPhony
<1>16. Returned'
  BY <1>1, <1>2, <1>3, <1>4 DEF ClientAnswers, IInv, Returned, Ended, planVars,
     loopVars, runnerVars, clientVars, remoteVars, envVars
<1>17. Left'
  BY <1>1, <1>2, <1>3, <1>4 DEF ClientAnswers, IInv, Left, Ended, planVars, loopVars,
     runnerVars, clientVars, remoteVars, envVars, Accounts
<1> QED
  BY <1>7, <1>8, <1>9, <1>10, <1>11, <1>12, <1>13, <1>14, <1>15, <1>16, <1>17 DEF IInv

LEMMA InitIInv == ASSUME Init PROVE IInv
<1> DEFINE first == {e \in Edges(manifest) : Inputs(manifest, e) = {}}
           pooled == {e \in first : InPool(manifest, e)}
<1>1. PICK now \in Retrievals(manifest, pooled, 0) :
        /\ ready = (first \ pooled) \cup now /\ delayed = pooled \ now
        /\ poolUse = Cardinality(now)
  BY DEF Init
<1>2. /\ manifest \in Manifests
      /\ want = [e \in Edges(manifest) |-> IF e \in first THEN "finish" ELSE "start"]
      /\ readyRemote = {e \in ready : IsRemote(e)}
      /\ at = "remote" /\ outcome = "none"
      /\ pendingCommands = 0 /\ pendingRemote = 0 /\ failuresAllowed = manifest.failures
      /\ running = {} /\ finished = {} /\ requests = {} /\ written = {}
      /\ activeEdges = {} /\ results = << >>
      /\ hasStart \in BOOLEAN
      /\ files = {} /\ interrupted = FALSE /\ diskErrors = manifest.diskErrors
      /\ excused = {}
  BY DEF Init
<1>3. /\ manifest.depth \in Nat /\ manifest.failures \in Nat /\ manifest.diskErrors \in 0 .. 1
      /\ Edges(manifest) \subseteq AllEdges
  BY <1>2, BuildAssumption DEF ManifestRecords, Edges, AllEdges, Split
<1>4. pooled \subseteq first /\ first \subseteq Edges(manifest) OBVIOUS
<1>5. /\ now \subseteq pooled /\ Cardinality(now) \in Nat /\ Cardinality(now) <= manifest.depth
  <2>1. pooled \in SUBSET AllEdges BY <1>3, <1>4
  <2>2. 0 \in Nat /\ 0 <= manifest.depth BY <1>3
  <2>3. /\ now \subseteq pooled
        /\ Cardinality(now) \in Nat /\ 0 + Cardinality(now) <= manifest.depth
    BY <1>2, <2>1, <2>2, Retrieved
  <2> QED BY <1>3, <2>3
<1>6. /\ FinishedEdges = {} /\ ResultEdges = {} /\ DOMAIN results = {}
      /\ results \in Seq(AllEdges \X BOOLEAN) /\ Len(results) = 0
  BY <1>2 DEF FinishedEdges, ResultEdges, ToSet
<1>7. Cardinality({}) = 0 BY FS_EmptySet
<1>8. \A e \in pooled : InPool(manifest, e) OBVIOUS
<1>9. \A e \in first : InPool(manifest, e) => e \in pooled OBVIOUS
<1>10. \A e \in first : Inputs(manifest, e) = {} OBVIOUS
<1> HIDE DEF first, pooled
<1>11. TypeOK
  <2>1. ready \subseteq DOMAIN want /\ delayed \subseteq DOMAIN want
    BY <1>1, <1>2, <1>4, <1>5
  <2>2. readyRemote \subseteq RemoteEdges(manifest)
    <3>1. ready \subseteq Edges(manifest) BY <1>1, <1>4, <1>5
    <3> QED BY <1>2, <3>1 DEF RemoteEdges
  <2>3. poolUse \in 0 .. manifest.depth BY <1>1, <1>3, <1>5
  <2>4. failuresAllowed \in 0 .. manifest.failures BY <1>2, <1>3
  <2>5. \A e \in DOMAIN want : want[e] \in {"start", "finish"} BY <1>2
  <2>6. DOMAIN want \subseteq Edges(manifest) BY <1>2
  <2> QED BY <1>2, <1>3, <1>6, <2>1, <2>2, <2>3, <2>4, <2>5, <2>6 DEF TypeOK
<1>12. Located BY <1>1, <1>2, <1>4, <1>5, <1>6 DEF Located, Held
<1>13. Apart /\ Single BY <1>1, <1>2, <1>5, <1>6 DEF Apart, Single
<1>14. RemoteSide BY <1>2, <1>6 DEF RemoteSide
<1>15. PoolKept
  <2>1. PoolBusy = now
    BY <1>1, <1>2, <1>4, <1>5, <1>6, <1>8, <1>9 DEF PoolBusy
  <2> QED BY <1>1, <1>5, <1>8, <2>1 DEF PoolKept
<1>16. Accounts BY <1>2, <1>6, <1>7 DEF Accounts, Ended, Processes
<1>17. Ordered BY <1>2, <1>10 DEF Ordered
<1>18. Kept BY <1>2, <1>6 DEF Kept
<1>19. Returned /\ Left BY <1>2 DEF Returned, Left
<1> QED
  BY <1>11, <1>12, <1>13, <1>14, <1>15, <1>16, <1>17, <1>18, <1>19 DEF IInv

\* The invariant is inductive.
LEMMA StepIInv == ASSUME IInv, [Next]_vars PROVE IInv'
<1>1. outcome # "none" => at \in {"cleanup"} \cup Ended BY DEF IInv, Returned
<1>2. CASE UNCHANGED vars
  BY <1>2, MoveKeeps
     DEF vars, planVars, loopVars, runnerVars, clientVars, remoteVars, envVars, IInv, TypeOK
<1>3. CASE Finish
  BY <1>1, <1>3, MoveKeeps DEF Finish, Return, envVars, IInv, TypeOK, Ended
<1>4. CASE SkipRemote \/ NothingToReap \/ SkipLocal \/ NothingToWaitFor \/ SleepSome
  BY <1>1, <1>4, MoveKeeps
     DEF SkipRemote, NothingToReap, SkipLocal, NothingToWaitFor, SleepSome, Go, envVars, IInv,
         TypeOK, Ended
<1>5. CASE NoticeInterrupt \/ GiveUp
  BY <1>1, <1>5, MoveKeeps
     DEF NoticeInterrupt, GiveUp, Return, envVars, IInv, TypeOK, Ended
<1>6. CASE Interrupt
  BY <1>6, MoveKeeps DEF Interrupt, loopVars
<1>7. CASE Loop
  BY <1>3, <1>4, <1>5, <1>7, StartFailsKeeps, StartRemoteKeeps, ReapRemoteKeeps, StartLocalKeeps,
     FinishPhonyKeeps, ReapLocalKeeps, ReapInterruptedKeeps, AbortKeeps, RemoveOutputsKeeps DEF Loop
<1>8. CASE Others
  BY <1>8, LocalExitsKeeps, ClientAnswersKeeps, LocalWritesKeeps, ClientWritesKeeps DEF Others
<1> QED BY <1>2, <1>6, <1>7, <1>8 DEF Next

(***************************************************************************)
(* What the invariant implies.                                             *)
(***************************************************************************)
LEMMA IInvEachEdgeOnce == ASSUME IInv PROVE EachEdgeOnce
<1>1. Cardinality({e \in running : InPool(manifest, e)}) <= manifest.depth
  <2>1. PoolBusy \subseteq AllEdges
    BY NamedEdges DEF IInv, TypeOK, Located, Held, PoolBusy
  <2>2. IsFiniteSet(PoolBusy) /\ Cardinality(PoolBusy) \in Nat BY <2>1, FinitelyMany
  <2>3. {e \in running : InPool(manifest, e)} \in SUBSET PoolBusy BY DEF PoolBusy
  <2>4. /\ Cardinality({e \in running : InPool(manifest, e)}) <= Cardinality(PoolBusy)
        /\ Cardinality({e \in running : InPool(manifest, e)}) \in Nat
    BY <2>2, <2>3, FS_Subset, FS_CardinalityType
  <2>5. manifest.depth \in Nat BY BuildAssumption DEF IInv, TypeOK, ManifestRecords
  <2> QED BY <2>2, <2>4, <2>5 DEF IInv, PoolKept, TypeOK
<1>2. readyRemote \subseteq ready BY DEF IInv, RemoteSide
<1>3. \A i, j \in DOMAIN Places : i < j => Places[i] \cap Places[j] = {}
  <2>1. DOMAIN Places = 1 .. 6 BY DEF Places
  <2>2. /\ Places[1] = ready /\ Places[2] = delayed /\ Places[3] = running
        /\ Places[4] = FinishedEdges /\ Places[5] = requests /\ Places[6] = ResultEdges
    BY DEF Places
  <2>3. \A i \in 1 .. 6 : i = 1 \/ i = 2 \/ i = 3 \/ i = 4 \/ i = 5 \/ i = 6 OBVIOUS
  <2> QED BY <2>1, <2>2, <2>3 DEF IInv, Apart
<1>4. \A i, j \in DOMAIN results : results[i][1] = results[j][1] => i = j
  BY DEF IInv, Single
<1>5. (UNION ToSet(Places)) \subseteq DOMAIN want
  <2>1. ToSet(Places) = {ready, delayed, running, FinishedEdges, requests, ResultEdges}
    BY DEF Places, ToSet
  <2>2. UNION ToSet(Places) = Held BY <2>1 DEF Held
  <2> QED BY <2>2 DEF IInv, Located
<1>6. Counted BY DEF IInv, Accounts, Ended, Counted
<1> QED BY <1>1, <1>2, <1>3, <1>4, <1>5, <1>6 DEF EachEdgeOnce

LEMMA IInvInputsAreThere == ASSUME IInv PROVE InputsAreThere
<1> SUFFICES ASSUME NEW e \in running \cup requests
             PROVE  /\ \A d \in Inputs(manifest, e) : d \in files \/ IsPhony(manifest, d)
                    /\ \A d \in manifest.deps[e[1]] :
                         Output(manifest, d) \in files \/ d \in manifest.phony
  BY DEF InputsAreThere
<1>1. /\ e \in DOMAIN want /\ want[e] = "finish" /\ e \in Edges(manifest)
      /\ at # "done" /\ ~manifest.dryRun
  BY DEF IInv, Located, Held, TypeOK, Returned, Kept
<1>2. manifest \in ManifestRecords BY BuildAssumption DEF IInv, TypeOK
<1>3. \A f \in Edges(manifest) :
        \A d \in Inputs(manifest, f) : d \in Edges(manifest)
  BY <1>2 DEF ManifestRecords, Inputs, Edges, Output, Split
<1>4. \A d \in Inputs(manifest, e) : d \notin DOMAIN want /\ Needed(d)
  <2>1. \A d \in Inputs(manifest, e) : d \notin DOMAIN want
    BY <1>1 DEF IInv, Ordered
  <2>2. ASSUME NEW d \in Inputs(manifest, e), d[2] = "pp" PROVE <<d[1], "cc">> \in DOMAIN want
    <3>1. e[2] = "cc" /\ d = <<e[1], "pp">> BY <2>2 DEF Inputs, Output
    <3>2. e = <<d[1], "cc">> BY <1>1, <3>1 DEF Edges
    <3> QED BY <1>1, <3>2
  <2> QED BY <2>1, <2>2 DEF Needed
<1>5. \A d \in Inputs(manifest, e) : d \in files \/ IsPhony(manifest, d)
  BY <1>1, <1>3, <1>4 DEF IInv, Kept
<1>6. ASSUME NEW d \in manifest.deps[e[1]]
      PROVE  Output(manifest, d) \in files \/ d \in manifest.phony
  <2>1. Output(manifest, d)[1] = d /\ Output(manifest, d)[2] # "pp" BY DEF Output
  <2>2. CASE e[2] # "cc"
    <3>1. Output(manifest, d) \in Inputs(manifest, e) BY <2>2 DEF Inputs
    <3> QED BY <1>5, <2>1, <3>1 DEF IsPhony
  <2>3. CASE e[2] = "cc"
    <3> DEFINE pp == <<e[1], "pp">>
    <3>1. pp \in Edges(manifest) /\ pp \in Inputs(manifest, e)
      BY <1>1, <2>3 DEF Edges, Inputs
    <3>2. Output(manifest, d) \in Inputs(manifest, pp) BY DEF Inputs
    <3>3. Output(manifest, d) \in Edges(manifest) BY <1>3, <3>1, <3>2
    <3>4. Output(manifest, d) \notin DOMAIN want
      BY <1>4, <3>1, <3>2 DEF IInv, Ordered
    <3>5. Needed(Output(manifest, d)) BY <2>1 DEF Needed
    <3> QED BY <1>1, <2>1, <3>3, <3>4, <3>5 DEF IInv, Kept, IsPhony
  <2> QED BY <2>2, <2>3
<1> QED BY <1>5, <1>6

LEMMA IInvSuccessIsComplete == ASSUME IInv PROVE SuccessIsComplete
<1> SUFFICES ASSUME outcome = "success", at = "done"
             PROVE  files = IF manifest.dryRun THEN {}
                            ELSE {e \in Edges(manifest) : e[2] # "pp" /\ ~IsPhony(manifest, e)}
  BY DEF SuccessIsComplete
<1>1. DOMAIN want = {} BY DEF IInv, Returned
<1>2. \A e \in files : e \in Edges(manifest) /\ e[2] # "pp" /\ ~IsPhony(manifest, e)
  BY <1>1 DEF IInv, Kept, Needed
<1>3. CASE manifest.dryRun BY <1>3 DEF IInv, Kept
<1>4. CASE ~manifest.dryRun
  <2>1. \A e \in Edges(manifest) : e[2] # "pp" /\ ~IsPhony(manifest, e) => e \in files
    BY <1>1, <1>4 DEF IInv, Kept, Needed
  <2> QED BY <1>2, <1>4, <2>1
<1> QED BY <1>3, <1>4

(***************************************************************************)
(* The theorems.                                                           *)
(***************************************************************************)
\* The invariant holds in every reachable state.
THEOREM Inductive == Spec => []IInv
BY InitIInv, StepIInv, PTL DEF Spec

\* Plan, loop and executors keep to their types; no count falls below zero, and no pool is
\* used beyond its depth.
THEOREM TypeCorrect == Spec => []TypeOK
<1>1. IInv => TypeOK BY DEF IInv
<1> QED BY <1>1, Inductive, PTL

\* No edge is in two places, whatever the order in which plan, executors and client's threads
\* take and return it (Plan::FindWork, RemoteExecutor::StartCommand), and until Abort the
\* counts of the loop are those of the executors (RemoteExecutor.cpp:191).
THEOREM EdgesRunOnce == Spec => []EachEdgeOnce
<1>1. IInv => EachEdgeOnce BY IInvEachEdgeOnce
<1> QED BY <1>1, Inductive, PTL

\* A command runs only where its inputs are, in the rewritten graph and in the manifest
\* (StateRewrite.cpp:153).
THEOREM InputsStay == Spec => []InputsAreThere
<1>1. IInv => InputsAreThere BY IInvInputsAreThere
<1> QED BY <1>1, Inductive, PTL

\* A build that returns success has written every output and no preprocessed file is left.
THEOREM SuccessfulBuilds == Spec => []SuccessIsComplete
<1>1. IInv => SuccessIsComplete BY IInvSuccessIsComplete
<1> QED BY <1>1, Inductive, PTL

\* A build that was given up leaves no output of an edge it does not know to have failed or
\* been answered (Builder::Cleanup, RemoteExecutor::Abort).
THEOREM NothingIsLeft == Spec => []NoOutputLeft
<1>1. IInv => NoOutputLeft BY DEF IInv, Left, NoOutputLeft
<1> QED BY <1>1, Inductive, PTL
=============================================================================
