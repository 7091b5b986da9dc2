---------------------------- MODULE StoreProofs ----------------------------
(***************************************************************************)
(* Proofs about ArtifactStore: what a tag of the registry names is all     *)
(* there (RegistryIsComplete), and a deletion takes its build and nothing  *)
(* else (DeletionHolds).                                                   *)
(*                                                                         *)
(* StoreTypes says what steps a call of the store may have yet to do.      *)
(* RemoteInv says that the registry is closed under reference, and that    *)
(* whatever a push is going to copy or to tag comes after what it refers   *)
(* to.  ReclaimInv says that a deletion has yet to remove every blob of    *)
(* its build that is still there.  ExclusiveInv says, of the worlds where  *)
(* the mutex is to protect the tags, who holds it, that a build is whole   *)
(* unless it is being removed, and that no tag names one that is.          *)
(***************************************************************************)
EXTENDS ArtifactStore, TLAPS

\* The default prover; a leaf with arithmetic or sequences cites SMTT.
USE ZenonT(30)

All == UNION {Manifests(b) : b \in world.builds}
Digest == Indexes \cup UNION {{m.id, m.config, m.layer} : m \in All}

Steps == {<<s>> : s \in {"tag", "fail", "untag", "list", "tagRemote"}}
         \cup ({"put", "fetch", "remove", "visit", "copy"} \X Digest)
         \cup ({"check"} \X SUBSET Tag)

\* The steps a call may still have to do.
Labels == [idle |-> {}, package |-> {"put"}, tag |-> {"tag", "fail"}, untag |-> {"untag"},
           delete |-> {"fail", "untag", "list", "check", "fetch", "remove"},
           push |-> {"visit", "copy", "tagRemote", "fail"}, pull |-> {"visit", "copy", "tag", "fail"}]

Calls0 == [is : DOMAIN Labels, d : Targets \cup {None}, t : Tag \cup {None}, todo : Seq(Steps)]

CallOK(o) ==
  /\ o \in Calls0
  /\ \A j \in DOMAIN o.todo : o.todo[j][1] \in Labels[o.is]
  /\ o.is \in {"tag", "untag", "delete", "push", "pull"} => o.t \in Tag
  /\ o.is \in {"tag", "push"} => o.d \in Targets
  /\ o.is = "delete" => o.d \in Targets \/ \A j \in DOMAIN o.todo : o.todo[j][1] = "fail"

StoreTypes ==
  /\ world \in World
  /\ tags \in [Tag -> Targets \cup {None}] /\ remoteTags \in [Tag -> Targets \cup {None}]
  /\ ops \in [Actor -> Calls0] /\ \A a \in Actor : CallOK(ops[a])

LEMMA WorldIsSteady ==
  ASSUME world' = world
  PROVE  /\ Targets' = Targets /\ Indexes' = Indexes /\ ManifestIds' = ManifestIds /\ All' = All /\ Digest' = Digest /\ Steps' = Steps
         /\ \A d : Successors(d)' = Successors(d) /\ Closure(d)' = Closure(d) 
                   /\ BuildOf(d)' = BuildOf(d) /\ ManifestOf(d)' = ManifestOf(d)
BY SMTT(30) DEF Targets, Indexes, ManifestIds, All, Digest, Steps, Successors, Closure, BuildOf, ManifestOf

LEMMA Elements ==
  ASSUME NEW T, NEW s \in Seq(T), Len(s) > 0
  PROVE  Len(s) \in Nat /\ DOMAIN s = 1..Len(s) /\ 1 \in 1..Len(s) /\ \A i \in 1..Len(s) : s[i] \in T
BY SMTT(30)

LEMMA OfBuild ==
  ASSUME world \in World, NEW b \in world.builds
  PROVE  /\ b.index \in Indexes /\ BuildOf(b.index) = b
         /\ Manifests(b) \subseteq All /\ b.manifests \in Seq(All) /\ Len(b.manifests) > 0
         /\ Successors(b.index) = [i \in DOMAIN b.manifests |-> b.manifests[i].id]
<1>1. b.index \in Indexes
  BY DEF Indexes
<1>2. \A c \in world.builds : b.index = c.index => b = c
  BY WorldAssumption DEF WellFormed
<1>3. BuildOf(b.index) = b
  BY <1>2 DEF BuildOf
<1>4. b.manifests \in Seq(All) /\ Len(b.manifests) > 0
  BY WorldAssumption DEF WellFormed, All
<1>5. Manifests(b) \subseteq All
  BY DEF All
<1> QED BY <1>1, <1>3, <1>4, <1>5 DEF Successors

LEMMA OfManifest ==
  ASSUME world \in World, NEW m \in All
  PROVE  /\ m.id \in ManifestIds /\ m.id \notin Indexes /\ ManifestOf(m.id) = m
         /\ Successors(m.id) = <<m.config, m.layer>>
<1>1. m.id \in ManifestIds /\ m.id \notin Indexes
  BY WorldAssumption DEF WellFormed, All, Manifests, ManifestIds, Indexes
<1>2. ManifestOf(m.id) = m
  BY WorldAssumption DEF WellFormed, All, ManifestOf
<1> QED BY <1>1, <1>2 DEF Successors

\* What is tagged or pushed is an index or a manifest.
LEMMA TargetIs ==
  ASSUME world \in World, NEW d \in Targets
  PROVE  /\ d \in Digest /\ d # None
         /\ (\E b \in world.builds : d = b.index) \/ (\E m \in All : d = m.id)
<1>1. WellFormed(world)
  BY WorldAssumption
<1>2. (\E b \in world.builds : d = b.index) \/ (\E m \in All : d = m.id)
  BY <1>1 DEF WellFormed, Targets, All
<1>3. ASSUME NEW b \in world.builds, d = b.index PROVE d \in Digest /\ d # None
  <2>1. b.index \in Indexes /\ b.manifests \in Seq(All) /\ Len(b.manifests) > 0
    BY OfBuild
  <2>2. b.manifests[1] \in All
    BY <2>1, Elements
  <2>3. \A m \in All : b.index \notin {None, m.id, m.config, m.layer}
    BY <1>1 DEF WellFormed, All
  <2> QED BY <1>3, <2>1, <2>2, <2>3 DEF Digest
<1>4. ASSUME NEW m \in All, d = m.id PROVE d \in Digest /\ d # None
  <2>1. m.id # None
    BY <1>1 DEF WellFormed, All
  <2> QED BY <1>4, <2>1 DEF Digest
<1> QED BY <1>2, <1>3, <1>4

\* What a digest refers to are digests.
LEMMA SuccessorsType ==
  ASSUME world \in World, NEW d \in Digest
  PROVE  Successors(d) \in Seq(Digest)
<1>1. CASE d \in Indexes
  <2>1. PICK b \in world.builds : d = b.index
    BY <1>1 DEF Indexes
  <2>2. b.manifests \in Seq(All) /\ Successors(d) = [i \in DOMAIN b.manifests |-> b.manifests[i].id]
    BY <2>1, OfBuild
  <2>3. \A m \in All : m.id \in Digest
    BY SMTT(30) DEF Digest
  <2> QED BY <2>2, <2>3, SMTT(30)
<1>2. CASE d \notin Indexes /\ d \in ManifestIds
  <2>1. PICK m \in All : d = m.id
    BY <1>2 DEF ManifestIds, All
  <2>2. Successors(d) = <<m.config, m.layer>>
    BY <2>1, OfManifest
  <2>3. m.config \in Digest /\ m.layer \in Digest
    BY SMTT(30) DEF Digest
  <2> QED BY <2>2, <2>3, SMTT(30)
<1>3. CASE d \notin Indexes /\ d \notin ManifestIds
  BY <1>3, SMTT(30) DEF Successors
<1> QED BY <1>1, <1>2, <1>3

LEMMA IdleOK == CallOK(Idle)
BY SMTT(30) DEF CallOK, Calls0, Idle, Labels

\* A step of actor a: what its call becomes is well formed.
LEMMA TypesStep ==
  ASSUME StoreTypes, NEW a \in Actor, NEW o, CallOK(o), ops' = [ops EXCEPT ![a] = o], world' = world,
         tags' \in [Tag -> Targets \cup {None}], remoteTags' \in [Tag -> Targets \cup {None}]
  PROVE  StoreTypes'
<1>1. Targets' = Targets /\ Steps' = Steps
  BY WorldIsSteady
<1>2. \A b \in Actor : ops'[b] \in Calls0 /\ CallOK(ops'[b])
  BY SMTT(30) DEF StoreTypes, CallOK, Calls0
<1>3. ops' \in [Actor -> Calls0]
  BY <1>2 DEF StoreTypes, Calls0
<1> QED BY <1>1, <1>2, <1>3, SMTT(30) DEF StoreTypes, CallOK, Calls0

\* The rest of the steps of a call.
LEMMA RestOK ==
  ASSUME StoreTypes, NEW a \in Actor, ops[a].todo # <<>>
  PROVE  /\ Step(a) \in Steps /\ Step(a) = ops[a].todo[1] /\ Step(a)[1] \in Labels[ops[a].is]
         /\ Rest(a) \in Seq(Steps) /\ Len(Rest(a)) = Len(ops[a].todo) - 1
         /\ \A j \in DOMAIN Rest(a) : j + 1 \in DOMAIN ops[a].todo /\ Rest(a)[j] = ops[a].todo[j + 1]
         /\ CallOK([ops[a] EXCEPT !.todo = Rest(a)])
<1>1. CallOK(ops[a])
  BY DEF StoreTypes, CallOK, Calls0
<1>2. ops[a].todo \in Seq(Steps)
  BY <1>1 DEF CallOK, Calls0
<1>3. /\ Step(a) \in Steps /\ Step(a) = ops[a].todo[1] /\ 1 \in DOMAIN ops[a].todo
      /\ Rest(a) \in Seq(Steps) /\ Len(Rest(a)) = Len(ops[a].todo) - 1
      /\ \A j \in DOMAIN Rest(a) : j + 1 \in DOMAIN ops[a].todo /\ Rest(a)[j] = ops[a].todo[j + 1]
  BY <1>2, SMTT(30) DEF Step, Rest
<1>4. Step(a)[1] \in Labels[ops[a].is]
  BY <1>1, <1>3 DEF CallOK
<1>5. CallOK([ops[a] EXCEPT !.todo = Rest(a)])
  BY <1>1, <1>3, SMTT(30) DEF CallOK, Calls0
<1> QED BY <1>3, <1>4, <1>5

\* Steps a call is given anew.
LEMMA TodoOK ==
  ASSUME StoreTypes, NEW a \in Actor, NEW todo \in Seq(Steps),
         \A j \in DOMAIN todo : todo[j][1] \in Labels[ops[a].is],
         ops[a].is = "delete" => ops[a].d \in Targets
  PROVE  CallOK([ops[a] EXCEPT !.todo = todo])
BY DEF StoreTypes, CallOK, Calls0

LEMMA AdvancesIs ==
  ASSUME StoreTypes, NEW a \in Actor, NEW todo, Advances(a, todo)
  PROVE  ops' = [ops EXCEPT ![a] = [ops[a] EXCEPT !.todo = todo]]
BY DEF Advances, StoreTypes

LEMMA JoinedOK ==
  ASSUME NEW T, NEW n \in Nat, NEW w \in {2, 4}, NEW rows,
         DOMAIN rows = 1..n, Len(rows) = n, \A i \in 1..n : \A k \in 1..w : rows[i][k] \in T
  PROVE  /\ Joined(rows, w) \in Seq(T) /\ Len(Joined(rows, w)) = w * n
         /\ \A k \in 1..(w * n) : \E i \in 1..n, c \in 1..w : /\ Joined(rows, w)[k] = rows[i][c]
                                                              /\ i = ((k - 1) \div w) + 1 /\ c = ((k - 1) % w) + 1
<1> DEFINE J == Joined(rows, w)
<1>0. J = [k \in 1..(w * n) |-> rows[((k - 1) \div w) + 1][((k - 1) % w) + 1]]
  BY DEF Joined
<1>1. \A k \in 1..(w * n) : ((k - 1) \div w) + 1 \in 1..n /\ ((k - 1) % w) + 1 \in 1..w
  <2>1. CASE w = 2
    BY <2>1, SMTT(30)
  <2>2. CASE w = 4
    BY <2>2, SMTT(30)
  <2> QED BY <2>1, <2>2
<1>4. w * n \in Nat /\ \A k \in 1..(w * n) : rows[((k - 1) \div w) + 1][((k - 1) % w) + 1] \in T
  <2>1. CASE w = 2
    BY <1>1, <2>1, SMTT(30)
  <2>2. CASE w = 4
    BY <1>1, <2>2, SMTT(30)
  <2> QED BY <2>1, <2>2
<1> DEFINE N == w * n
           At0(k) == rows[((k - 1) \div w) + 1][((k - 1) % w) + 1]
<1>2. J \in Seq(T) /\ Len(J) = N /\ \A k \in 1..N : J[k] = At0(k)
  <2>1. N \in Nat /\ (\A k \in 1..N : At0(k) \in T) /\ J = [k \in 1..N |-> At0(k)]
    BY <1>0, <1>4
  <2> HIDE DEF N, At0, J
  <2> QED BY <2>1, SMTT(30)
<1> HIDE DEF J
<1>6. \A k \in 1..(w * n) : \E i \in 1..n, c \in 1..w : /\ J[k] = rows[i][c]
                                                        /\ i = ((k - 1) \div w) + 1 /\ c = ((k - 1) % w) + 1
  BY <1>1, <1>2
<1> QED BY <1>2, <1>6 DEF J

LEMMA StepsAre ==
  /\ \A s \in {"tag", "fail", "untag", "list", "tagRemote"} : <<s>> \in Steps /\ <<s>>[1] = s
  /\ \A s \in {"put", "fetch", "remove", "visit", "copy"}, d \in Digest : <<s, d>> \in Steps /\ <<s, d>>[1] = s /\ <<s, d>>[2] = d
  /\ \A T \in SUBSET Tag : <<"check", T>> \in Steps /\ <<"check", T>>[1] = "check" /\ <<"check", T>>[2] = T
  /\ \A x \in Steps : x[1] \in {"put", "fetch", "remove", "visit", "copy"} => x[2] \in Digest /\ x = <<x[1], x[2]>>
  /\ \A x \in Steps : x[1] = "check" => x[2] \in SUBSET Tag /\ x = <<x[1], x[2]>>
  /\ \A x \in Steps : x[1] \in {"tag", "fail", "untag", "list", "tagRemote"} => x = <<x[1]>>
BY SMTT(30) DEF Steps

LEMMA PackageTodo ==
  ASSUME world \in World, NEW b \in world.builds
  PROVE  LET todo == <<<<"put", b.manifests[1].layer>>>>
                       \o Joined([i \in DOMAIN b.manifests |->
                            <<<<"put", b.manifests[i].config>>, <<"put", b.manifests[i].id>>>>], 2)
                       \o <<<<"put", b.index>>>>
         IN  todo \in Seq(Steps) /\ \A j \in DOMAIN todo : todo[j][1] = "put"
<1> DEFINE n == Len(b.manifests)
           rows == [i \in DOMAIN b.manifests |-> <<<<"put", b.manifests[i].config>>, <<"put", b.manifests[i].id>>>>]
           T == {"put"} \X Digest
<1>1. n \in Nat /\ 1 \in 1..n /\ DOMAIN b.manifests = 1..n /\ \A i \in 1..n : b.manifests[i] \in All
  BY OfBuild, Elements
<1>2. DOMAIN rows = 1..n /\ Len(rows) = n
  BY <1>1, SMTT(30)
<1>3. \A m \in All : <<"put", m.config>> \in T /\ <<"put", m.id>> \in T /\ <<"put", m.layer>> \in T
  BY SMTT(30) DEF Digest
<1>4. \A i \in 1..n : \A k \in 1..2 : rows[i][k] \in T
  <2> SUFFICES ASSUME NEW i \in 1..n PROVE \A k \in 1..2 : rows[i][k] \in T
    OBVIOUS
  <2>1. rows[i] = <<<<"put", b.manifests[i].config>>, <<"put", b.manifests[i].id>>>>
    BY <1>1
  <2>2. <<"put", b.manifests[i].config>> \in T /\ <<"put", b.manifests[i].id>> \in T
    BY <1>1, <1>3
  <2> HIDE DEF T, rows
  <2> QED BY <2>1, <2>2, SMTT(30)
<1>5. <<"put", b.index>> \in T
  BY OfBuild DEF Digest
<1>6. Joined(rows, 2) \in Seq(T)
  <2> HIDE DEF rows, n, T
  <2> QED BY <1>1, <1>2, <1>4, JoinedOK
<1> DEFINE todo == <<<<"put", b.manifests[1].layer>>>> \o Joined(rows, 2) \o <<<<"put", b.index>>>>
<1>7. todo \in Seq(T)
  <2>1. <<<<"put", b.manifests[1].layer>>>> \in Seq(T) /\ <<<<"put", b.index>>>> \in Seq(T)
    <3>0. b.manifests[1] \in All
      BY <1>1
    <3>1. <<"put", b.manifests[1].layer>> \in T
      BY <3>0, <1>3
    <3> HIDE DEF T
    <3> QED BY <3>1, <1>5, SMTT(30)
  <2> HIDE DEF T, rows
  <2> QED BY <1>6, <2>1, SMTT(30)
<1>8. T \subseteq Steps /\ \A x \in T : x[1] = "put"
  BY DEF Steps
<1>9. todo \in Seq(Steps) /\ \A j \in DOMAIN todo : todo[j][1] = "put"
  <2> HIDE DEF T, todo
  <2> QED BY <1>7, <1>8, SMTT(30)
<1> QED BY <1>9

LEMMA IndexTodo ==
  ASSUME world \in World, NEW d \in Indexes
  PROVE  /\ deleteOrphanedBlobs(d) \in Seq(Steps)
         /\ \A j \in DOMAIN deleteOrphanedBlobs(d) : deleteOrphanedBlobs(d)[j][1] \in {"fetch", "remove"}
<1>0. PICK b \in world.builds : d = b.index
  BY DEF Indexes
<1> DEFINE n == Len(b.manifests)
           rows == [i \in DOMAIN b.manifests |-> deleteManifestBlobs(b.manifests[i])]
           T == {"fetch", "remove"} \X Digest
<1>1. n \in Nat /\ 1 \in 1..n /\ DOMAIN b.manifests = 1..n /\ \A i \in 1..n : b.manifests[i] \in All
  BY OfBuild, Elements
<1>2. DOMAIN rows = 1..n /\ Len(rows) = n
  BY <1>1, SMTT(30)
<1>3. \A m \in All : \A k \in 1..4 : deleteManifestBlobs(m)[k] \in T
  BY SMTT(30) DEF Digest, deleteManifestBlobs
<1>4. \A i \in 1..n : \A k \in 1..4 : rows[i][k] \in T
  BY <1>1, <1>3
<1>5. <<<<"remove", d>>>> \in Seq(T)
  BY SMTT(30) DEF Digest
<1>6. Joined(rows, 4) \in Seq(T)
  <2> HIDE DEF rows, n, T
  <2> QED BY <1>1, <1>2, <1>4, JoinedOK
<1>7. deleteOrphanedBlobs(d) = Joined(rows, 4) \o <<<<"remove", d>>>>
  BY <1>0, OfBuild DEF deleteOrphanedBlobs
<1>8. T \subseteq Steps /\ \A x \in T : x[1] \in {"fetch", "remove"}
  BY DEF Steps
<1>9. deleteOrphanedBlobs(d) \in Seq(T)
  <2> HIDE DEF T, rows
  <2> QED BY <1>5, <1>6, <1>7, SMTT(30)
<1> HIDE DEF T
<1> QED BY <1>8, <1>9, SMTT(30)

LEMMA DeleteTodo ==
  ASSUME world \in World, NEW d \in Targets
  PROVE  /\ deleteOrphanedBlobs(d) \in Seq(Steps)
         /\ \A j \in DOMAIN deleteOrphanedBlobs(d) : deleteOrphanedBlobs(d)[j][1] \in {"fetch", "remove"}
<1>1. ASSUME NEW b \in world.builds, d = b.index PROVE d \in Indexes
  BY <1>1 DEF Indexes
<1>2. ASSUME NEW m \in All, d = m.id
      PROVE  /\ deleteOrphanedBlobs(d) \in Seq(Steps)
             /\ \A j \in DOMAIN deleteOrphanedBlobs(d) : deleteOrphanedBlobs(d)[j][1] \in {"fetch", "remove"}
  <2>1. deleteOrphanedBlobs(d) = <<<<"fetch", m.id>>, <<"remove", m.config>>, <<"remove", m.layer>>, <<"remove", m.id>>>>
    BY <1>2, OfManifest DEF deleteOrphanedBlobs, deleteManifestBlobs
  <2>2. m.id \in Digest /\ m.config \in Digest /\ m.layer \in Digest
    BY SMTT(30) DEF Digest
  <2> QED BY <2>1, <2>2, StepsAre, SMTT(30)
<1> QED BY <1>1, <1>2, TargetIs, IndexTodo

\* A call that begins is well formed.
LEMMA BeginsOK ==
  ASSUME StoreTypes, NEW a \in Actor, NEW op, NEW d, NEW t, NEW todo, Begins(a, op, d, t, todo),
         CallOK([is |-> op, d |-> d, t |-> t, todo |-> todo]),
         UNCHANGED <<world, tags, remoteTags>>
  PROVE  StoreTypes'
BY TypesStep DEF Begins, StoreTypes

LEMMA ReturnsOK ==
  ASSUME StoreTypes, NEW a \in Actor, Returns(a), UNCHANGED <<world, remoteTags>>,
         tags' \in [Tag -> Targets \cup {None}]
  PROVE  StoreTypes'
BY TypesStep, IdleOK DEF Returns, StoreTypes

LEMMA AdvancesOK ==
  ASSUME StoreTypes, NEW a \in Actor, NEW todo \in Seq(Steps), Advances(a, todo),
         \A j \in DOMAIN todo : todo[j][1] \in Labels[ops[a].is],
         ops[a].is = "delete" => ops[a].d \in Targets,
         UNCHANGED <<world, remoteTags>>, tags' \in [Tag -> Targets \cup {None}]
  PROVE  StoreTypes'
<1>1. CallOK([ops[a] EXCEPT !.todo = todo])
  BY TodoOK
<1> QED BY <1>1, TypesStep, AdvancesIs, SMTT(30) DEF StoreTypes

LEMMA RestsOK ==
  ASSUME StoreTypes, NEW a \in Actor, ops[a].todo # <<>>, Advances(a, Rest(a)), world' = world,
         tags' \in [Tag -> Targets \cup {None}], remoteTags' \in [Tag -> Targets \cup {None}]
  PROVE  StoreTypes'
<1>1. CallOK([ops[a] EXCEPT !.todo = Rest(a)])
  BY RestOK
<1> QED BY <1>1, TypesStep, AdvancesIs, SMTT(30)

LEMMA CallTypes ==
  ASSUME StoreTypes, NEW a \in Actor, Call(a)
  PROVE  StoreTypes'
<1>1. ASSUME NEW b \in world.builds, Package(a, b) PROVE StoreTypes'
  <2> DEFINE todo == <<<<"put", b.manifests[1].layer>>>>
                       \o Joined([i \in DOMAIN b.manifests |->
                            <<<<"put", b.manifests[i].config>>, <<"put", b.manifests[i].id>>>>], 2)
                       \o <<<<"put", b.index>>>>
  <2>1. todo \in Seq(Steps) /\ \A j \in DOMAIN todo : todo[j][1] = "put"
    BY PackageTodo DEF StoreTypes
  <2>2. Begins(a, "package", None, None, todo) /\ UNCHANGED <<world, tags, remoteTags>>
    BY <1>1 DEF Package
  <2> HIDE DEF todo
  <2>3. CallOK([is |-> "package", d |-> None, t |-> None, todo |-> todo])
    BY <2>1 DEF CallOK, Calls0, Labels
  <2> QED BY <2>2, <2>3, BeginsOK
<1>2. ASSUME NEW d \in Targets, NEW t \in Tag, TagDigest(a, d, t) PROVE StoreTypes'
  <2>1. CallOK([is |-> "tag", d |-> d, t |-> t, todo |-> IF d \in known THEN <<<<"tag">>>> ELSE <<<<"fail">>>>])
    BY StepsAre, SMTT(30) DEF CallOK, Calls0, Labels
  <2> QED BY <1>2, <2>1, BeginsOK DEF TagDigest
<1>3. ASSUME NEW d \in Targets, NEW t \in Tag, Push(a, d, t) PROVE StoreTypes'
  <2>1. d \in Digest
    BY TargetIs DEF StoreTypes
  <2>2. CallOK([is |-> "push", d |-> d, t |-> t, todo |-> IF d \in known THEN <<<<"visit", d>>, <<"tagRemote">>>> ELSE <<<<"fail">>>>])
    BY <2>1, StepsAre, SMTT(30) DEF CallOK, Calls0, Labels
  <2> QED BY <1>3, <2>2, BeginsOK DEF Push
<1>4. ASSUME NEW t \in Tag, DeleteTag(a, t) PROVE StoreTypes'
  <2>1. CallOK([is |-> "untag", d |-> None, t |-> t, todo |-> <<<<"untag">>>>])
    BY StepsAre, SMTT(30) DEF CallOK, Calls0, Labels
  <2> QED BY <1>4, <2>1, BeginsOK DEF DeleteTag
<1>5. ASSUME NEW t \in Tag, DeleteBuild(a, t) PROVE StoreTypes'
  <2>1. tags[t] \in Targets \cup {None}
    BY DEF StoreTypes
  <2>2. CallOK([is |-> "delete", d |-> tags[t], t |-> t, todo |-> IF tags[t] = None THEN <<<<"fail">>>> ELSE <<<<"untag">>>>])
    BY <2>1, StepsAre, SMTT(30) DEF CallOK, Calls0, Labels
  <2> QED BY <1>5, <2>2, BeginsOK DEF DeleteBuild
<1>6. ASSUME NEW t \in Tag, Pull(a, t) PROVE StoreTypes'
  <2>1. remoteTags[t] \in Targets \cup {None} /\ (remoteTags[t] # None => remoteTags[t] \in Digest)
    BY TargetIs DEF StoreTypes
  <2>2. CallOK([is |-> "pull", d |-> remoteTags[t], t |-> t,
                todo |-> IF remoteTags[t] = None THEN <<<<"fail">>>> ELSE <<<<"visit", remoteTags[t]>>, <<"tag">>>>])
    BY <2>1, StepsAre, SMTT(30) DEF CallOK, Calls0, Labels
  <2> QED BY <1>6, <2>2, BeginsOK DEF Pull
<1> QED BY <1>1, <1>2, <1>3, <1>4, <1>5, <1>6 DEF Call

\* What a visited node is replaced by: visits of what it refers to, then its copy.
LEMMA VisitTodo ==
  ASSUME NEW d \in Digest, NEW succ \in Seq(Digest), NEW rest \in Seq(Steps)
  PROVE  LET new == [i \in DOMAIN succ |-> <<"visit", succ[i]>>] \o <<<<"copy", d>>>> \o rest
         IN  /\ new \in Seq(Steps) /\ Len(new) = Len(succ) + 1 + Len(rest)
             /\ \A j \in 1..Len(succ) : new[j] = <<"visit", succ[j]>>
             /\ new[Len(succ) + 1] = <<"copy", d>>
             /\ \A j \in 1..Len(rest) : new[Len(succ) + 1 + j] = rest[j]
<1> DEFINE visits == [i \in DOMAIN succ |-> <<"visit", succ[i]>>]
           copy == <<<<"copy", d>>>>
<1>1. visits \in Seq(Steps) /\ Len(visits) = Len(succ) /\ \A j \in 1..Len(succ) : visits[j] = <<"visit", succ[j]>>
  <2>1. \A j \in DOMAIN succ : <<"visit", succ[j]>> \in Steps
    BY StepsAre, SMTT(30)
  <2> QED BY <2>1, SMTT(30)
<1>2. copy \in Seq(Steps) /\ Len(copy) = 1 /\ copy[1] = <<"copy", d>>
  BY StepsAre, SMTT(30)
<1> HIDE DEF visits, copy
<1>3. /\ visits \o copy \in Seq(Steps) /\ Len(visits \o copy) = Len(succ) + 1
      /\ \A j \in 1..Len(succ) : (visits \o copy)[j] = visits[j]
      /\ (visits \o copy)[Len(succ) + 1] = copy[1]
  <2>1. 1 \in 1..Len(copy)
    BY <1>2, SMTT(30)
  <2>2. /\ visits \o copy \in Seq(Steps) /\ Len(visits \o copy) = Len(visits) + Len(copy)
        /\ \A j \in 1..Len(visits) : (visits \o copy)[j] = visits[j]
        /\ \A j \in 1..Len(copy) : (visits \o copy)[Len(visits) + j] = copy[j]
    <3>1. visits \in Seq(Steps) /\ copy \in Seq(Steps)
      BY <1>1, <1>2
    <3> QED BY <3>1, SMTT(30)
  <2> QED BY <1>1, <1>2, <2>1, <2>2
<1> DEFINE head == visits \o copy
           new == head \o rest
<1>0. Len(succ) \in Nat
  BY SMTT(30)
<1>4. /\ new \in Seq(Steps) /\ Len(new) = Len(succ) + 1 + Len(rest)
      /\ \A j \in 1..(Len(succ) + 1) : new[j] = (visits \o copy)[j]
      /\ \A j \in 1..Len(rest) : new[Len(succ) + 1 + j] = rest[j]
  <2>1. head \in Seq(Steps) /\ Len(head) = Len(succ) + 1
    BY <1>3
  <2> HIDE DEF head
  <2>2. /\ new \in Seq(Steps) /\ Len(new) = Len(head) + Len(rest)
        /\ \A j \in 1..Len(head) : new[j] = head[j]
        /\ \A j \in 1..Len(rest) : new[Len(head) + j] = rest[j]
    <3>1. head \in Seq(Steps) /\ rest \in Seq(Steps)
      BY <2>1
    <3> QED BY <3>1, SMTT(30)
  <2> HIDE DEF new
  <2> QED BY <2>1, <2>2 DEF head
<1>5. /\ \A j \in 1..Len(succ) : new[j] = <<"visit", succ[j]>>
      /\ new[Len(succ) + 1] = <<"copy", d>>
  <2> HIDE DEF new
  <2>1. ASSUME NEW j \in 1..Len(succ) PROVE new[j] = <<"visit", succ[j]>>
    BY <1>0, <1>1, <1>3, <1>4, SMTT(30)
  <2>2. new[Len(succ) + 1] = <<"copy", d>>
    BY <1>0, <1>2, <1>3, <1>4, SMTT(30)
  <2> QED BY <2>1, <2>2
<1> QED BY <1>4, <1>5 DEF visits, copy

LEMMA LabelsAre ==
  /\ DOMAIN Labels = {"idle", "package", "tag", "untag", "delete", "push", "pull"}
  /\ Labels["idle"] = {} /\ Labels["package"] = {"put"} /\ Labels["tag"] = {"tag", "fail"} /\ Labels["untag"] = {"untag"}
  /\ Labels["delete"] = {"fail", "untag", "list", "check", "fetch", "remove"}
  /\ Labels["push"] = {"visit", "copy", "tagRemote", "fail"} /\ Labels["pull"] = {"visit", "copy", "tag", "fail"}
BY DEF Labels

\* The step a call is at says which call it is.
LEMMA WhichCall ==
  ASSUME StoreTypes, NEW a \in Actor, ops[a].todo # <<>>
  PROVE  /\ ops[a].d \in Targets \cup {None}
         /\ Step(a)[1] = "put" => ops[a].is = "package"
         /\ Step(a)[1] = "tag" => ops[a].is \in {"tag", "pull"} /\ ops[a].t \in Tag
         /\ Step(a)[1] = "untag" => /\ ops[a].is \in {"untag", "delete"} /\ ops[a].t \in Tag
                                    /\ ops[a].is = "delete" => ops[a].d \in Targets
         /\ Step(a)[1] \in {"list", "check", "fetch", "remove"} => ops[a].is = "delete" /\ ops[a].d \in Targets
         /\ Step(a)[1] \in {"visit", "copy"} => ops[a].is \in {"push", "pull"}
         /\ Step(a)[1] = "tagRemote" => ops[a].is = "push" /\ ops[a].t \in Tag /\ ops[a].d \in Targets
         /\ Step(a)[1] \in {"put", "fetch", "remove", "visit", "copy"} => Step(a)[2] \in Digest
<1>1. CallOK(ops[a]) /\ Step(a) \in Steps /\ Step(a)[1] \in Labels[ops[a].is] /\ Step(a) = ops[a].todo[1] /\ ops[a].todo \in Seq(Steps)
  BY RestOK DEF StoreTypes, CallOK, Calls0
<1>2. 1 \in DOMAIN ops[a].todo
  BY <1>1, SMTT(30)
<1>3. ops[a].is \in DOMAIN Labels /\ ops[a].d \in Targets \cup {None}
  BY <1>1 DEF CallOK, Calls0
<1>4. ops[a].is = "delete" /\ Step(a)[1] # "fail" => ops[a].d \in Targets
  BY <1>1, <1>2 DEF CallOK
<1>5. /\ ops[a].is \in {"tag", "untag", "delete", "push", "pull"} => ops[a].t \in Tag
      /\ ops[a].is \in {"tag", "push"} => ops[a].d \in Targets
  BY <1>1 DEF CallOK
<1>6. Step(a)[1] \in {"put", "fetch", "remove", "visit", "copy"} => Step(a)[2] \in Digest
  BY <1>1, StepsAre
<1> QED BY <1>1, <1>3, <1>4, <1>5, <1>6, LabelsAre

LEMMA TypesNow ==
  ASSUME StoreTypes, NEW a \in Actor
  PROVE  /\ tags \in [Tag -> Targets \cup {None}] /\ remoteTags \in [Tag -> Targets \cup {None}]
         /\ CallOK(ops[a]) /\ world \in World /\ ops[a].todo \in Seq(Steps)
BY DEF StoreTypes, CallOK, Calls0

LEMMA SetTagTypes ==
  ASSUME StoreTypes, NEW a \in Actor, SetTag(a)
  PROVE  StoreTypes'
<1>1. ops[a].is \in {"tag", "pull"} /\ ops[a].t \in Tag
  <2>1. ops[a].todo # <<>> /\ Step(a)[1] = "tag"
    BY DEF SetTag, At
  <2> QED BY <2>1, WhichCall
<1>2. ops[a].d \in Targets \cup {None}
  BY TypesNow DEF CallOK, Calls0
<1> QED BY TypesNow, <1>1, <1>2, ReturnsOK DEF SetTag

LEMMA UntagTypes ==
  ASSUME StoreTypes, NEW a \in Actor, Untag(a)
  PROVE  StoreTypes'
<1>1. ops[a].is \in {"untag", "delete"} /\ ops[a].t \in Tag /\ (ops[a].is = "delete" => ops[a].d \in Targets)
  <2>1. ops[a].todo # <<>> /\ Step(a)[1] = "untag"
    BY DEF Untag, At
  <2> QED BY <2>1, WhichCall
<1>2. tags' \in [Tag -> Targets \cup {None}]
  BY TypesNow DEF Untag
<1>3. <<<<"list">>>> \in Seq(Steps) /\ (ops[a].is = "delete" => \A j \in DOMAIN <<<<"list">>>> : <<<<"list">>>>[j][1] \in Labels[ops[a].is])
  BY StepsAre, SMTT(30) DEF Labels
<1> QED BY <1>1, <1>2, <1>3, ReturnsOK, AdvancesOK DEF Untag

LEMMA ListTagsTypes ==
  ASSUME StoreTypes, NEW a \in Actor, ListTags(a)
  PROVE  StoreTypes'
<1>1. ops[a].is = "delete" /\ ops[a].d \in Targets
  BY WhichCall DEF ListTags, At
<1> DEFINE todo == <<<<"check", {t \in Tag : tags[t] # None}>>>>
<1>2. todo \in Seq(Steps) /\ \A j \in DOMAIN todo : todo[j][1] \in Labels[ops[a].is]
  BY <1>1, StepsAre, SMTT(30) DEF Labels
<1>3. Advances(a, todo) /\ UNCHANGED <<world, remoteTags>> /\ tags' = tags
  BY DEF ListTags
<1> QED BY TypesNow, <1>1, <1>2, <1>3, AdvancesOK

LEMMA IsDigestReferencedTypes ==
  ASSUME StoreTypes, NEW a \in Actor, isDigestReferenced(a)
  PROVE  StoreTypes'
<1>1. ops[a].is = "delete" /\ ops[a].d \in Targets
  BY WhichCall DEF isDigestReferenced, At
<1> DEFINE todo == deleteOrphanedBlobs(ops[a].d)
<1>2. todo \in Seq(Steps) /\ \A j \in DOMAIN todo : todo[j][1] \in {"fetch", "remove"}
  BY TypesNow, <1>1, DeleteTodo
<1>3. \A j \in DOMAIN todo : todo[j][1] \in Labels[ops[a].is]
  BY <1>1, <1>2, SMTT(30) DEF Labels
<1>4. (Returns(a) \/ Advances(a, todo)) /\ UNCHANGED <<world, remoteTags>> /\ tags' = tags
  BY DEF isDigestReferenced
<1> HIDE DEF todo
<1> QED BY TypesNow, <1>1, <1>2, <1>3, <1>4, AdvancesOK, ReturnsOK

LEMMA VisitTypes ==
  ASSUME StoreTypes, NEW a \in Actor, Visit(a)
  PROVE  StoreTypes'
<1> DEFINE d == Step(a)[2]
           todo == [i \in DOMAIN Successors(d) |-> <<"visit", Successors(d)[i]>>] \o <<<<"copy", d>>>> \o Rest(a)
<1>1. /\ ops[a].todo # <<>> /\ Step(a)[1] = "visit" /\ UNCHANGED <<world, remoteTags, tags>>
      /\ Advances(a, Rest(a)) \/ Returns(a) \/ Advances(a, todo)
  BY DEF Visit, At
<1>2. /\ Rest(a) \in Seq(Steps) /\ \A j \in DOMAIN Rest(a) : Rest(a)[j][1] \in Labels[ops[a].is]
      /\ d \in Digest /\ ops[a].is \in {"push", "pull"}
  <2>1. d \in Digest /\ ops[a].is \in {"push", "pull"}
    BY <1>1, WhichCall
  <2>2. CallOK([ops[a] EXCEPT !.todo = Rest(a)]) /\ Rest(a) \in Seq(Steps) /\ ops[a] \in Calls0
    BY TypesNow, <1>1, RestOK DEF CallOK
  <2>3. \A j \in DOMAIN Rest(a) : Rest(a)[j][1] \in Labels[ops[a].is]
    BY <2>2 DEF CallOK, Calls0
  <2> QED BY <2>1, <2>2, <2>3
<1>3. Successors(d) \in Seq(Digest)
  BY TypesNow, <1>2, SuccessorsType
<1>4. todo \in Seq(Steps) /\ \A j \in DOMAIN todo : todo[j][1] \in Labels[ops[a].is]
  <2>1. /\ todo \in Seq(Steps) /\ Len(todo) = Len(Successors(d)) + 1 + Len(Rest(a))
        /\ \A j \in 1..Len(Successors(d)) : todo[j] = <<"visit", Successors(d)[j]>>
        /\ todo[Len(Successors(d)) + 1] = <<"copy", d>>
        /\ \A j \in 1..Len(Rest(a)) : todo[Len(Successors(d)) + 1 + j] = Rest(a)[j]
    BY <1>2, <1>3, VisitTodo, ZenonT(30)
  <2>2. {"visit", "copy"} \subseteq Labels[ops[a].is]
    BY <1>2, SMTT(30) DEF Labels
  <2> DEFINE n == Len(Successors(d))
  <2> HIDE DEF todo
  <2>3. n \in Nat /\ Len(Rest(a)) \in Nat /\ DOMAIN todo = 1..(n + 1 + Len(Rest(a))) /\ DOMAIN Rest(a) = 1..Len(Rest(a))
    BY <1>2, <1>3, <2>1, SMTT(30)
  <2> HIDE DEF n
  <2>4. ASSUME NEW j \in DOMAIN todo PROVE todo[j][1] \in Labels[ops[a].is]
    <3>1. CASE j \in 1..n
      BY <2>1, <2>2, <3>1, SMTT(30) DEF n
    <3>2. CASE j = n + 1
      BY <2>1, <2>2, <3>2, SMTT(30) DEF n
    <3>3. CASE j > n + 1
      <4>1. j - (n + 1) \in 1..Len(Rest(a)) /\ j = n + 1 + (j - (n + 1))
        BY <2>3, <3>3, SMTT(30)
      <4>2. todo[j] = Rest(a)[j - (n + 1)]
        BY <2>1, <4>1 DEF n
      <4> QED BY <1>2, <2>3, <4>1, <4>2
    <3> QED BY <2>3, <3>1, <3>2, <3>3, SMTT(30)
  <2> QED BY <2>1, <2>4, ZenonT(30)
<1> HIDE DEF todo
<1> QED BY TypesNow, <1>1, <1>2, <1>4, AdvancesOK, ReturnsOK, RestsOK

LEMMA TagRemoteTypes ==
  ASSUME StoreTypes, NEW a \in Actor, TagRemote(a)
  PROVE  StoreTypes'
<1>1. ops[a].todo # <<>> /\ Step(a)[1] = "tagRemote" /\ world' = world /\ tags' = tags
  BY DEF TagRemote, At
<1>2. ops[a].t \in Tag /\ ops[a].d \in Targets
  BY <1>1, WhichCall
<1>3. remoteTags' \in [Tag -> Targets \cup {None}]
  BY TypesNow, <1>2 DEF TagRemote
<1>4. CASE Returns(a)
  BY TypesNow, <1>1, <1>3, <1>4, IdleOK, TypesStep, ZenonT(30) DEF Returns
<1>5. CASE Advances(a, Rest(a))
  BY TypesNow, <1>1, <1>3, <1>5, RestsOK
<1> QED BY <1>4, <1>5 DEF TagRemote

LEMMA StepTypes ==
  ASSUME StoreTypes, NEW a \in Actor,
         \/ Put(a) \/ SetTag(a) \/ Untag(a) \/ ListTags(a) \/ isDigestReferenced(a)
         \/ FetchManifest(a) \/ deleteBlob(a) \/ Visit(a) \/ Copy(a) \/ TagRemote(a) \/ Fails(a)
  PROVE  StoreTypes'
<1>1. CASE Put(a)
  BY TypesNow, <1>1, ReturnsOK, RestsOK DEF Put, At
<1>2. CASE SetTag(a)
  BY <1>2, SetTagTypes
<1>3. CASE Untag(a)
  BY <1>3, UntagTypes
<1>4. CASE ListTags(a)
  BY <1>4, ListTagsTypes
<1>5. CASE isDigestReferenced(a)
  BY <1>5, IsDigestReferencedTypes
<1>6. CASE FetchManifest(a)
  BY TypesNow, <1>6, ReturnsOK, RestsOK DEF FetchManifest, At
<1>7. CASE deleteBlob(a)
  BY TypesNow, <1>7, ReturnsOK, RestsOK, SMTT(30) DEF deleteBlob, At
<1>8. CASE Visit(a)
  BY <1>8, VisitTypes
<1>9. CASE Copy(a)
  BY TypesNow, <1>9, RestsOK DEF Copy, At
<1>10. CASE TagRemote(a)
  BY <1>10, TagRemoteTypes
<1>11. CASE Fails(a)
  BY TypesNow, <1>11, ReturnsOK DEF Fails
<1> QED BY <1>1, <1>2, <1>3, <1>4, <1>5, <1>6, <1>7, <1>8, <1>9, <1>10, <1>11, SMTT(30)

-----------------------------------------------------------------------------
(* The registry. *)

\* x is at the destination, or comes before the j-th step.
Ready(s, j, x, R) == x \in R \/ \E i \in 1..(j - 1) : s[i] = <<"visit", x>> \/ s[i] = <<"copy", x>>

\* What must be at the registry when the j-th step of call o is done.
Needs(o, j) == IF o.todo[j][1] = "copy" THEN Range(Successors(o.todo[j][2]))
               ELSE IF o.todo[j][1] = "tagRemote" THEN {o.d} ELSE {}

PushOK(o, R) == o.is = "push" => \A j \in DOMAIN o.todo : \A x \in Needs(o, j) : Ready(o.todo, j, x, R)

RemoteInv ==
  /\ \A x \in remote : Range(Successors(x)) \subseteq remote
  /\ \A t \in Tag : remoteTags[t] # None => remoteTags[t] \in remote
  /\ \A a \in Actor : PushOK(ops[a], remote)

\* What a call waits for stays there when the registry grows.
LEMMA PushGrows ==
  ASSUME NEW o, NEW R, NEW Q, R \subseteq Q, PushOK(o, R)
  PROVE  PushOK(o, Q)
BY DEF PushOK, Ready

\* A sequence without its first step.
IsRest(s, rest) ==
  /\ s \in Seq(Steps) /\ rest \in Seq(Steps) /\ Len(rest) = Len(s) - 1 /\ Len(s) >= 1
  /\ \A j \in DOMAIN rest : j + 1 \in DOMAIN s /\ rest[j] = s[j + 1]

\* The first step done, the others are ready for what it brought.
LEMMA PushRest ==
  ASSUME NEW o \in Calls0, NEW R, NEW Q, R \subseteq Q, PushOK(o, R),
         o.todo[1][1] \in {"visit", "copy"} => o.todo[1][2] \in Q,
         NEW rest, IsRest(o.todo, rest)
  PROVE  PushOK([o EXCEPT !.todo = rest], Q)
<1> DEFINE p == [o EXCEPT !.todo = rest]
<1>1. p.is = o.is /\ p.d = o.d /\ p.todo = rest
  BY DEF Calls0
<1> HIDE DEF p
<1>2. SUFFICES ASSUME o.is = "push", NEW j \in DOMAIN rest, NEW x \in Needs(p, j)
               PROVE  Ready(rest, j, x, Q)
  BY <1>1 DEF PushOK, p
<1>3. j \in Nat /\ j >= 1 /\ j + 1 \in DOMAIN o.todo /\ rest[j] = o.todo[j + 1]
  BY SMTT(30) DEF IsRest
<1>0. x \in Needs(o, j + 1)
  BY <1>1, <1>2, <1>3 DEF Needs
<1>4. Ready(o.todo, j + 1, x, R)
  BY <1>0, <1>2, <1>3 DEF PushOK
<1>5. CASE x \in R
  BY <1>5 DEF Ready
<1>6. ASSUME NEW i \in 1..j, o.todo[i] = <<"visit", x>> \/ o.todo[i] = <<"copy", x>> PROVE Ready(rest, j, x, Q)
  <2>1. CASE i = 1
    BY <1>6, <2>1, SMTT(30) DEF Ready
  <2>2. CASE i > 1
    <3>1. i - 1 \in 1..(j - 1) /\ i - 1 \in DOMAIN rest /\ (i - 1) + 1 = i
      BY <1>3, <2>2, SMTT(30) DEF IsRest
    <3>2. rest[i - 1] = o.todo[i]
      BY <3>1 DEF IsRest
    <3> QED BY <1>6, <3>1, <3>2 DEF Ready
  <2> QED BY <1>3, <2>1, <2>2, SMTT(30)
<1>7. 1..((j + 1) - 1) = 1..j
  BY <1>3, SMTT(30)
<1> QED BY <1>4, <1>5, <1>6, <1>7, ZenonT(30) DEF Ready

IsVisited(new, succ, d, rest) ==
  /\ new \in Seq(Steps) /\ Len(new) = Len(succ) + 1 + Len(rest)
  /\ \A j \in 1..Len(succ) : new[j] = <<"visit", succ[j]>>
  /\ new[Len(succ) + 1] = <<"copy", d>>
  /\ \A j \in 1..Len(rest) : new[Len(succ) + 1 + j] = rest[j]

\* A visited node gives way to the visits of what it refers to and its copy.
LEMMA PushVisit ==
  ASSUME NEW o \in Calls0, NEW R, PushOK(o, R), NEW d, o.todo[1] = <<"visit", d>>,
         Successors(d) \in Seq(Digest), NEW rest, IsRest(o.todo, rest),
         NEW new, IsVisited(new, Successors(d), d, rest)
  PROVE  PushOK([o EXCEPT !.todo = new], R)
<1> DEFINE p == [o EXCEPT !.todo = new]
           succ == Successors(d)
           n == Len(succ)
           m == Len(rest)
<1>1. p.is = o.is /\ p.d = o.d /\ p.todo = new
  BY DEF Calls0
<1>0. n \in Nat /\ m \in Nat /\ DOMAIN new = 1..(n + 1 + m) /\ DOMAIN succ = 1..n /\ DOMAIN rest = 1..m
  <2>1. rest \in Seq(Steps) /\ new \in Seq(Steps) /\ Len(new) = n + 1 + m
    BY DEF IsRest, IsVisited
  <2>2. succ \in Seq(Digest)
    OBVIOUS
  <2> HIDE DEF succ
  <2> QED BY <2>1, <2>2, SMTT(30)
<1>8. /\ \A j \in 1..n : new[j] = <<"visit", succ[j]>>
      /\ new[n + 1] = <<"copy", d>> /\ \A j \in 1..m : new[n + 1 + j] = rest[j]
  BY DEF IsVisited
<1>9. \A j \in 1..m : j + 1 \in DOMAIN o.todo /\ rest[j] = o.todo[j + 1]
  BY <1>0 DEF IsRest
<1> HIDE DEF p
<1>2. SUFFICES ASSUME o.is = "push", NEW j \in DOMAIN new, NEW x \in Needs(p, j)
               PROVE  Ready(new, j, x, R)
  BY <1>1 DEF PushOK, p
<1> HIDE DEF n, m, succ
<1>3. CASE j \in 1..n
  <2>1. new[j] = <<"visit", succ[j]>>
    BY <1>3, <1>8
  <2> QED BY <1>1, <1>2, <2>1, SMTT(30) DEF Needs
<1>4. CASE j = n + 1
  <2>1. new[j] = <<"copy", d>>
    BY <1>4, <1>8
  <2>2. x \in Range(succ)
    BY <1>1, <1>2, <2>1, SMTT(30) DEF Needs, succ
  <2>3. PICK i \in 1..n : x = succ[i]
    BY <1>0, <2>2 DEF Range
  <2>4. new[i] = <<"visit", x>>
    BY <1>8, <2>3
  <2>5. i \in 1..(j - 1)
    BY <1>0, <1>4, <2>3, SMTT(30)
  <2> QED BY <2>4, <2>5 DEF Ready
<1>5. CASE j > n + 1
  <2> DEFINE k == j - (n + 1)
  <2>1. k \in 1..m /\ j = n + 1 + k /\ k \in Nat
    BY <1>0, <1>5, SMTT(30)
  <2> HIDE DEF k
  <2>2. new[j] = o.todo[k + 1] /\ k + 1 \in DOMAIN o.todo
    BY <1>8, <1>9, <2>1
  <2>3. x \in Needs(o, k + 1)
    BY <1>1, <1>2, <2>2 DEF Needs
  <2>4. Ready(o.todo, k + 1, x, R)
    BY <1>2, <2>2, <2>3 DEF PushOK
  <2>5. CASE x \in R
    BY <2>5 DEF Ready
  <2>6. ASSUME NEW i \in 1..k, o.todo[i] = <<"visit", x>> \/ o.todo[i] = <<"copy", x>> PROVE Ready(new, j, x, R)
    <3>1. CASE i = 1
      <4>1. x = d
        BY <2>6, <3>1, SMTT(30)
      <4>2. n + 1 \in 1..(j - 1)
        BY <1>0, <2>1, SMTT(30)
      <4> QED BY <1>8, <4>1, <4>2 DEF Ready
    <3>2. CASE i > 1
      <4>1. i - 1 \in 1..m /\ n + 1 + (i - 1) \in 1..(j - 1) /\ i = (i - 1) + 1
        BY <1>0, <2>1, <2>6, <3>2, SMTT(30)
      <4>2. new[n + 1 + (i - 1)] = o.todo[i]
        BY <1>8, <1>9, <4>1
      <4> QED BY <2>6, <4>1, <4>2 DEF Ready
    <3> QED BY <2>1, <3>1, <3>2, SMTT(30)
  <2>7. 1..((k + 1) - 1) = 1..k
    BY <2>1, SMTT(30)
  <2> QED BY <2>4, <2>5, <2>6, <2>7 DEF Ready
<1> QED BY <1>0, <1>3, <1>4, <1>5, SMTT(30)

\* A step of one call that leaves the registry closed keeps the invariant.
LEMMA RemoteFrame ==
  ASSUME StoreTypes, RemoteInv, NEW a \in Actor, NEW o, ops' = [ops EXCEPT ![a] = o], world' = world,
         remote \subseteq remote', \A x \in remote' : Range(Successors(x)) \subseteq remote',
         \A t \in Tag : remoteTags'[t] # None => remoteTags'[t] \in remote', PushOK(o, remote')
  PROVE  RemoteInv'
<1>1. \A b \in Actor : PushOK(ops'[b], remote')
  <2>1. \A b \in Actor : PushOK(ops[b], remote')
    BY PushGrows DEF RemoteInv
  <2> QED BY <2>1 DEF StoreTypes
<1>2. \A d : Successors(d)' = Successors(d)
  BY WorldIsSteady
<1>3. \A b \in Actor : PushOK(ops[b], remote)'
  BY <1>1, <1>2 DEF PushOK, Needs
<1> QED BY <1>2, <1>3 DEF RemoteInv

\* A call that is no push, or that ends.
LEMMA RemoteAside ==
  ASSUME StoreTypes, RemoteInv, NEW a \in Actor, UNCHANGED <<world, remote, remoteTags>>,
         NEW o, ops' = [ops EXCEPT ![a] = o], o.is # "push"
  PROVE  RemoteInv'
<1>1. PushOK(o, remote')
  BY DEF PushOK
<1> QED BY <1>1, RemoteFrame DEF RemoteInv

LEMMA RemoteReturns ==
  ASSUME StoreTypes, RemoteInv, NEW a \in Actor, UNCHANGED <<world, remote, remoteTags>>, Returns(a)
  PROVE  RemoteInv'
<1>1. ops' = [ops EXCEPT ![a] = Idle]
  BY DEF Returns
<1>2. Idle.is # "push"
  BY DEF Idle
<1> QED BY <1>1, <1>2, RemoteAside

LEMMA RemoteAdvances ==
  ASSUME StoreTypes, RemoteInv, NEW a \in Actor, UNCHANGED <<world, remote, remoteTags>>,
         NEW todo, Advances(a, todo), ops[a].is # "push"
  PROVE  RemoteInv'
<1> DEFINE o == [ops[a] EXCEPT !.todo = todo]
<1>1. o.is # "push"
  BY DEF StoreTypes, Calls0
<1>2. ops' = [ops EXCEPT ![a] = o]
  BY AdvancesIs
<1> HIDE DEF o
<1> QED BY <1>1, <1>2, RemoteAside

LEMMA RestIs ==
  ASSUME StoreTypes, NEW a \in Actor, ops[a].todo # <<>>
  PROVE  ops[a] \in Calls0 /\ IsRest(ops[a].todo, Rest(a)) /\ Step(a) = ops[a].todo[1]
<1>1. ops[a] \in Calls0 /\ ops[a].todo \in Seq(Steps)
  BY DEF StoreTypes, Calls0
<1>2. Len(ops[a].todo) >= 1
  BY <1>1, SMTT(30)
<1> QED BY <1>1, <1>2, RestOK, ZenonT(30) DEF IsRest

LEMMA RemoteCall ==
  ASSUME StoreTypes, RemoteInv, NEW a \in Actor, Call(a)
  PROVE  RemoteInv'
<1>1. ASSUME NEW op, NEW d, NEW t, NEW todo, op # "push", Begins(a, op, d, t, todo), UNCHANGED <<world, remote, remoteTags>>
      PROVE  RemoteInv'
  <2>1. [is |-> op, d |-> d, t |-> t, todo |-> todo].is # "push"
    BY <1>1
  <2> QED BY <1>1, <2>1, RemoteAside DEF Begins
<1>2. ASSUME NEW d \in Targets, NEW t \in Tag, Push(a, d, t) PROVE RemoteInv'
  <2> DEFINE todo == IF d \in known THEN <<<<"visit", d>>, <<"tagRemote">>>> ELSE <<<<"fail">>>>
             o == [is |-> "push", d |-> d, t |-> t, todo |-> todo]
  <2>1. o.todo = todo /\ o.d = d
    OBVIOUS
  <2>2. PushOK(o, remote)
    <3>1. CASE d \in known
      <4>1. DOMAIN o.todo = 1..2 /\ o.todo[1] = <<"visit", d>> /\ o.todo[2] = <<"tagRemote">>
        BY <3>1, SMTT(30)
      <4> HIDE DEF o
      <4>2. Needs(o, 1) = {} /\ Needs(o, 2) = {d}
        BY <2>1, <4>1, SMTT(30) DEF Needs
      <4>3. Ready(o.todo, 2, d, remote)
        BY <4>1, SMTT(30) DEF Ready
      <4> QED BY <4>1, <4>2, <4>3, SMTT(30) DEF PushOK
    <3>2. CASE d \notin known
      <4>1. DOMAIN o.todo = 1..1 /\ o.todo[1] = <<"fail">>
        BY <3>2, SMTT(30)
      <4> HIDE DEF o
      <4> QED BY <4>1, SMTT(30) DEF PushOK, Needs
    <3> QED BY <3>1, <3>2
  <2>3. ops' = [ops EXCEPT ![a] = o] /\ UNCHANGED <<world, remote, remoteTags>>
    BY <1>2 DEF Push, Begins
  <2> HIDE DEF o
  <2> QED BY <2>2, <2>3, RemoteFrame DEF RemoteInv
<1>3. ASSUME NEW b \in world.builds, Package(a, b) PROVE RemoteInv'
  BY <1>1, <1>3 DEF Package
<1>4. ASSUME NEW d \in Targets, NEW t \in Tag, TagDigest(a, d, t) PROVE RemoteInv'
  BY <1>1, <1>4 DEF TagDigest
<1>5. ASSUME NEW t \in Tag, DeleteTag(a, t) \/ DeleteBuild(a, t) \/ Pull(a, t) PROVE RemoteInv'
  BY <1>1, <1>5 DEF DeleteTag, DeleteBuild, Pull
<1> QED BY <1>2, <1>3, <1>4, <1>5, SMTT(30) DEF Call

LEMMA VisitRemote ==
  ASSUME StoreTypes, RemoteInv, NEW a \in Actor, Visit(a)
  PROVE  RemoteInv'
<1> DEFINE d == Step(a)[2]
           todo == [i \in DOMAIN Successors(d) |-> <<"visit", Successors(d)[i]>>] \o <<<<"copy", d>>>> \o Rest(a)
<1>1. /\ ops[a].todo # <<>> /\ Step(a)[1] = "visit" /\ UNCHANGED <<world, remote, remoteTags>>
      /\ \/ d \in (IF ops[a].is = "push" THEN remote ELSE blobs) /\ Advances(a, Rest(a))
         \/ Returns(a) \/ Advances(a, todo)
  BY DEF Visit, At
<1>2. ops[a] \in Calls0 /\ IsRest(ops[a].todo, Rest(a)) /\ Step(a) = ops[a].todo[1]
  BY <1>1, RestIs
<1>3. CASE ops[a].is # "push"
  BY <1>1, <1>3, RemoteReturns, RemoteAdvances, SMTT(30)
<1>4. CASE Returns(a)
  BY <1>1, <1>4, RemoteReturns
<1>5. CASE ops[a].is = "push" /\ d \in remote /\ Advances(a, Rest(a))
  <2>1. PushOK([ops[a] EXCEPT !.todo = Rest(a)], remote)
    BY <1>1, <1>2, <1>5, PushRest DEF RemoteInv
  <2> QED BY <1>1, <1>5, <2>1, AdvancesIs, RemoteFrame, SMTT(30) DEF RemoteInv
<1>6. CASE ops[a].is = "push" /\ Advances(a, todo)
  <2>1. d \in Digest /\ Step(a) = <<"visit", d>>
    <3>1. d \in Digest
      BY <1>1, WhichCall
    <3>2. Step(a) \in Steps /\ Step(a)[1] = "visit"
      BY <1>1, RestOK
    <3> QED BY <3>1, <3>2, StepsAre, SMTT(30)
  <2>2. Successors(d) \in Seq(Digest)
    BY <2>1, SuccessorsType DEF StoreTypes
  <2>3. IsVisited(todo, Successors(d), d, Rest(a))
    BY <1>2, <2>1, <2>2, VisitTodo, ZenonT(30) DEF IsVisited, IsRest
  <2> HIDE DEF d, todo
  <2>4. PushOK([ops[a] EXCEPT !.todo = todo], remote)
    BY <1>2, <2>1, <2>2, <2>3, PushVisit, ZenonT(30) DEF RemoteInv
  <2> QED BY <1>1, <1>6, <2>4, AdvancesIs, RemoteFrame, SMTT(30) DEF RemoteInv
<1> HIDE DEF todo, d
<1> QED BY <1>1, <1>3, <1>4, <1>5, <1>6, SMTT(30)

LEMMA CopyRemote ==
  ASSUME StoreTypes, RemoteInv, NEW a \in Actor, Copy(a)
  PROVE  RemoteInv'
<1> DEFINE d == Step(a)[2]
<1>1. /\ ops[a].todo # <<>> /\ Step(a)[1] = "copy" /\ UNCHANGED <<world, remoteTags>> /\ Advances(a, Rest(a))
      /\ IF ops[a].is = "push" THEN remote' = remote \cup {d} ELSE remote' = remote
  BY DEF Copy, At
<1>2. ops[a] \in Calls0 /\ IsRest(ops[a].todo, Rest(a)) /\ Step(a) = ops[a].todo[1] /\ 1 \in DOMAIN ops[a].todo
  BY <1>1, RestIs, SMTT(30) DEF IsRest
<1>3. CASE ops[a].is # "push"
  BY <1>1, <1>3, RemoteAdvances
<1>4. CASE ops[a].is = "push"
  <2>1. Range(Successors(d)) \subseteq remote
    <3>1. \A x \in Range(Successors(d)) : x \in Needs(ops[a], 1)
      BY <1>1, <1>2 DEF Needs
    <3>2. \A x \in Needs(ops[a], 1) : Ready(ops[a].todo, 1, x, remote)
      BY <1>2, <1>4 DEF RemoteInv, PushOK
    <3> QED BY <3>1, <3>2, SMTT(30) DEF Ready
  <2>2. PushOK([ops[a] EXCEPT !.todo = Rest(a)], remote')
    BY <1>1, <1>2, <1>4, PushRest, ZenonT(30) DEF RemoteInv
  <2> QED BY <1>1, <1>4, <2>1, <2>2, AdvancesIs, RemoteFrame, SMTT(30) DEF RemoteInv
<1> QED BY <1>3, <1>4

LEMMA TagRemoteRemote ==
  ASSUME StoreTypes, RemoteInv, NEW a \in Actor, TagRemote(a)
  PROVE  RemoteInv'
<1>1. /\ ops[a].todo # <<>> /\ Step(a)[1] = "tagRemote" /\ UNCHANGED <<world, remote>>
      /\ remoteTags' = [remoteTags EXCEPT ![ops[a].t] = ops[a].d]
      /\ Returns(a) \/ Advances(a, Rest(a))
  BY DEF TagRemote, At
<1>2. ops[a] \in Calls0 /\ IsRest(ops[a].todo, Rest(a)) /\ Step(a) = ops[a].todo[1] /\ 1 \in DOMAIN ops[a].todo
  BY <1>1, RestIs, SMTT(30) DEF IsRest
<1>3. ops[a].is = "push" /\ ops[a].t \in Tag
  BY <1>1, WhichCall
<1>4. ops[a].d \in remote
  <2>1. ops[a].d \in Needs(ops[a], 1)
    BY <1>1, <1>2 DEF Needs
  <2>2. Ready(ops[a].todo, 1, ops[a].d, remote)
    BY <1>2, <1>3, <2>1 DEF RemoteInv, PushOK
  <2> QED BY <2>2, SMTT(30) DEF Ready
<1>5. \A t \in Tag : remoteTags'[t] # None => remoteTags'[t] \in remote'
  BY <1>1, <1>3, <1>4 DEF RemoteInv, StoreTypes
<1>6. PushOK([ops[a] EXCEPT !.todo = Rest(a)], remote) /\ PushOK(Idle, remote)
  <2>1. PushOK([ops[a] EXCEPT !.todo = Rest(a)], remote)
    BY <1>1, <1>2, PushRest DEF RemoteInv
  <2> QED BY <2>1 DEF PushOK, Idle
<1>7. ops' = [ops EXCEPT ![a] = Idle] \/ ops' = [ops EXCEPT ![a] = [ops[a] EXCEPT !.todo = Rest(a)]]
  BY <1>1, AdvancesIs DEF Returns
<1> QED BY <1>1, <1>5, <1>6, <1>7, RemoteFrame, SMTT(30) DEF RemoteInv

LEMMA RemoteStep ==
  ASSUME StoreTypes, RemoteInv, NEW a \in Actor,
         \/ Put(a) \/ SetTag(a) \/ Untag(a) \/ ListTags(a) \/ isDigestReferenced(a)
         \/ FetchManifest(a) \/ deleteBlob(a) \/ Visit(a) \/ Copy(a) \/ TagRemote(a) \/ Fails(a)
  PROVE  RemoteInv'
<1>1. CASE SetTag(a) \/ Fails(a)
  BY <1>1, RemoteReturns DEF SetTag, Fails
<1>2. CASE Put(a)
  <2>1. ops[a].is # "push"
    BY <1>2, WhichCall DEF Put, At
  <2> QED BY <1>2, <2>1, RemoteReturns, RemoteAdvances, SMTT(30) DEF Put
<1>3. CASE Untag(a)
  BY <1>3, RemoteReturns, RemoteAdvances DEF Untag
<1>4. CASE ListTags(a)
  <2>1. ops[a].is # "push"
    BY <1>4, WhichCall DEF ListTags, At
  <2> QED BY <1>4, <2>1, RemoteAdvances DEF ListTags
<1>5. CASE isDigestReferenced(a)
  <2>1. ops[a].is # "push"
    BY <1>5, WhichCall DEF isDigestReferenced, At
  <2> QED BY <1>5, <2>1, RemoteReturns, RemoteAdvances DEF isDigestReferenced
<1>6. CASE FetchManifest(a)
  <2>1. ops[a].is # "push"
    BY <1>6, WhichCall DEF FetchManifest, At
  <2> QED BY <1>6, <2>1, RemoteReturns, RemoteAdvances, SMTT(30) DEF FetchManifest
<1>7. CASE deleteBlob(a)
  <2>1. ops[a].is # "push"
    BY <1>7, WhichCall DEF deleteBlob, At
  <2> QED BY <1>7, <2>1, RemoteReturns, RemoteAdvances DEF deleteBlob
<1>8. CASE Visit(a)
  BY <1>8, VisitRemote
<1>9. CASE Copy(a)
  BY <1>9, CopyRemote
<1>10. CASE TagRemote(a)
  BY <1>10, TagRemoteRemote
<1> QED BY <1>1, <1>2, <1>3, <1>4, <1>5, <1>6, <1>7, <1>8, <1>9, <1>10, SMTT(30)

\* A closed registry holds all that is below what it holds.
LEMMA RemoteClosed ==
  ASSUME StoreTypes, RemoteInv
  PROVE  RemoteIsComplete
BY SMTT(30) DEF RemoteInv, RemoteIsComplete, Closure

LEMMA StoreStep ==
  ASSUME Next
  PROVE  \E a \in Actor :
           \/ Call(a)
           \/ Put(a) \/ SetTag(a) \/ Untag(a) \/ ListTags(a) \/ isDigestReferenced(a)
           \/ FetchManifest(a) \/ deleteBlob(a) \/ Visit(a) \/ Copy(a) \/ TagRemote(a) \/ Fails(a)
BY DEF Next

LEMMA RegistryInit == Init => StoreTypes /\ RemoteInv
<1> SUFFICES ASSUME Init PROVE StoreTypes /\ RemoteInv
  OBVIOUS
<1>0. /\ world \in World /\ tags = [t \in Tag |-> None] /\ remote = {} /\ remoteTags = [t \in Tag |-> None]
      /\ ops = [a \in Actor |-> Idle]
  BY DEF Init
<1>1. \A a \in Actor : ops[a] = Idle
  BY <1>0
<1>2. Idle.is = "idle" /\ Idle \in Calls0
  BY IdleOK DEF Idle, CallOK
<1>3. StoreTypes
  BY <1>0, <1>1, <1>2, IdleOK, SMTT(30) DEF StoreTypes
<1>4. RemoteInv
  BY <1>0, <1>1, <1>2 DEF RemoteInv, PushOK
<1> QED BY <1>3, <1>4

LEMMA RegistryNext == StoreTypes /\ RemoteInv /\ [Next]_vars => StoreTypes' /\ RemoteInv'
<1>1. ASSUME StoreTypes, RemoteInv, Next PROVE StoreTypes' /\ RemoteInv'
  BY <1>1, StoreStep, CallTypes, StepTypes, RemoteCall, RemoteStep, SMTT(30)
<1>2. ASSUME StoreTypes, RemoteInv, UNCHANGED vars PROVE StoreTypes' /\ RemoteInv'
  <2>1. UNCHANGED <<world, tags, remote, remoteTags, ops>>
    BY <1>2 DEF vars
  <2>2. Targets' = Targets /\ Steps' = Steps /\ \A d : Successors(d)' = Successors(d)
    BY <2>1, WorldIsSteady
  <2>3. StoreTypes'
    BY <1>2, <2>1, <2>2 DEF StoreTypes, CallOK, Calls0
  <2>4. RemoteInv'
    BY <1>2, <2>1, <2>2 DEF RemoteInv, PushOK, Needs
  <2> QED BY <2>3, <2>4
<1> QED BY <1>1, <1>2

(* The calls of the store are well formed, and whatever a push has yet to copy or to tag    *)
(* comes after what it refers to: the order of the copies is what RegistryIsComplete rests  *)
(* on (registry.go, Push and the graph copy it calls).                                      *)
THEOREM StoreIsWellFormed == Spec => [](StoreTypes /\ RemoteInv)
BY RegistryInit, RegistryNext, PTL DEF Spec

(* What a tag of the registry names is there to the last blob, however pushes race          *)
(* deletions, fail half way and run side by side (registry.go, Push).                       *)
THEOREM RegistryIsComplete == Spec => []RemoteIsComplete
<1>1. StoreTypes /\ RemoteInv => RemoteIsComplete
  BY RemoteClosed
<1> QED BY <1>1, StoreIsWellFormed, PTL

-----------------------------------------------------------------------------
(* DeleteBuild. *)

Removes(o, x) == \E j \in DOMAIN o.todo : o.todo[j] = <<"remove", x>>
Removing(o) == o.is = "delete" /\ 1 \in DOMAIN o.todo /\ o.todo[1][1] \in {"fetch", "remove"}

\* What holds of a call that removes blobs, with the blobs B in the store.
RemovesRest(o, B) ==
  Removing(o) => /\ \A j \in DOMAIN o.todo : o.todo[j][1] \in {"fetch", "remove"}
                 /\ \A x \in Closure(o.d) \cap B : Removes(o, x)

NoWriters == world.ops \cap {"package", "pull"} = {}

ReclaimInv ==
  NoWriters => /\ \A a \in Actor : ops[a].is \in {"idle"} \cup world.ops
               /\ \A d \in reclaimed : Closure(d) \cap blobs = {}
               /\ \A a \in Actor : RemovesRest(ops[a], blobs)

Exclusive == NoWriters /\ world.mutex /\ ~world.faults /\ ~Shared

Orderly(o, B) ==
  \A j \in DOMAIN o.todo :
    /\ o.todo[j][1] = "remove" => o.todo[j][2] \in Closure(o.d)
    /\ o.todo[j][1] = "fetch" => o.todo[j][2] \in B /\ \A i \in 1..(j - 1) : o.todo[i] # <<"remove", o.todo[j][2]>>

\* The mutex is held by the call that tags or deletes.
Locked(o) == o.is \in {"tag", "untag", "delete"}

\* What there is of it is all there, but for what is being removed.
Whole(d, B) == d \in B => Closure(d) \subseteq B

ExclusiveInv ==
  Exclusive =>
    /\ \A a \in Actor : mu = a <=> Locked(ops[a])
    /\ \A a \in Actor : At(a, "check") => Step(a)[2] = {t \in Tag : tags[t] # None}
    /\ \A d \in Targets : Whole(d, blobs) \/ \E a \in Actor : Removing(ops[a]) /\ ops[a].d = d
    /\ \A a \in Actor : Removing(ops[a]) => Orderly(ops[a], blobs) /\ \A t \in Tag : tags[t] # ops[a].d
    /\ TagsAreComplete

-----------------------------------------------------------------------------
(* The steps a deletion is made of. *)

Below(b) == {b.index} \cup UNION {{m.id, m.config, m.layer} : m \in Manifests(b)}

LEMMA ClosureOf ==
  ASSUME world \in World, NEW b \in world.builds
  PROVE  Closure(b.index) = Below(b)
<1> DEFINE ids == {m.id : m \in Manifests(b)}
<1>1. Range(Successors(b.index)) = ids
  <2>1. Successors(b.index) = [i \in DOMAIN b.manifests |-> b.manifests[i].id]
    BY OfBuild
  <2>2. Range(Successors(b.index)) = {b.manifests[i].id : i \in DOMAIN b.manifests}
    BY <2>1, SMTT(30) DEF Range
  <2> QED BY <2>2 DEF Manifests
<1>2. \A m \in Manifests(b) : Range(Successors(m.id)) = {m.config, m.layer}
  <2> SUFFICES ASSUME NEW m \in Manifests(b) PROVE Range(Successors(m.id)) = {m.config, m.layer}
    OBVIOUS
  <2>1. Successors(m.id) = <<m.config, m.layer>>
    BY OfBuild, OfManifest
  <2> QED BY <2>1, SMTT(30) DEF Range
<1> DEFINE first == {b.index} \cup UNION {Range(Successors(x)) : x \in {b.index}}
<1>3. first = {b.index} \cup ids
  BY <1>1
<1>4. Closure(b.index) = first \cup UNION {Range(Successors(x)) : x \in first}
  BY DEF Closure
<1> HIDE DEF first
<1>5. \A y : y \in Closure(b.index) <=> y \in first \/ \E x \in first : y \in Range(Successors(x))
  BY <1>4
<1>6. \A y : y \in Below(b) <=> y = b.index \/ \E m \in Manifests(b) : y \in {m.id, m.config, m.layer}
  BY DEF Below
<1>7. ASSUME NEW y, NEW x \in first, y \in Range(Successors(x)) PROVE y \in Below(b)
  <2>1. CASE x = b.index
    BY <1>1, <1>6, <1>7, <2>1
  <2>2. ASSUME NEW m \in Manifests(b), x = m.id PROVE y \in Below(b)
    BY <1>2, <1>6, <1>7, <2>2, SMTT(30)
  <2> QED BY <1>3, <2>1, <2>2
<1>8. ASSUME NEW m \in Manifests(b), NEW y \in {m.config, m.layer} PROVE \E x \in first : y \in Range(Successors(x))
  <2>1. m.id \in first /\ y \in Range(Successors(m.id))
    BY <1>2, <1>3, <1>8
  <2> QED BY <2>1
<1>9. first \subseteq Below(b) /\ b.index \in first /\ \A m \in Manifests(b) : m.id \in first
  BY <1>3, <1>6
<1>10. ASSUME NEW y PROVE y \in Closure(b.index) <=> y \in Below(b)
  BY <1>5, <1>6, <1>7, <1>8, <1>9, SMTT(30)
<1> QED BY <1>10

LEMMA ClosureOfManifest ==
  ASSUME world \in World, NEW m \in All
  PROVE  Closure(m.id) = {m.id, m.config, m.layer}
<1> DEFINE first == {m.id} \cup UNION {Range(Successors(x)) : x \in {m.id}}
<1>1. Range(Successors(m.id)) = {m.config, m.layer}
  <2>1. Successors(m.id) = <<m.config, m.layer>>
    BY OfManifest
  <2> QED BY <2>1, SMTT(30) DEF Range
<1>2. first = {m.id, m.config, m.layer}
  BY <1>1
<1>3. ASSUME NEW x \in {m.config, m.layer} PROVE Range(Successors(x)) = {}
  <2>0. /\ \A b \in world.builds : \A n \in All : b.index \notin {None, n.id, n.config, n.layer}
        /\ \A k, n \in All : k.id \notin {None, n.config, n.layer}
    BY WorldAssumption DEF WellFormed, All
  <2>1. x \notin Indexes /\ x \notin ManifestIds
    BY <1>3, <2>0 DEF All, ManifestIds, Indexes
  <2>2. Successors(x) = <<>>
    BY <2>1 DEF Successors
  <2> QED BY <2>2, SMTT(30) DEF Range
<1>4. Closure(m.id) = first \cup UNION {Range(Successors(x)) : x \in first}
  BY DEF Closure
<1> HIDE DEF first
<1>5. \A x \in first : Range(Successors(x)) \subseteq first
  BY <1>1, <1>2, <1>3
<1> QED BY <1>2, <1>4, <1>5

LEMMA TargetsDiffer ==
  ASSUME ~Shared, NEW d \in Targets, NEW e \in Targets, d # e
  PROVE  Closure(d) \cap Closure(e) = {}
BY DEF Shared

\* The steps of a deletion, in their order.
DeletionOf(b, s) ==
  LET n == Len(b.manifests) IN
  /\ s \in Seq(Steps) /\ Len(s) = 4 * n + 1 /\ s[4 * n + 1] = <<"remove", b.index>>
  /\ \A k \in 1..(4 * n) : \E i \in 1..n, c \in 1..4 : k = 4 * i - 4 + c /\ s[k] = deleteManifestBlobs(b.manifests[i])[c]
  /\ \A i \in 1..n, c \in 1..4 : \E k \in 1..(4 * n) : s[k] = deleteManifestBlobs(b.manifests[i])[c]

\* J is n rows of four steps, one after the other.
RowsOf(J, rows, n, T) ==
  /\ J \in Seq(T) /\ Len(J) = 4 * n
  /\ \A k \in 1..(4 * n) : \E i \in 1..n, c \in 1..4 : k = 4 * i - 4 + c /\ J[k] = rows[i][c]
  /\ \A i \in 1..n, c \in 1..4 : \E k \in 1..(4 * n) : J[k] = rows[i][c]

LEMMA JoinedFour ==
  ASSUME NEW T, NEW n \in Nat, NEW rows,
         DOMAIN rows = 1..n, Len(rows) = n, \A i \in 1..n : \A k \in 1..4 : rows[i][k] \in T
  PROVE  RowsOf(Joined(rows, 4), rows, n, T)
<1> DEFINE J == Joined(rows, 4)
           row(k) == ((k - 1) \div 4) + 1
           col(k) == ((k - 1) % 4) + 1
           N == 4 * n
<1>1. J = [k \in 1..N |-> rows[row(k)][col(k)]]
  BY DEF Joined
<1>2. N \in Nat /\ \A k \in 1..N : row(k) \in 1..n /\ col(k) \in 1..4 /\ k = 4 * row(k) - 4 + col(k)
  BY SMTT(30)
<1>3. \A i \in 1..n, c \in 1..4 : 4 * i - 4 + c \in 1..N /\ row(4 * i - 4 + c) = i /\ col(4 * i - 4 + c) = c
  BY SMTT(30)
<1> HIDE DEF row, col, N, J
<1> DEFINE cell(k) == rows[row(k)][col(k)]
<1>4. J \in Seq(T) /\ Len(J) = N /\ \A k \in 1..N : J[k] = cell(k)
  <2>1. N \in Nat /\ (\A k \in 1..N : cell(k) \in T) /\ J = [k \in 1..N |-> cell(k)]
    BY <1>1, <1>2
  <2> HIDE DEF cell
  <2> QED BY <2>1, SMTT(30)
<1>5. ASSUME NEW k \in 1..N PROVE \E i \in 1..n, c \in 1..4 : k = 4 * i - 4 + c /\ J[k] = rows[i][c]
  BY <1>2, <1>4
<1>6. ASSUME NEW i \in 1..n, NEW c \in 1..4 PROVE \E k \in 1..N : J[k] = rows[i][c]
  <2>1. 4 * i - 4 + c \in 1..N /\ J[4 * i - 4 + c] = rows[i][c]
    BY <1>3, <1>4, ZenonT(30)
  <2> QED BY <2>1
<1> QED BY <1>4, <1>5, <1>6 DEF RowsOf, J, N

LEMMA DeletionIs ==
  ASSUME world \in World, NEW b \in world.builds
  PROVE  DeletionOf(b, deleteOrphanedBlobs(b.index))
<1> DEFINE d == b.index
           n == Len(b.manifests)
           rows == [i \in DOMAIN b.manifests |-> deleteManifestBlobs(b.manifests[i])]
           T == {"fetch", "remove"} \X Digest
           J == Joined(rows, 4)
           last == <<<<"remove", d>>>>
           s == J \o last
<1>1. n \in Nat /\ 1 \in 1..n /\ DOMAIN b.manifests = 1..n /\ \A i \in 1..n : b.manifests[i] \in All
  BY OfBuild, Elements
<1>2. DOMAIN rows = 1..n /\ Len(rows) = n /\ \A i \in 1..n : rows[i] = deleteManifestBlobs(b.manifests[i])
  BY <1>1, SMTT(30)
<1>3. \A m \in All : \A k \in 1..4 : deleteManifestBlobs(m)[k] \in T
  BY SMTT(30) DEF Digest, deleteManifestBlobs
<1>4. \A i \in 1..n : \A k \in 1..4 : rows[i][k] \in T
  BY <1>1, <1>3
<1>5. last \in Seq(T) /\ Len(last) = 1 /\ last[1] = <<"remove", d>>
  <2>1. <<"remove", d>> \in T
    BY OfBuild DEF Digest
  <2> HIDE DEF T
  <2> QED BY <2>1, SMTT(30)
<1>7. deleteOrphanedBlobs(d) = s
  BY OfBuild DEF deleteOrphanedBlobs
<1>8. deleteOrphanedBlobs(d) \in Seq(Steps)
  BY OfBuild, IndexTodo
<1> HIDE DEF T, rows, n, last, d
<1>9. RowsOf(J, rows, n, T)
  <2>1. n \in Nat /\ DOMAIN rows = 1..n /\ Len(rows) = n
    BY <1>1, <1>2
  <2> QED BY <1>4, <2>1, JoinedFour
<1> HIDE DEF J
<1>10. Len(s) = 4 * n + 1 /\ (\A k \in 1..(4 * n) : s[k] = J[k]) /\ s[4 * n + 1] = last[1]
  <2>1. J \in Seq(T) /\ last \in Seq(T)
    BY <1>5, <1>9 DEF RowsOf
  <2>2. Len(s) = Len(J) + Len(last) /\ (\A k \in 1..Len(J) : s[k] = J[k]) /\ \A k \in 1..Len(last) : s[Len(J) + k] = last[k]
    BY <2>1, SMTT(30)
  <2>3. n \in Nat /\ Len(J) = 4 * n /\ Len(last) = 1
    BY <1>1, <1>5, <1>9 DEF RowsOf
  <2> HIDE DEF s
  <2> QED BY <2>2, <2>3, SMTT(30)
<1> HIDE DEF s
<1>11. ASSUME NEW k \in 1..(4 * n)
       PROVE  \E i \in 1..n, c \in 1..4 : k = 4 * i - 4 + c /\ s[k] = deleteManifestBlobs(b.manifests[i])[c]
  <2>1. PICK i \in 1..n, c \in 1..4 : k = 4 * i - 4 + c /\ J[k] = rows[i][c]
    BY <1>9 DEF RowsOf
  <2>2. s[k] = J[k] /\ rows[i] = deleteManifestBlobs(b.manifests[i])
    BY <1>2, <1>10
  <2> QED BY <2>1, <2>2
<1>12. ASSUME NEW i \in 1..n, NEW c \in 1..4
       PROVE  \E k \in 1..(4 * n) : s[k] = deleteManifestBlobs(b.manifests[i])[c]
  <2>1. PICK k \in 1..(4 * n) : J[k] = rows[i][c]
    BY <1>9 DEF RowsOf
  <2>2. s[k] = J[k] /\ rows[i] = deleteManifestBlobs(b.manifests[i])
    BY <1>2, <1>10
  <2> QED BY <2>1, <2>2
<1> QED BY <1>5, <1>7, <1>8, <1>10, <1>11, <1>12, ZenonT(30) DEF DeletionOf, n, d

\* Every blob of the build is removed.
LEMMA DeletionRemoves ==
  ASSUME world \in World, NEW b \in world.builds, NEW s, DeletionOf(b, s), NEW x \in Closure(b.index)
  PROVE  \E j \in DOMAIN s : s[j] = <<"remove", x>>
<1> DEFINE n == Len(b.manifests)
<1>1. n \in Nat /\ DOMAIN b.manifests = 1..n /\ s \in Seq(Steps) /\ Len(s) = 4 * n + 1
  BY OfBuild, Elements DEF DeletionOf
<1>2. DOMAIN s = 1..(4 * n + 1) /\ 4 * n \in Nat
  BY <1>1, SMTT(30)
<1>3. x \in Below(b)
  BY ClosureOf
<1>4. CASE x = b.index
  <2>1. 4 * n + 1 \in DOMAIN s /\ s[4 * n + 1] = <<"remove", x>>
    BY <1>2, <1>4, SMTT(30) DEF DeletionOf
  <2> QED BY <2>1
<1>5. ASSUME NEW i \in 1..n, x \in {b.manifests[i].id, b.manifests[i].config, b.manifests[i].layer}
      PROVE  \E j \in DOMAIN s : s[j] = <<"remove", x>>
  <2>1. \A c \in 1..4 : \E k \in 1..(4 * n) : s[k] = deleteManifestBlobs(b.manifests[i])[c]
    BY DEF DeletionOf
  <2>3. 1..(4 * n) \subseteq DOMAIN s
    BY <1>2, SMTT(30)
  <2>2. \E c \in 1..4 : deleteManifestBlobs(b.manifests[i])[c] = <<"remove", x>>
    BY <1>5, SMTT(30) DEF deleteManifestBlobs
  <2> QED BY <2>1, <2>2, <2>3
<1> QED BY <1>1, <1>3, <1>4, <1>5 DEF Below, Manifests

\* Nothing else is, and a manifest is fetched before it goes.
LEMMA DeletionOrder ==
  ASSUME world \in World, NEW b \in world.builds, NEW s, DeletionOf(b, s), NEW j \in DOMAIN s
  PROVE  /\ s[j][1] \in {"fetch", "remove"} /\ s[j][2] \in Closure(b.index)
         /\ s[j][1] = "fetch" => \A i \in 1..(j - 1) : s[i] # <<"remove", s[j][2]>>
<1> DEFINE n == Len(b.manifests)
           m(i) == b.manifests[i]
<1>1. n \in Nat /\ DOMAIN b.manifests = 1..n /\ s \in Seq(Steps) /\ Len(s) = 4 * n + 1 /\ \A i \in 1..n : m(i) \in All
  BY OfBuild, Elements DEF DeletionOf
<1>2. DOMAIN s = 1..(4 * n + 1) /\ 4 * n \in Nat
  BY <1>1, SMTT(30)
<1>3. s[4 * n + 1] = <<"remove", b.index>>
  BY DEF DeletionOf
<1>4. \A k \in 1..(4 * n) : \E i \in 1..n, c \in 1..4 : k = 4 * i - 4 + c /\ s[k] = deleteManifestBlobs(m(i))[c]
  BY DEF DeletionOf
<1>5. \A i \in 1..n : m(i) \in Manifests(b)
  BY <1>1 DEF Manifests
<1> HIDE DEF m, n
<1>6. ASSUME NEW k \in 1..(4 * n)
      PROVE  \E i \in 1..n : \/ s[k] = <<"fetch", m(i).id>> /\ k = 4 * i - 3
                             \/ s[k] = <<"remove", m(i).config>> \/ s[k] = <<"remove", m(i).layer>>
                             \/ (s[k] = <<"remove", m(i).id>> /\ k = 4 * i)
  <2>1. PICK i \in 1..n, c \in 1..4 : k = 4 * i - 4 + c /\ s[k] = deleteManifestBlobs(m(i))[c]
    BY <1>4
  <2>2. c \in {1, 2, 3, 4} /\ i \in Nat
    BY SMTT(30)
  <2>3. CASE c = 1
    BY <2>1, <2>2, <2>3, SMTT(30) DEF deleteManifestBlobs
  <2>4. CASE c = 2 \/ c = 3
    BY <2>1, <2>4, SMTT(30) DEF deleteManifestBlobs
  <2>5. CASE c = 4
    BY <2>1, <2>2, <2>5, SMTT(30) DEF deleteManifestBlobs
  <2> QED BY <2>2, <2>3, <2>4, <2>5
<1>8. j \in 1..(4 * n) \/ j = 4 * n + 1
  BY <1>2, SMTT(30)
<1>9. b.index \in Closure(b.index) /\ \A i \in 1..n : {m(i).id, m(i).config, m(i).layer} \subseteq Closure(b.index)
  BY <1>5, ClosureOf, ZenonT(30) DEF Below
<1>10. s[j][1] \in {"fetch", "remove"} /\ s[j][2] \in Closure(b.index)
  <2>1. CASE j \in 1..(4 * n)
    BY <1>6, <1>9, <2>1, SMTT(30)
  <2>2. CASE j = 4 * n + 1
    BY <1>3, <1>9, <2>2, SMTT(30)
  <2> QED BY <1>8, <2>1, <2>2
<1>11. ASSUME s[j][1] = "fetch", NEW i \in 1..(j - 1), s[i] = <<"remove", s[j][2]>> PROVE FALSE
  <2>1. j \in 1..(4 * n)
    BY <1>3, <1>8, <1>11, SMTT(30)
  <2>2. i \in 1..(4 * n) /\ i < j
    BY <1>2, <2>1, SMTT(30)
  <2>3. PICK p \in 1..n : s[j] = <<"fetch", m(p).id>> /\ j = 4 * p - 3
    <3>1. PICK p \in 1..n : \/ s[j] = <<"fetch", m(p).id>> /\ j = 4 * p - 3
                            \/ s[j] = <<"remove", m(p).config>> \/ s[j] = <<"remove", m(p).layer>>
                            \/ s[j] = <<"remove", m(p).id>>
      BY <1>6, <2>1
    <3> QED BY <1>11, <3>1, SMTT(30)
  <2>4. PICK q \in 1..n : \/ m(p).id \in {m(q).config, m(q).layer} \/ (m(p).id = m(q).id /\ i = 4 * q)
    <3>1. s[i] = <<"remove", m(p).id>>
      BY <1>11, <2>3, SMTT(30)
    <3> QED BY <1>6, <2>2, <3>1, SMTT(30)
  <2>5. m(p).id \notin {m(q).config, m(q).layer}
    BY <1>1, WorldAssumption DEF WellFormed, All
  <2>6. p = q
    <3>1. \A k, l \in DOMAIN b.manifests : b.manifests[k].id = b.manifests[l].id => k = l
      BY WorldAssumption DEF WellFormed
    <3> QED BY <1>1, <2>4, <2>5, <3>1 DEF m
  <2>7. p \in Nat /\ i = 4 * p /\ j = 4 * p - 3
    BY <1>1, <2>3, <2>4, <2>5, <2>6, SMTT(30)
  <2> QED BY <2>2, <2>7, SMTT(30)
<1> QED BY <1>10, <1>11

\* The steps s delete all of d and nothing else, and fetch what they need before it goes.
Deletes(d, s) ==
  /\ s \in Seq(Steps) /\ 1 \in DOMAIN s
  /\ \A x \in Closure(d) : \E j \in DOMAIN s : s[j] = <<"remove", x>>
  /\ \A j \in DOMAIN s : /\ s[j][1] \in {"fetch", "remove"} /\ s[j][2] \in Closure(d)
                         /\ s[j][1] = "fetch" => \A i \in 1..(j - 1) : s[i] # <<"remove", s[j][2]>>

LEMMA OrphanDeleted ==
  ASSUME world \in World, NEW d \in Targets
  PROVE  Deletes(d, deleteOrphanedBlobs(d))
<1> DEFINE s == deleteOrphanedBlobs(d)
<1>1. ASSUME NEW b \in world.builds, d = b.index PROVE Deletes(d, s)
  <2>1. DeletionOf(b, s)
    BY <1>1, DeletionIs
  <2> HIDE DEF s
  <2>2. s \in Seq(Steps) /\ 1 \in DOMAIN s
    <3>1. s \in Seq(Steps) /\ Len(b.manifests) \in Nat /\ Len(s) = 4 * Len(b.manifests) + 1
      BY <2>1, OfBuild, Elements DEF DeletionOf
    <3> QED BY <3>1, SMTT(30)
  <2>3. \A x \in Closure(d) : \E j \in DOMAIN s : s[j] = <<"remove", x>>
    BY <1>1, <2>1, DeletionRemoves
  <2>4. \A j \in DOMAIN s : /\ s[j][1] \in {"fetch", "remove"} /\ s[j][2] \in Closure(d)
                            /\ s[j][1] = "fetch" => \A i \in 1..(j - 1) : s[i] # <<"remove", s[j][2]>>
    BY <1>1, <2>1, DeletionOrder
  <2> QED BY <2>2, <2>3, <2>4 DEF Deletes
<1>2. ASSUME NEW m \in All, d = m.id PROVE Deletes(d, s)
  <2>1. s = <<<<"fetch", m.id>>, <<"remove", m.config>>, <<"remove", m.layer>>, <<"remove", m.id>>>>
    BY <1>2, OfManifest DEF deleteOrphanedBlobs, deleteManifestBlobs
  <2>2. Closure(d) = {m.id, m.config, m.layer}
    BY <1>2, ClosureOfManifest
  <2>3. s \in Seq(Steps)
    BY DeleteTodo
  <2> HIDE DEF s
  <2>4. /\ DOMAIN s = 1..4 /\ s[1] = <<"fetch", m.id>> /\ s[2] = <<"remove", m.config>>
        /\ s[3] = <<"remove", m.layer>> /\ s[4] = <<"remove", m.id>>
    BY <2>1, SMTT(30)
  <2>5. ASSUME NEW x \in Closure(d) PROVE \E j \in DOMAIN s : s[j] = <<"remove", x>>
    <3>1. 2 \in DOMAIN s /\ 3 \in DOMAIN s /\ 4 \in DOMAIN s
      BY <2>4, SMTT(30)
    <3> QED BY <2>2, <2>4, <2>5, <3>1
  <2>6. ASSUME NEW j \in DOMAIN s
        PROVE  /\ s[j][1] \in {"fetch", "remove"} /\ s[j][2] \in Closure(d)
               /\ s[j][1] = "fetch" => \A i \in 1..(j - 1) : s[i] # <<"remove", s[j][2]>>
    <3>1. j \in {1, 2, 3, 4}
      BY <2>4, SMTT(30)
    <3>2. CASE j = 1
      BY <2>2, <2>4, <3>2, SMTT(30)
    <3>3. CASE j \in {2, 3, 4}
      BY <2>2, <2>4, <3>3, SMTT(30)
    <3> QED BY <3>1, <3>2, <3>3
  <2>7. 1 \in DOMAIN s
    BY <2>4, SMTT(30)
  <2> QED BY <2>3, <2>5, <2>6, <2>7 DEF Deletes
<1> QED BY <1>1, <1>2, TargetIs

-----------------------------------------------------------------------------
(* It leaves nothing behind. *)

LEMMA Worldly ==
  ASSUME world' = world
  PROVE  /\ NoWriters' = NoWriters /\ Shared' = Shared /\ Exclusive' = Exclusive
         /\ \A d : Closure(d)' = Closure(d)
BY WorldIsSteady DEF NoWriters, Shared, Exclusive

\* A step of one call, with no one writing blobs.
LEMMA ReclaimFrame ==
  ASSUME StoreTypes, ReclaimInv, NoWriters, NEW a \in Actor, NEW o, ops' = [ops EXCEPT ![a] = o], world' = world,
         blobs' \subseteq blobs, o.is \in {"idle"} \cup world.ops, RemovesRest(o, blobs'),
         \A d \in reclaimed' : d \in reclaimed \/ Closure(d) \cap blobs' = {}
  PROVE  ReclaimInv'
<1>1. \A d : Closure(d)' = Closure(d)
  BY Worldly
<1>2. /\ \A b \in Actor : ops[b].is \in {"idle"} \cup world.ops /\ RemovesRest(ops[b], blobs)
      /\ \A d \in reclaimed : Closure(d) \cap blobs = {}
  BY DEF ReclaimInv
<1>3. ASSUME NEW b \in Actor PROVE ops'[b].is \in {"idle"} \cup world.ops /\ RemovesRest(ops'[b], blobs')
  <2>1. CASE b = a
    BY <2>1 DEF StoreTypes
  <2>2. CASE b # a
    <3>1. ops'[b] = ops[b]
      BY <2>2 DEF StoreTypes
    <3>2. RemovesRest(ops[b], blobs')
      BY <1>2 DEF RemovesRest
    <3> QED BY <1>2, <3>1, <3>2
  <2> QED BY <2>1, <2>2
<1>4. \A d \in reclaimed' : Closure(d) \cap blobs' = {}
  BY <1>2
<1>5. \A b \in Actor : RemovesRest(ops[b], blobs)'
  BY <1>1, <1>3, ZenonT(30) DEF RemovesRest, Removing, Removes
<1>6. \A b \in Actor : ops'[b].is \in {"idle"} \cup world'.ops
  BY <1>3
<1>7. \A d \in reclaimed' : Closure(d)' \cap blobs' = {}
  BY <1>1, <1>4
<1> QED BY <1>5, <1>6, <1>7 DEF ReclaimInv

LEMMA ReclaimAside ==
  ASSUME StoreTypes, ReclaimInv, NoWriters, NEW a \in Actor, NEW o, ops' = [ops EXCEPT ![a] = o], world' = world,
         blobs' \subseteq blobs, reclaimed' = reclaimed, o.is \in {"idle"} \cup world.ops, ~Removing(o)
  PROVE  ReclaimInv'
<1>1. RemovesRest(o, blobs')
  BY DEF RemovesRest
<1> QED BY <1>1, ReclaimFrame

LEMMA ReclaimReturns ==
  ASSUME StoreTypes, ReclaimInv, NoWriters, NEW a \in Actor, Returns(a), world' = world,
         blobs' \subseteq blobs, reclaimed' = reclaimed
  PROVE  ReclaimInv'
<1>1. ops' = [ops EXCEPT ![a] = Idle] /\ Idle.is = "idle" /\ ~Removing(Idle)
  BY DEF Returns, Idle, Removing
<1> QED BY <1>1, ReclaimAside

LEMMA ReclaimAdvances ==
  ASSUME StoreTypes, ReclaimInv, NoWriters, NEW a \in Actor, NEW todo, Advances(a, todo), world' = world,
         blobs' \subseteq blobs, reclaimed' = reclaimed,
         ops[a].is = "delete" => todo[1][1] \notin {"fetch", "remove"}
  PROVE  ReclaimInv'
<1> DEFINE o == [ops[a] EXCEPT !.todo = todo]
<1>1. o.is = ops[a].is /\ o.todo = todo
  BY DEF StoreTypes, Calls0
<1>2. ops' = [ops EXCEPT ![a] = o]
  BY AdvancesIs
<1> HIDE DEF o
<1>3. o.is \in {"idle"} \cup world.ops
  BY <1>1 DEF ReclaimInv
<1>4. ~Removing(o)
  BY <1>1 DEF Removing
<1> QED BY <1>2, <1>3, <1>4, ReclaimAside, ZenonT(30)

\* The rest of a deletion, after its first step.
LEMMA RestRemoves ==
  ASSUME StoreTypes, ReclaimInv, NoWriters, NEW a \in Actor, Removing(ops[a]), NEW B, B \subseteq blobs,
         \A x \in B : ops[a].todo[1] # <<"remove", x>>
  PROVE  /\ RemovesRest([ops[a] EXCEPT !.todo = Rest(a)], B)
         /\ Rest(a) = <<>> => Closure(ops[a].d) \cap B = {}
         /\ Rest(a) # <<>> => Removing([ops[a] EXCEPT !.todo = Rest(a)])
<1> DEFINE o == [ops[a] EXCEPT !.todo = Rest(a)]
<1>0. ops[a].todo # <<>> /\ ops[a] \in Calls0
  BY SMTT(30) DEF Removing, StoreTypes
<1>1. o.is = ops[a].is /\ o.d = ops[a].d /\ o.todo = Rest(a)
  BY <1>0 DEF Calls0
<1>2. IsRest(ops[a].todo, Rest(a))
  BY <1>0, RestIs
<1> HIDE DEF o
<1>3. \A j \in DOMAIN ops[a].todo : ops[a].todo[j][1] \in {"fetch", "remove"}
  BY DEF ReclaimInv, RemovesRest
<1>4. \A j \in DOMAIN Rest(a) : Rest(a)[j][1] \in {"fetch", "remove"}
  BY <1>2, <1>3 DEF IsRest
<1>5. ASSUME NEW x \in Closure(ops[a].d) \cap B PROVE \E j \in DOMAIN Rest(a) : Rest(a)[j] = <<"remove", x>>
  <2>1. PICK j \in DOMAIN ops[a].todo : ops[a].todo[j] = <<"remove", x>>
    BY DEF ReclaimInv, RemovesRest, Removes
  <2>2. j # 1
    BY <2>1
  <2>3. j - 1 \in DOMAIN Rest(a) /\ (j - 1) + 1 = j
    BY <1>2, <2>2, SMTT(30) DEF IsRest
  <2>4. Rest(a)[j - 1] = ops[a].todo[j]
    BY <1>2, <2>3 DEF IsRest
  <2> QED BY <2>1, <2>3, <2>4
<1>6. RemovesRest(o, B)
  BY <1>1, <1>4, <1>5 DEF RemovesRest, Removes
<1>7. Rest(a) = <<>> => Closure(ops[a].d) \cap B = {}
  BY <1>5, SMTT(30)
<1>8. Rest(a) # <<>> => Removing(o)
  <2>1. Rest(a) # <<>> => 1 \in DOMAIN Rest(a)
    BY <1>2, SMTT(30) DEF IsRest
  <2> QED BY <1>1, <1>4, <2>1 DEF Removing
<1> QED BY <1>6, <1>7, <1>8 DEF o

LEMMA ReclaimCall ==
  ASSUME StoreTypes, ReclaimInv, NoWriters, NEW a \in Actor, Call(a)
  PROVE  ReclaimInv'
<1>1. ASSUME NEW op, NEW d, NEW t, NEW todo, op \in {"tag", "untag", "push", "delete"}, Begins(a, op, d, t, todo),
             todo[1][1] \notin {"fetch", "remove"}, UNCHANGED <<world, blobs, reclaimed>>
      PROVE  ReclaimInv'
  <2> DEFINE o == [is |-> op, d |-> d, t |-> t, todo |-> todo]
  <2>1. o.is = op /\ ~Removing(o)
    BY <1>1 DEF Removing
  <2>2. op \in world.ops /\ ops' = [ops EXCEPT ![a] = o]
    BY <1>1 DEF Begins
  <2> HIDE DEF o
  <2> QED BY <1>1, <2>1, <2>2, ReclaimAside
<1>2. ASSUME NEW op, NEW d, NEW t, NEW todo, Begins(a, op, d, t, todo) PROVE op \notin {"package", "pull"}
  BY <1>2 DEF Begins, NoWriters
<1>3. ASSUME NEW d \in Targets, NEW t \in Tag, TagDigest(a, d, t) PROVE ReclaimInv'
  <2> DEFINE todo == IF d \in known THEN <<<<"tag">>>> ELSE <<<<"fail">>>>
  <2>1. todo[1][1] \notin {"fetch", "remove"}
    OBVIOUS
  <2>2. Begins(a, "tag", d, t, todo) /\ UNCHANGED <<world, blobs, reclaimed>>
    BY <1>3 DEF TagDigest
  <2> HIDE DEF todo
  <2> QED BY <1>1, <2>1, <2>2, SMTT(30)
<1>4. ASSUME NEW d \in Targets, NEW t \in Tag, Push(a, d, t) PROVE ReclaimInv'
  <2> DEFINE todo == IF d \in known THEN <<<<"visit", d>>, <<"tagRemote">>>> ELSE <<<<"fail">>>>
  <2>1. todo[1][1] \notin {"fetch", "remove"}
    OBVIOUS
  <2>2. Begins(a, "push", d, t, todo) /\ UNCHANGED <<world, blobs, reclaimed>>
    BY <1>4 DEF Push
  <2> HIDE DEF todo
  <2> QED BY <1>1, <2>1, <2>2, SMTT(30)
<1>5. ASSUME NEW t \in Tag, DeleteTag(a, t) PROVE ReclaimInv'
  <2> DEFINE todo == <<<<"untag">>>>
  <2>1. todo[1][1] \notin {"fetch", "remove"}
    OBVIOUS
  <2>2. Begins(a, "untag", None, t, todo) /\ UNCHANGED <<world, blobs, reclaimed>>
    BY <1>5 DEF DeleteTag
  <2> HIDE DEF todo
  <2> QED BY <1>1, <2>1, <2>2, SMTT(30)
<1>6. ASSUME NEW t \in Tag, DeleteBuild(a, t) PROVE ReclaimInv'
  <2> DEFINE todo == IF tags[t] = None THEN <<<<"fail">>>> ELSE <<<<"untag">>>>
  <2>1. todo[1][1] \notin {"fetch", "remove"}
    OBVIOUS
  <2>2. Begins(a, "delete", tags[t], t, todo) /\ UNCHANGED <<world, blobs, reclaimed>>
    BY <1>6 DEF DeleteBuild
  <2> HIDE DEF todo
  <2> QED BY <1>1, <2>1, <2>2, SMTT(30)
<1>7. ASSUME NEW b \in world.builds, Package(a, b) PROVE FALSE
  BY <1>2, <1>7 DEF Package
<1>8. ASSUME NEW t \in Tag, Pull(a, t) PROVE FALSE
  BY <1>2, <1>8 DEF Pull
<1> QED BY <1>3, <1>4, <1>5, <1>6, <1>7, <1>8 DEF Call

LEMMA Unwritten ==
  ASSUME ReclaimInv, NoWriters, NEW a \in Actor
  PROVE  ops[a].is \in {"idle"} \cup world.ops /\ ops[a].is \notin {"package", "pull"}
BY DEF ReclaimInv, NoWriters

LEMMA IsDigestReferencedReclaims ==
  ASSUME StoreTypes, ReclaimInv, NoWriters, NEW a \in Actor, isDigestReferenced(a)
  PROVE  ReclaimInv'
<1> DEFINE todo == deleteOrphanedBlobs(ops[a].d)
           o == [ops[a] EXCEPT !.todo = todo]
<1>1. (Returns(a) \/ Advances(a, todo)) /\ UNCHANGED <<world, blobs, reclaimed>>
  BY DEF isDigestReferenced
<1>2. CASE Returns(a)
  BY <1>1, <1>2, ReclaimReturns, SMTT(30)
<1>3. CASE Advances(a, todo)
  <2>1. ops[a].d \in Targets /\ world \in World /\ ops[a] \in Calls0
    BY WhichCall DEF isDigestReferenced, At, StoreTypes
  <2>3. Deletes(ops[a].d, todo)
    BY <2>1, OrphanDeleted
  <2>4. o.is = ops[a].is /\ o.d = ops[a].d /\ o.todo = todo
    BY <2>1 DEF Calls0
  <2> HIDE DEF o, todo
  <2>5. RemovesRest(o, blobs)
    BY <2>3, <2>4 DEF RemovesRest, Removes, Deletes
  <2>6. ops' = [ops EXCEPT ![a] = o]
    BY <1>3, AdvancesIs DEF o
  <2> QED BY Unwritten, <1>1, <2>4, <2>5, <2>6, ReclaimFrame, ZenonT(30)
<1> QED BY <1>1, <1>2, <1>3, SMTT(30)

LEMMA FetchManifestReclaims ==
  ASSUME StoreTypes, ReclaimInv, NoWriters, NEW a \in Actor, FetchManifest(a)
  PROVE  ReclaimInv'
<1>1. ops[a].todo # <<>> /\ Step(a)[1] = "fetch" /\ UNCHANGED <<world, blobs, reclaimed>> /\ (Advances(a, Rest(a)) \/ Returns(a))
  BY DEF FetchManifest, At
<1>2. CASE Returns(a)
  BY <1>1, <1>2, ReclaimReturns
<1>3. CASE Advances(a, Rest(a))
  <2> DEFINE o == [ops[a] EXCEPT !.todo = Rest(a)]
  <2>0. ops[a].is = "delete"
    BY <1>1, WhichCall
  <2>1. Removing(ops[a]) /\ ops[a].todo[1][1] = "fetch" /\ ops[a] \in Calls0
    BY <1>1, <2>0, RestIs, SMTT(30) DEF Removing, IsRest
  <2>2. RemovesRest(o, blobs)
    BY <2>1, RestRemoves, SMTT(30)
  <2>3. o.is = ops[a].is /\ ops' = [ops EXCEPT ![a] = o]
    BY <1>3, <2>1, AdvancesIs, SMTT(30) DEF Calls0
  <2> HIDE DEF o
  <2> QED BY Unwritten, <1>1, <2>2, <2>3, ReclaimFrame
<1> QED BY <1>1, <1>2, <1>3

LEMMA DeleteBlobReclaims ==
  ASSUME StoreTypes, ReclaimInv, NoWriters, NEW a \in Actor, deleteBlob(a)
  PROVE  ReclaimInv'
<1> DEFINE o == [ops[a] EXCEPT !.todo = Rest(a)]
<1>1. /\ ops[a].todo # <<>> /\ Step(a)[1] = "remove" /\ world' = world /\ blobs' = blobs \ {Step(a)[2]}
      /\ \/ Rest(a) = <<>> /\ Returns(a) /\ reclaimed' = reclaimed \cup {ops[a].d}
         \/ Advances(a, Rest(a)) /\ reclaimed' = reclaimed
  BY DEF deleteBlob, At
<1>0. ops[a].is = "delete"
  BY <1>1, WhichCall
<1>2. Removing(ops[a]) /\ ops[a].todo[1] = Step(a) /\ ops[a] \in Calls0
  BY <1>0, <1>1, RestIs, SMTT(30) DEF Removing, IsRest
<1>3. blobs' \subseteq blobs /\ \A x \in blobs' : ops[a].todo[1] # <<"remove", x>>
  BY <1>1, <1>2, SMTT(30)
<1>4. RemovesRest(o, blobs') /\ (Rest(a) = <<>> => Closure(ops[a].d) \cap blobs' = {})
  BY <1>2, <1>3, RestRemoves
<1>5. CASE Advances(a, Rest(a)) /\ reclaimed' = reclaimed
  <2>1. o.is = ops[a].is /\ ops' = [ops EXCEPT ![a] = o]
    BY <1>2, <1>5, AdvancesIs, SMTT(30) DEF Calls0
  <2> HIDE DEF o
  <2> QED BY Unwritten, <1>1, <1>3, <1>4, <1>5, <2>1, ReclaimFrame
<1>6. CASE Rest(a) = <<>> /\ Returns(a) /\ reclaimed' = reclaimed \cup {ops[a].d}
  <2>1. ops' = [ops EXCEPT ![a] = Idle] /\ Idle.is = "idle" /\ RemovesRest(Idle, blobs')
    BY <1>6 DEF Returns, Idle, RemovesRest, Removing
  <2> QED BY <1>1, <1>3, <1>4, <1>6, <2>1, ReclaimFrame, ZenonT(30)
<1> QED BY <1>1, <1>5, <1>6

LEMMA VisitReclaims ==
  ASSUME StoreTypes, ReclaimInv, NoWriters, NEW a \in Actor, Visit(a)
  PROVE  ReclaimInv'
<1> DEFINE d == Step(a)[2]
           todo == [i \in DOMAIN Successors(d) |-> <<"visit", Successors(d)[i]>>] \o <<<<"copy", d>>>> \o Rest(a)
<1>1. /\ ops[a].todo # <<>> /\ Step(a)[1] = "visit" /\ UNCHANGED <<world, blobs, reclaimed>>
      /\ Advances(a, Rest(a)) \/ Returns(a) \/ Advances(a, todo)
  BY DEF Visit, At
<1>2. ops[a].is # "delete"
  BY <1>1, WhichCall
<1> HIDE DEF todo
<1> QED BY <1>1, <1>2, ReclaimReturns, ReclaimAdvances

LEMMA ReclaimStep ==
  ASSUME StoreTypes, ReclaimInv, NoWriters, NEW a \in Actor,
         \/ Put(a) \/ SetTag(a) \/ Untag(a) \/ ListTags(a) \/ isDigestReferenced(a)
         \/ FetchManifest(a) \/ deleteBlob(a) \/ Visit(a) \/ Copy(a) \/ TagRemote(a) \/ Fails(a)
  PROVE  ReclaimInv'
<1>1. CASE SetTag(a) \/ Fails(a)
  BY <1>1, ReclaimReturns DEF SetTag, Fails
<1>2. CASE Put(a)
  <2>1. ops[a].is = "package"
    BY <1>2, WhichCall DEF Put, At
  <2> QED BY Unwritten, <2>1, SMTT(30)
<1>3. CASE Untag(a)
  <2>1. <<<<"list">>>>[1][1] \notin {"fetch", "remove"}
    OBVIOUS
  <2>2. (Returns(a) \/ Advances(a, <<<<"list">>>>)) /\ UNCHANGED <<world, blobs, reclaimed>>
    BY <1>3 DEF Untag
  <2> QED BY <2>1, <2>2, ReclaimReturns, ReclaimAdvances
<1>4. CASE ListTags(a)
  <2> DEFINE todo == <<<<"check", {t \in Tag : tags[t] # None}>>>>
  <2>1. todo[1][1] \notin {"fetch", "remove"}
    OBVIOUS
  <2>2. Advances(a, todo) /\ UNCHANGED <<world, blobs, reclaimed>>
    BY <1>4, SMTT(30) DEF ListTags
  <2> HIDE DEF todo
  <2> QED BY <2>1, <2>2, ReclaimAdvances
<1>5. CASE isDigestReferenced(a)
  BY <1>5, IsDigestReferencedReclaims, SMTT(30)
<1>6. CASE FetchManifest(a)
  BY <1>6, FetchManifestReclaims, SMTT(30)
<1>7. CASE deleteBlob(a)
  BY <1>7, DeleteBlobReclaims
<1>8. CASE Visit(a)
  BY <1>8, VisitReclaims, SMTT(30)
<1>9. CASE Copy(a)
  <2>1. ops[a].is = "push"
    BY Unwritten, <1>9, WhichCall DEF Copy, At
  <2>2. UNCHANGED <<world, blobs, reclaimed>> /\ Advances(a, Rest(a))
    BY <1>9, <2>1 DEF Copy
  <2> QED BY <2>1, <2>2, ReclaimAdvances, SMTT(30)
<1>10. CASE TagRemote(a)
  <2>1. ops[a].is = "push"
    BY <1>10, WhichCall DEF TagRemote, At
  <2>2. UNCHANGED <<world, blobs, reclaimed>> /\ (Advances(a, Rest(a)) \/ Returns(a))
    BY <1>10 DEF TagRemote
  <2> QED BY <2>1, <2>2, ReclaimAdvances, ReclaimReturns
<1> QED BY <1>1, <1>2, <1>3, <1>4, <1>5, <1>6, <1>7, <1>8, <1>9, <1>10, SMTT(30)

-----------------------------------------------------------------------------
(* Under the mutex, the tags stay complete. *)

LEMMA SelfInClosure == \A d : d \in Closure(d)
BY DEF Closure

\* Whoever holds the mutex is the only one to tag or to delete.
LEMMA Alone ==
  ASSUME Exclusive, ExclusiveInv, NEW a \in Actor, Locked(ops[a]), NEW b \in Actor, b # a
  PROVE  ~Locked(ops[b]) /\ ~Removing(ops[b])
BY SMTT(30) DEF ExclusiveInv, Locked, Removing

\* What the mutex is after a step of a that makes its call o.
Hands(a, o) == (mu' = a <=> Locked(o)) /\ \A b \in Actor \ {a} : mu' = b <=> mu = b

AtCheck(o) == o.todo # <<>> /\ Head(o.todo)[1] = "check"
Listed(o, T) == AtCheck(o) => Head(o.todo)[2] = T

LEMMA HandsReturns ==
  ASSUME NEW a \in Actor, Returns(a)
  PROVE  Hands(a, Idle) /\ ops' = [ops EXCEPT ![a] = Idle] /\ ~Removing(Idle) /\ ~AtCheck(Idle)
BY ActorAssumption DEF Returns, Hands, Idle, Locked, Removing, AtCheck

LEMMA HandsKept ==
  ASSUME Exclusive, ExclusiveInv, NEW a \in Actor, NEW o, mu' = mu, o.is = ops[a].is
  PROVE  Hands(a, o)
BY DEF Hands, Locked, ExclusiveInv

\* The parts of the invariant after a step of a that makes its call o.
LEMMA ExclusiveParts ==
  ASSUME StoreTypes, Exclusive, ExclusiveInv, NEW a \in Actor, NEW o, ops' = [ops EXCEPT ![a] = o], world' = world, Hands(a, o),
         NEW T, T = {t \in Tag : tags'[t] # None}, Listed(o, T), \A b \in Actor \ {a} : Listed(ops[b], T),
         \A d \in Targets : \/ Whole(d, blobs') \/ (Removing(o) /\ o.d = d)
                            \/ \E b \in Actor \ {a} : Removing(ops[b]) /\ ops[b].d = d,
         Removing(o) => Orderly(o, blobs') /\ \A t \in Tag : tags'[t] # o.d,
         \A b \in Actor \ {a} : Removing(ops[b]) => Orderly(ops[b], blobs') /\ \A t \in Tag : tags'[t] # ops[b].d,
         \A t \in Tag : tags'[t] # None => Closure(tags'[t]) \subseteq blobs'
  PROVE  ExclusiveInv'
<1>0. DOMAIN ops = Actor
  BY DEF StoreTypes
<1>1. ops'[a] = o /\ \A b \in Actor \ {a} : ops'[b] = ops[b]
  BY <1>0
<1>2. Targets' = Targets /\ \A d : Closure(d)' = Closure(d)
  BY WorldIsSteady
<1>3. ASSUME NEW b \in Actor PROVE mu' = b <=> Locked(ops'[b])
  <2>1. CASE b = a
    BY <1>1, <2>1 DEF Hands
  <2>2. CASE b # a
    <3>1. mu' = b <=> mu = b
      BY <2>2 DEF Hands
    <3>2. mu = b <=> Locked(ops[b])
      BY DEF ExclusiveInv
    <3>3. ops'[b] = ops[b]
      BY <1>1, <2>2
    <3> QED BY <3>1, <3>2, <3>3
  <2> QED BY <2>1, <2>2
<1>4. ASSUME NEW b \in Actor PROVE Listed(ops'[b], T)
  BY <1>1
<1>5. ASSUME NEW b \in Actor PROVE Removing(ops'[b]) => Orderly(ops'[b], blobs') /\ \A t \in Tag : tags'[t] # ops'[b].d
  BY <1>1
<1>6. ASSUME NEW d \in Targets PROVE Whole(d, blobs') \/ \E b \in Actor : Removing(ops'[b]) /\ ops'[b].d = d
  BY <1>1
<1>7. \A b \in Actor : (mu = b <=> Locked(ops[b]))'
  BY <1>3 DEF Locked
<1>8. \A b \in Actor : (At(b, "check") => Step(b)[2] = {t \in Tag : tags[t] # None})'
  BY <1>4, ZenonT(30) DEF At, Step, Listed, AtCheck
<1>9. \A b \in Actor : (Removing(ops[b]) => Orderly(ops[b], blobs) /\ \A t \in Tag : tags[t] # ops[b].d)'
  <2> SUFFICES ASSUME NEW b \in Actor, Removing(ops[b])'
              PROVE  (Orderly(ops[b], blobs) /\ \A t \in Tag : tags[t] # ops[b].d)'
    OBVIOUS
  <2>1. Removing(ops'[b])
    BY DEF Removing
  <2>2. Orderly(ops'[b], blobs') /\ \A t \in Tag : tags'[t] # ops'[b].d
    BY <1>5, <2>1
  <2>3. Orderly(ops[b], blobs)'
    BY <1>2, <2>2 DEF Orderly
  <2> QED BY <2>2, <2>3
<1>10. (\A d \in Targets : Whole(d, blobs) \/ \E b \in Actor : Removing(ops[b]) /\ ops[b].d = d)'
  BY <1>2, <1>6 DEF Removing, Whole
<1>11. TagsAreComplete'
  BY <1>2 DEF TagsAreComplete
<1> QED BY <1>7, <1>8, <1>9, <1>10, <1>11 DEF ExclusiveInv

LEMMA ExclusiveNow ==
  ASSUME Exclusive, ExclusiveInv
  PROVE  /\ \A b \in Actor : Listed(ops[b], {t \in Tag : tags[t] # None})
         /\ \A b \in Actor : Removing(ops[b]) => Orderly(ops[b], blobs) /\ \A t \in Tag : tags[t] # ops[b].d
         /\ \A t \in Tag : tags[t] # None => Closure(tags[t]) \subseteq blobs
         /\ \A d \in Targets : Whole(d, blobs) \/ \E b \in Actor : Removing(ops[b]) /\ ops[b].d = d
BY DEF ExclusiveInv, Listed, AtCheck, At, Step, TagsAreComplete

\* A step that changes neither blobs nor tags, of a call that removes nothing.
LEMMA ExclusiveAside ==
  ASSUME StoreTypes, Exclusive, ExclusiveInv, NEW a \in Actor, NEW o, ops' = [ops EXCEPT ![a] = o], world' = world, Hands(a, o),
         blobs' = blobs, tags' = tags, ~Removing(ops[a]), ~Removing(o), Listed(o, {t \in Tag : tags[t] # None})
  PROVE  ExclusiveInv'
<1> DEFINE T == {t \in Tag : tags[t] # None}
<1>1. T = {t \in Tag : tags'[t] # None}
  OBVIOUS
<1>2. \A b \in Actor \ {a} : Listed(ops[b], T)
  BY ExclusiveNow
<1>3. \A d \in Targets : \/ Whole(d, blobs') \/ \E b \in Actor \ {a} : Removing(ops[b]) /\ ops[b].d = d
  BY ExclusiveNow
<1>4. \A b \in Actor \ {a} : Removing(ops[b]) => Orderly(ops[b], blobs') /\ \A t \in Tag : tags'[t] # ops[b].d
  BY ExclusiveNow
<1>5. \A t \in Tag : tags'[t] # None => Closure(tags'[t]) \subseteq blobs'
  BY ExclusiveNow
<1> HIDE DEF T
<1>6. Listed(o, T)
  BY DEF T
<1> QED BY <1>1, <1>2, <1>3, <1>4, <1>5, <1>6, ExclusiveParts, ZenonT(30)

\* A step of the call that holds the mutex, which changes the tags only.
LEMMA ExclusiveTags ==
  ASSUME StoreTypes, Exclusive, ExclusiveInv, NEW a \in Actor, NEW o, ops' = [ops EXCEPT ![a] = o], world' = world, Hands(a, o),
         Locked(ops[a]), blobs' = blobs, ~Removing(ops[a]), ~Removing(o), ~AtCheck(o),
         \A t \in Tag : tags'[t] # None => Closure(tags'[t]) \subseteq blobs
  PROVE  ExclusiveInv'
<1> DEFINE T == {t \in Tag : tags'[t] # None}
<1>0. \A b \in Actor \ {a} : ~Locked(ops[b]) /\ ~Removing(ops[b])
  BY Alone
<1>1. \A b \in Actor \ {a} : ~AtCheck(ops[b])
  <2> SUFFICES ASSUME NEW b \in Actor \ {a}, AtCheck(ops[b]) PROVE FALSE
    OBVIOUS
  <2>1. ops[b].is = "delete"
    BY WhichCall DEF AtCheck, Step
  <2> QED BY <1>0, <2>1, SMTT(30) DEF Locked
<1>2. Listed(o, T) /\ \A b \in Actor \ {a} : Listed(ops[b], T)
  BY <1>1 DEF Listed
<1>3. \A d \in Targets : Whole(d, blobs')
  BY <1>0, ExclusiveNow
<1> HIDE DEF T
<1>4. T = {t \in Tag : tags'[t] # None}
  BY DEF T
<1>5. \A t \in Tag : tags'[t] # None => Closure(tags'[t]) \subseteq blobs'
  OBVIOUS
<1> QED BY <1>0, <1>2, <1>3, <1>4, <1>5, ExclusiveParts, ZenonT(30)

LEMMA HandsBegins ==
  ASSUME Exclusive, ExclusiveInv, NEW a \in Actor, NEW op, NEW d, NEW t, NEW todo, Begins(a, op, d, t, todo),
         IF op \in {"tag", "untag", "delete"} THEN Locks(a) ELSE mu' = mu
  PROVE  Hands(a, [is |-> op, d |-> d, t |-> t, todo |-> todo]) /\ ~Removing(ops[a])
<1>1. ops[a].is = "idle"
  <2>1. ops[a] = Idle
    BY DEF Begins
  <2>2. Idle.is = "idle"
    BY DEF Idle
  <2> QED BY <2>1, <2>2
<1>2. mu # a
  BY <1>1 DEF ExclusiveInv, Locked
<1> QED BY <1>1, <1>2, ActorAssumption DEF Hands, Locks, Exclusive, Removing, Locked

LEMMA ExclusiveCall ==
  ASSUME StoreTypes, Exclusive, ExclusiveInv, NEW a \in Actor, Call(a)
  PROVE  ExclusiveInv'
<1>1. ASSUME NEW op, NEW d, NEW t, NEW todo, Begins(a, op, d, t, todo), Head(todo)[1] \notin {"check", "fetch", "remove"},
             Head(todo) = todo[1], IF op \in {"tag", "untag", "delete"} THEN Locks(a) ELSE mu' = mu, UNCHANGED <<world, blobs, tags>>
      PROVE  ExclusiveInv'
  <2> DEFINE o == [is |-> op, d |-> d, t |-> t, todo |-> todo]
  <2>1. ~Removing(o) /\ ~AtCheck(o)
    BY <1>1 DEF Removing, AtCheck
  <2>2. Hands(a, o) /\ ~Removing(ops[a])
    BY <1>1, HandsBegins
  <2>3. ops' = [ops EXCEPT ![a] = o]
    BY <1>1 DEF Begins
  <2> HIDE DEF o
  <2>4. Listed(o, {u \in Tag : tags[u] # None})
    BY <2>1 DEF Listed
  <2> QED BY <1>1, <2>1, <2>2, <2>3, <2>4, ExclusiveAside, ZenonT(30)
<1>2. ASSUME NEW op, NEW d, NEW t, NEW todo, Begins(a, op, d, t, todo) PROVE op \notin {"package", "pull"}
  BY <1>2 DEF Begins, Exclusive, NoWriters
<1>3. ASSUME NEW d \in Targets, NEW t \in Tag, TagDigest(a, d, t) PROVE ExclusiveInv'
  <2> DEFINE todo == IF d \in known THEN <<<<"tag">>>> ELSE <<<<"fail">>>>
  <2>1. Head(todo)[1] \notin {"check", "fetch", "remove"} /\ Head(todo) = todo[1]
    BY SMTT(30)
  <2>2. Begins(a, "tag", d, t, todo) /\ Locks(a) /\ UNCHANGED <<world, blobs, tags>>
    BY <1>3 DEF TagDigest
  <2> HIDE DEF todo
  <2> QED BY <1>1, <2>1, <2>2, SMTT(30)
<1>4. ASSUME NEW d \in Targets, NEW t \in Tag, Push(a, d, t) PROVE ExclusiveInv'
  <2> DEFINE todo == IF d \in known THEN <<<<"visit", d>>, <<"tagRemote">>>> ELSE <<<<"fail">>>>
  <2>1. Head(todo)[1] \notin {"check", "fetch", "remove"} /\ Head(todo) = todo[1]
    BY SMTT(30)
  <2>2. Begins(a, "push", d, t, todo) /\ UNCHANGED <<world, blobs, tags, mu>>
    BY <1>4 DEF Push
  <2> HIDE DEF todo
  <2> QED BY <1>1, <2>1, <2>2, SMTT(30)
<1>5. ASSUME NEW t \in Tag, DeleteTag(a, t) PROVE ExclusiveInv'
  <2> DEFINE todo == <<<<"untag">>>>
  <2>1. Head(todo)[1] \notin {"check", "fetch", "remove"} /\ Head(todo) = todo[1]
    BY SMTT(30)
  <2>2. Begins(a, "untag", None, t, todo) /\ Locks(a) /\ UNCHANGED <<world, blobs, tags>>
    BY <1>5 DEF DeleteTag
  <2> HIDE DEF todo
  <2> QED BY <1>1, <2>1, <2>2, SMTT(30)
<1>6. ASSUME NEW t \in Tag, DeleteBuild(a, t) PROVE ExclusiveInv'
  <2> DEFINE todo == IF tags[t] = None THEN <<<<"fail">>>> ELSE <<<<"untag">>>>
  <2>1. Head(todo)[1] \notin {"check", "fetch", "remove"} /\ Head(todo) = todo[1]
    BY SMTT(30)
  <2>2. Begins(a, "delete", tags[t], t, todo) /\ Locks(a) /\ UNCHANGED <<world, blobs, tags>>
    BY <1>6 DEF DeleteBuild
  <2> HIDE DEF todo
  <2> QED BY <1>1, <2>1, <2>2, SMTT(30)
<1>7. ASSUME NEW b \in world.builds, Package(a, b) PROVE FALSE
  BY <1>2, <1>7 DEF Package
<1>8. ASSUME NEW t \in Tag, Pull(a, t) PROVE FALSE
  BY <1>2, <1>8, SMTT(30) DEF Pull
<1> QED BY <1>3, <1>4, <1>5, <1>6, <1>7, <1>8 DEF Call

\* A call that ends without having removed anything.
LEMMA ExclusiveReturns ==
  ASSUME StoreTypes, Exclusive, ExclusiveInv, NEW a \in Actor, Returns(a), UNCHANGED <<world, blobs, tags>>, ~Removing(ops[a])
  PROVE  ExclusiveInv'
<1>1. Listed(Idle, {u \in Tag : tags[u] # None})
  BY HandsReturns DEF Listed
<1> QED BY <1>1, HandsReturns, ExclusiveAside, SMTT(30)

LEMMA ExclusivePush ==
  ASSUME StoreTypes, Exclusive, ExclusiveInv, NEW a \in Actor, NEW todo, Advances(a, todo), UNCHANGED <<world, blobs, tags, mu>>,
         ops[a].is = "push", CallOK([ops[a] EXCEPT !.todo = todo])
  PROVE  ExclusiveInv'
<1> DEFINE o == [ops[a] EXCEPT !.todo = todo]
<1>1. o.is = "push" /\ ops' = [ops EXCEPT ![a] = o] /\ CallOK(o)
  BY AdvancesIs, SMTT(30) DEF StoreTypes, Calls0
<1> HIDE DEF o
<1>2. ~Removing(o) /\ ~Removing(ops[a])
  BY <1>1 DEF Removing
<1>3. ~AtCheck(o)
  <2>1. o.todo \in Seq(Steps) /\ \A j \in DOMAIN o.todo : o.todo[j][1] # "check"
    BY <1>1, LabelsAre DEF CallOK, Calls0
  <2> QED BY <2>1, SMTT(30) DEF AtCheck
<1>4. Listed(o, {u \in Tag : tags[u] # None})
  BY <1>3 DEF Listed
<1>5. Hands(a, o)
  BY <1>1, HandsKept
<1> QED BY <1>1, <1>2, <1>4, <1>5, ExclusiveAside, ZenonT(30)

\* The removal of a build begins: it is all there, and no tag names it.
LEMMA ExclusiveCheck ==
  ASSUME StoreTypes, Exclusive, ExclusiveInv, NEW a \in Actor, isDigestReferenced(a)
  PROVE  ExclusiveInv'
<1> DEFINE d == ops[a].d
           todo == deleteOrphanedBlobs(d)
           o == [ops[a] EXCEPT !.todo = todo]
           T == {t \in Tag : tags[t] # None}
<1>1. /\ ops[a].todo # <<>> /\ Step(a)[1] = "check" /\ UNCHANGED <<world, blobs, tags>>
      /\ \/ Returns(a)
         \/ /\ Advances(a, todo) /\ mu' = mu /\ d \in blobs
            /\ \A t \in Step(a)[2] : tags[t] # d
  BY DEF isDigestReferenced, At
<1>2. ops[a].is = "delete" /\ d \in Targets /\ world \in World /\ ops[a] \in Calls0 /\ Step(a) = ops[a].todo[1]
  BY <1>1, WhichCall, RestIs DEF StoreTypes
<1>3. ~Removing(ops[a])
  BY <1>1, <1>2 DEF Removing
<1>4. CASE Returns(a)
  BY <1>1, <1>3, <1>4, ExclusiveReturns
<1>5. CASE Advances(a, todo) /\ mu' = mu /\ d \in blobs /\ \A t \in Step(a)[2] : tags[t] # d
  <2>2. Deletes(d, todo)
    BY <1>2, OrphanDeleted
  <2>3. o.is = "delete" /\ o.d = d /\ o.todo = todo
    BY <1>2, SMTT(30) DEF Calls0
  <2>4. ops' = [ops EXCEPT ![a] = o]
    BY <1>5, AdvancesIs, SMTT(30)
  <2>5. \A c \in Actor \ {a} : ~Locked(ops[c]) /\ ~Removing(ops[c])
    BY <1>2, Alone DEF Locked
  <2>6. Closure(d) \subseteq blobs
    <3>1. Whole(d, blobs)
      BY <1>2, <1>3, <2>5, ExclusiveNow
    <3> QED BY <1>5, <3>1 DEF Whole
  <2>7. \A t \in Tag : tags[t] # d
    <3>1. Step(a)[2] = T
      BY <1>1 DEF ExclusiveInv, At
    <3>2. d # None
      BY <1>2, TargetIs
    <3> QED BY <1>5, <3>1, <3>2
  <2> HIDE DEF o, todo, d
  <2>8. \A j \in DOMAIN todo : /\ todo[j][1] \in {"fetch", "remove"} /\ todo[j][2] \in Closure(d)
                               /\ todo[j][1] = "fetch" => \A i \in 1..(j - 1) : todo[i] # <<"remove", todo[j][2]>>
    BY <2>2 DEF Deletes
  <2>9. Orderly(o, blobs)
    BY <2>3, <2>6, <2>8 DEF Orderly
  <2>10. Removing(o)
    <3>1. 1 \in DOMAIN todo
      BY <2>2 DEF Deletes
    <3> QED BY <2>3, <2>8, <3>1 DEF Removing
  <2>11. Listed(o, T)
    <3>1. ~AtCheck(o)
      <4>1. todo \in Seq(Steps)
        BY <2>2 DEF Deletes
      <4> QED BY <2>3, <2>8, <4>1, SMTT(30) DEF AtCheck
    <3> QED BY <3>1 DEF Listed
  <2>12. Hands(a, o)
    BY <1>2, <1>5, <2>3, HandsKept
  <2>13. \A e \in Targets : \/ Whole(e, blobs') \/ (Removing(o) /\ o.d = e)
                            \/ \E c \in Actor \ {a} : Removing(ops[c]) /\ ops[c].d = e
    BY <1>1, <1>3, <2>5, ExclusiveNow
  <2>14. T = {t \in Tag : tags'[t] # None} /\ \A c \in Actor \ {a} : Listed(ops[c], T)
    BY <1>1, ExclusiveNow
  <2>15. \A t \in Tag : tags'[t] # None => Closure(tags'[t]) \subseteq blobs'
    BY <1>1, ExclusiveNow
  <2>16. (Removing(o) => Orderly(o, blobs') /\ \A t \in Tag : tags'[t] # o.d) /\ world' = world
    BY <1>1, <2>3, <2>7, <2>9
  <2>17. \A c \in Actor \ {a} : Removing(ops[c]) => Orderly(ops[c], blobs') /\ \A t \in Tag : tags'[t] # ops[c].d
    BY <2>5
  <2> HIDE DEF T
  <2> QED BY <2>4, <2>11, <2>12, <2>13, <2>14, <2>15, <2>16, <2>17, ExclusiveParts, ZenonT(30)
<1> QED BY <1>1, <1>4, <1>5

\* What is left of a removal is in order.
LEMMA RestOrderly ==
  ASSUME NEW o \in Calls0, NEW rest, IsRest(o.todo, rest), NEW B, NEW C, Orderly(o, B),
         \A x \in B \ C : o.todo[1] = <<"remove", x>>
  PROVE  Orderly([o EXCEPT !.todo = rest], C)
<1> DEFINE p == [o EXCEPT !.todo = rest]
<1>1. p.d = o.d /\ p.todo = rest
  BY DEF Calls0
<1> HIDE DEF p
<1>2. ASSUME NEW j \in DOMAIN rest
      PROVE  /\ rest[j][1] = "remove" => rest[j][2] \in Closure(o.d)
             /\ rest[j][1] = "fetch" => rest[j][2] \in C /\ \A i \in 1..(j - 1) : rest[i] # <<"remove", rest[j][2]>>
  <2>1. j \in Nat /\ j >= 1 /\ j + 1 \in DOMAIN o.todo /\ rest[j] = o.todo[j + 1]
    BY SMTT(30) DEF IsRest
  <2>2. rest[j][1] = "remove" => rest[j][2] \in Closure(o.d)
    BY <2>1 DEF Orderly
  <2>3. ASSUME rest[j][1] = "fetch"
        PROVE  rest[j][2] \in B /\ \A i \in 1..j : o.todo[i] # <<"remove", rest[j][2]>>
    <3>1. 1..((j + 1) - 1) = 1..j
      BY <2>1, SMTT(30)
    <3> QED BY <2>1, <2>3, <3>1 DEF Orderly
  <2>4. ASSUME rest[j][1] = "fetch" PROVE rest[j][2] \in C
    <3>1. 1 \in 1..j
      BY <2>1, SMTT(30)
    <3> QED BY <2>3, <2>4, <3>1, SMTT(30)
  <2>5. ASSUME rest[j][1] = "fetch", NEW i \in 1..(j - 1) PROVE rest[i] # <<"remove", rest[j][2]>>
    <3>1. i + 1 \in 1..j /\ i \in DOMAIN rest
      BY <2>1, SMTT(30) DEF IsRest
    <3>2. rest[i] = o.todo[i + 1]
      BY <3>1, SMTT(30) DEF IsRest
    <3> QED BY <2>3, <2>5, <3>1, <3>2
  <2> QED BY <2>2, <2>4, <2>5
<1>3. Orderly(p, C)
  BY <1>1, <1>2 DEF Orderly
<1> QED BY <1>3, SMTT(30) DEF p

\* A step of a removal: it takes a blob of its own build, or none.
LEMMA ExclusiveRemoves ==
  ASSUME StoreTypes, ReclaimInv, Exclusive, ExclusiveInv, NEW a \in Actor, Removing(ops[a]), UNCHANGED <<world, tags>>,
         blobs' \subseteq blobs, blobs \ blobs' \subseteq Closure(ops[a].d),
         \A x \in blobs \ blobs' : ops[a].todo[1] = <<"remove", x>>,
         \A x \in blobs' : ops[a].todo[1] # <<"remove", x>>,
         (Advances(a, Rest(a)) /\ mu' = mu) \/ (Rest(a) = <<>> /\ Returns(a))
  PROVE  ExclusiveInv'
<1> DEFINE d == ops[a].d
           p == [ops[a] EXCEPT !.todo = Rest(a)]
           T == {t \in Tag : tags[t] # None}
<1>0. ops[a].todo # <<>> /\ ops[a] \in Calls0 /\ world \in World /\ NoWriters
  BY SMTT(30) DEF Removing, StoreTypes, Exclusive
<1>1. p.is = ops[a].is /\ p.d = d /\ p.todo = Rest(a)
  BY <1>0 DEF Calls0
<1>2. IsRest(ops[a].todo, Rest(a)) /\ Step(a) = ops[a].todo[1]
  BY <1>0, RestIs
<1>3. d \in Targets
  <2>1. Step(a)[1] \in {"fetch", "remove"}
    BY <1>2 DEF Removing
  <2> QED BY <1>0, <2>1, WhichCall
<1>4. Orderly(ops[a], blobs) /\ \A t \in Tag : tags[t] # d
  BY ExclusiveNow
<1>5. Orderly(p, blobs')
  BY <1>0, <1>2, <1>4, RestOrderly, ZenonT(30)
<1>6. (Rest(a) = <<>> => Closure(d) \cap blobs' = {}) /\ (Rest(a) # <<>> => Removing(p)) /\ RemovesRest(p, blobs')
  BY <1>0, RestRemoves, SMTT(30)
<1>7. \A c \in Actor \ {a} : ~Locked(ops[c]) /\ ~Removing(ops[c])
  BY Alone DEF Removing, Locked
<1>8. \A e \in Targets : e # d => Whole(e, blobs')
  <2> SUFFICES ASSUME NEW e \in Targets, e # d PROVE Whole(e, blobs')
    OBVIOUS
  <2>1. Whole(e, blobs)
    BY <1>7, ExclusiveNow, ZenonT(30)
  <2>2. Closure(d) \cap Closure(e) = {}
    BY <1>0, <1>3, TargetsDiffer DEF Exclusive
  <2>3. e \in Closure(e)
    BY SelfInClosure
  <2> QED BY <2>1, <2>2, <2>3 DEF Whole
<1>9. \A t \in Tag : tags[t] # None => Closure(tags[t]) \subseteq blobs'
  <2> SUFFICES ASSUME NEW t \in Tag, tags[t] # None PROVE Closure(tags[t]) \subseteq blobs'
    OBVIOUS
  <2>1. tags[t] \in Targets /\ tags[t] # d
    BY <1>4 DEF StoreTypes
  <2>2. Closure(d) \cap Closure(tags[t]) = {}
    BY <1>0, <1>3, <2>1, TargetsDiffer DEF Exclusive
  <2>3. Closure(tags[t]) \subseteq blobs
    BY ExclusiveNow
  <2> QED BY <2>2, <2>3
<1>10. \A c \in Actor \ {a} : Listed(ops[c], T)
  BY ExclusiveNow, ZenonT(30)
<1>11. T = {t \in Tag : tags'[t] # None} /\ world' = world
  OBVIOUS
<1>12. \A c \in Actor \ {a} : Removing(ops[c]) => Orderly(ops[c], blobs') /\ \A t \in Tag : tags'[t] # ops[c].d
  BY <1>7
<1>13. \A t \in Tag : tags'[t] # None => Closure(tags'[t]) \subseteq blobs'
  BY <1>9
<1> HIDE DEF T
<1>14. CASE Advances(a, Rest(a)) /\ mu' = mu
  <2>1. ops' = [ops EXCEPT ![a] = p]
    BY <1>14, AdvancesIs
  <2>2. Hands(a, p)
    BY <1>1, <1>14, HandsKept, ZenonT(30)
  <2>3. Listed(p, T)
    <3>1. ~AtCheck(p)
      <4>1. \A j \in DOMAIN ops[a].todo : ops[a].todo[j][1] \in {"fetch", "remove"}
        BY <1>0 DEF ReclaimInv, RemovesRest
      <4>2. Rest(a) \in Seq(Steps) /\ \A j \in DOMAIN Rest(a) : Rest(a)[j][1] \in {"fetch", "remove"}
        BY <1>2, <4>1 DEF IsRest
      <4> HIDE DEF p
      <4> QED BY <1>1, <4>2, SMTT(30) DEF AtCheck
    <3> QED BY <3>1 DEF Listed
  <2> HIDE DEF p, d
  <2>4. \A e \in Targets : \/ Whole(e, blobs') \/ (Removing(p) /\ p.d = e)
                           \/ \E c \in Actor \ {a} : Removing(ops[c]) /\ ops[c].d = e
    BY <1>1, <1>6, <1>8, SelfInClosure DEF Whole
  <2>5. Removing(p) => Orderly(p, blobs') /\ \A t \in Tag : tags'[t] # p.d
    BY <1>1, <1>4, <1>5
  <2> QED BY <1>10, <1>11, <1>12, <1>13, <2>1, <2>2, <2>3, <2>4, <2>5, ExclusiveParts, ZenonT(30)
<1>15. CASE Rest(a) = <<>> /\ Returns(a)
  <2>1. Hands(a, Idle) /\ ops' = [ops EXCEPT ![a] = Idle] /\ ~Removing(Idle) /\ Listed(Idle, T)
    BY <1>15, HandsReturns DEF Listed
  <2> HIDE DEF d
  <2>2. \A e \in Targets : \/ Whole(e, blobs') \/ (Removing(Idle) /\ Idle.d = e)
                           \/ \E c \in Actor \ {a} : Removing(ops[c]) /\ ops[c].d = e
    <3>1. d \notin blobs'
      BY <1>6, <1>15, SelfInClosure
    <3> QED BY <1>8, <3>1 DEF Whole
  <2>3. Removing(Idle) => Orderly(Idle, blobs') /\ \A t \in Tag : tags'[t] # Idle.d
    BY <2>1
  <2> QED BY <1>10, <1>11, <1>12, <1>13, <2>1, <2>2, <2>3, ExclusiveParts, ZenonT(30)
<1> QED BY <1>14, <1>15

LEMMA NoWriter ==
  ASSUME StoreTypes, ReclaimInv, Exclusive, NEW a \in Actor
  PROVE  ops[a].is \notin {"package", "pull"} /\ ops[a] \in Calls0
BY DEF ReclaimInv, Exclusive, NoWriters, StoreTypes

LEMMA AtIs ==
  ASSUME StoreTypes, NEW a \in Actor, NEW s, At(a, s)
  PROVE  ops[a].todo # <<>> /\ Step(a)[1] = s /\ Step(a) = ops[a].todo[1] /\ 1 \in DOMAIN ops[a].todo
BY RestIs, SMTT(30) DEF At, IsRest

LEMMA PutExclusive ==
  ASSUME StoreTypes, ReclaimInv, Exclusive, ExclusiveInv, NEW a \in Actor, Put(a)
  PROVE  ExclusiveInv'
<1>1. ops[a].is = "package"
  BY WhichCall DEF Put, At
<1> QED BY NoWriter, <1>1

LEMMA SetTagExclusive ==
  ASSUME StoreTypes, ReclaimInv, Exclusive, ExclusiveInv, NEW a \in Actor, SetTag(a)
  PROVE  ExclusiveInv'
<1>0. ops[a].todo # <<>> /\ Step(a)[1] = "tag" /\ Step(a) = ops[a].todo[1]
  BY AtIs DEF SetTag
<1>1. ops[a].is = "tag" /\ ops[a].t \in Tag /\ ops[a].d \in Targets
  <2>1. ops[a].is = "tag" /\ ops[a].t \in Tag
    BY NoWriter, <1>0, WhichCall
  <2>2. CallOK(ops[a])
    BY DEF StoreTypes
  <2> QED BY <2>1, <2>2, SMTT(30) DEF CallOK
<1>2. Locked(ops[a]) /\ ~Removing(ops[a])
  BY <1>1, SMTT(30) DEF Locked, Removing
<1>3. ops[a].d \in blobs => Closure(ops[a].d) \subseteq blobs
  <2>1. \A b \in Actor : ~Removing(ops[b])
    BY <1>2, Alone, SMTT(30)
  <2>2. Whole(ops[a].d, blobs)
    BY <1>1, <2>1, ExclusiveNow
  <2> QED BY <2>2 DEF Whole
<1>4. tags' = (IF ops[a].d \in blobs THEN [tags EXCEPT ![ops[a].t] = ops[a].d] ELSE tags) /\ Returns(a) /\ UNCHANGED <<world, blobs>>
  BY DEF SetTag
<1>5. \A t \in Tag : tags'[t] # None => Closure(tags'[t]) \subseteq blobs
  BY <1>1, <1>3, <1>4, ExclusiveNow, SMTT(30) DEF StoreTypes
<1> QED BY <1>2, <1>4, <1>5, HandsReturns, ExclusiveTags

LEMMA UntagExclusive ==
  ASSUME StoreTypes, ReclaimInv, Exclusive, ExclusiveInv, NEW a \in Actor, Untag(a)
  PROVE  ExclusiveInv'
<1>0. ops[a].todo # <<>> /\ Step(a)[1] = "untag" /\ Step(a) = ops[a].todo[1]
  BY AtIs DEF Untag
<1>1. ops[a].is \in {"untag", "delete"} /\ ops[a].t \in Tag
  BY <1>0, WhichCall
<1>2. Locked(ops[a]) /\ ~Removing(ops[a])
  BY <1>0, <1>1 DEF Locked, Removing
<1>3. /\ tags' = [tags EXCEPT ![ops[a].t] = None] /\ UNCHANGED <<world, blobs>>
      /\ Returns(a) \/ (Advances(a, <<<<"list">>>>) /\ mu' = mu)
  BY DEF Untag
<1>4. \A t \in Tag : tags'[t] # None => Closure(tags'[t]) \subseteq blobs
  BY <1>1, <1>3, ExclusiveNow DEF StoreTypes
<1>5. CASE Returns(a)
  BY <1>2, <1>3, <1>4, <1>5, HandsReturns, ExclusiveTags
<1>6. CASE Advances(a, <<<<"list">>>>) /\ mu' = mu
  <2> DEFINE o == [ops[a] EXCEPT !.todo = <<<<"list">>>>]
  <2>1. o.is = ops[a].is /\ o.todo = <<<<"list">>>> /\ ops' = [ops EXCEPT ![a] = o]
    BY NoWriter, <1>6, AdvancesIs DEF Calls0
  <2> HIDE DEF o
  <2>2. ~Removing(o) /\ ~AtCheck(o)
    BY <2>1, SMTT(30) DEF Removing, AtCheck
  <2>3. Hands(a, o)
    BY <1>6, <2>1, HandsKept
  <2> QED BY <1>2, <1>3, <1>4, <2>1, <2>2, <2>3, ExclusiveTags, ZenonT(30)
<1> QED BY <1>3, <1>5, <1>6

LEMMA ListTagsExclusive ==
  ASSUME StoreTypes, ReclaimInv, Exclusive, ExclusiveInv, NEW a \in Actor, ListTags(a)
  PROVE  ExclusiveInv'
<1> DEFINE T == {t \in Tag : tags[t] # None}
           o == [ops[a] EXCEPT !.todo = <<<<"check", T>>>>]
<1>0. ops[a].todo # <<>> /\ Step(a)[1] = "list" /\ Step(a) = ops[a].todo[1]
  BY AtIs DEF ListTags
<1>1. Advances(a, <<<<"check", T>>>>) /\ UNCHANGED <<world, blobs, tags, mu>>
  BY DEF ListTags
<1>2. o.is = ops[a].is /\ o.todo = <<<<"check", T>>>> /\ ops' = [ops EXCEPT ![a] = o]
  BY NoWriter, <1>1, AdvancesIs, SMTT(30) DEF Calls0
<1> HIDE DEF o
<1>3. ~Removing(ops[a])
  BY <1>0 DEF Removing
<1>4. ~Removing(o) /\ Listed(o, T)
  BY <1>2, SMTT(30) DEF Removing, Listed
<1>5. Hands(a, o)
  BY <1>1, <1>2, HandsKept
<1> QED BY <1>1, <1>2, <1>3, <1>4, <1>5, ExclusiveAside, ZenonT(30)

LEMMA FetchManifestExclusive ==
  ASSUME StoreTypes, ReclaimInv, Exclusive, ExclusiveInv, NEW a \in Actor, FetchManifest(a)
  PROVE  ExclusiveInv'
<1>0. ops[a].todo # <<>> /\ Step(a)[1] = "fetch" /\ Step(a) = ops[a].todo[1] /\ 1 \in DOMAIN ops[a].todo
  BY AtIs DEF FetchManifest
<1>1. Removing(ops[a])
  BY <1>0, WhichCall, ZenonT(30) DEF Removing
<1>2. Step(a)[2] \in blobs
  <2>1. Orderly(ops[a], blobs)
    BY <1>1, ExclusiveNow
  <2> QED BY <1>0, <2>1 DEF Orderly
<1>3. Advances(a, Rest(a)) /\ UNCHANGED <<world, blobs, tags, mu>>
  BY <1>2 DEF FetchManifest
<1>4. \A x \in blobs' : ops[a].todo[1] # <<"remove", x>>
  BY <1>0, SMTT(30)
<1> QED BY <1>1, <1>3, <1>4, ExclusiveRemoves

LEMMA DeleteBlobExclusive ==
  ASSUME StoreTypes, ReclaimInv, Exclusive, ExclusiveInv, NEW a \in Actor, deleteBlob(a)
  PROVE  ExclusiveInv'
<1>0. ops[a].todo # <<>> /\ Step(a)[1] = "remove" /\ Step(a) = ops[a].todo[1] /\ 1 \in DOMAIN ops[a].todo
  BY AtIs DEF deleteBlob
<1>1. Removing(ops[a])
  BY <1>0, WhichCall DEF Removing
<1>2. Step(a)[2] \in Closure(ops[a].d)
  BY <1>0, <1>1, ExclusiveNow DEF Orderly
<1>3. /\ blobs' = blobs \ {Step(a)[2]} /\ UNCHANGED <<world, tags>>
      /\ (Advances(a, Rest(a)) /\ mu' = mu) \/ (Rest(a) = <<>> /\ Returns(a))
  BY DEF deleteBlob
<1>4. Step(a) = <<"remove", Step(a)[2]>>
  <2>1. Step(a) \in Steps
    BY <1>0, RestOK
  <2> QED BY <1>0, <2>1, StepsAre, SMTT(30)
<1>5. blobs' \subseteq blobs /\ blobs \ blobs' \subseteq Closure(ops[a].d)
  BY <1>2, <1>3
<1>6. \A x \in blobs \ blobs' : ops[a].todo[1] = <<"remove", x>>
  BY <1>0, <1>3, <1>4
<1>7. \A x \in blobs' : ops[a].todo[1] # <<"remove", x>>
  BY <1>0, <1>3, SMTT(30)
<1> QED BY <1>1, <1>3, <1>5, <1>6, <1>7, ExclusiveRemoves, ZenonT(30)

LEMMA PushExclusive ==
  ASSUME StoreTypes, ReclaimInv, Exclusive, ExclusiveInv, NEW a \in Actor, Visit(a) \/ Copy(a) \/ TagRemote(a)
  PROVE  ExclusiveInv'
<1>0. /\ ops[a].todo # <<>> /\ Step(a)[1] \in {"visit", "copy", "tagRemote"}
  BY DEF Visit, Copy, TagRemote, At
<1>1. ops[a].is = "push"
  BY NoWriter, <1>0, WhichCall
<1>2. ~Removing(ops[a])
  BY <1>1 DEF Removing
<1>3. UNCHANGED <<world, blobs, tags>>
  BY <1>1 DEF Visit, Copy, TagRemote
<1>4. Returns(a) \/ \E todo : Advances(a, todo) /\ mu' = mu
  BY <1>1 DEF Visit, Copy, TagRemote
<1>5. CASE Returns(a)
  BY <1>2, <1>3, <1>5, ExclusiveReturns
<1>6. ASSUME NEW todo, Advances(a, todo), mu' = mu PROVE ExclusiveInv'
  <2>1. StoreTypes'
    BY StepTypes
  <2>2. CallOK([ops[a] EXCEPT !.todo = todo])
    <3>1. ops'[a] = [ops[a] EXCEPT !.todo = todo] /\ CallOK(ops[a])'
      BY <1>6, <2>1, AdvancesIs, SMTT(30) DEF StoreTypes
    <3>2. Targets' = Targets /\ Steps' = Steps
      BY <1>3, WorldIsSteady
    <3> QED BY <3>1, <3>2, SMTT(30) DEF CallOK, Calls0
  <2> QED BY <1>1, <1>3, <1>6, <2>2, ExclusivePush, SMTT(30)
<1> QED BY <1>4, <1>5, <1>6, SMTT(30)

LEMMA FailsExclusive ==
  ASSUME StoreTypes, ReclaimInv, Exclusive, ExclusiveInv, NEW a \in Actor, Fails(a)
  PROVE  ExclusiveInv'
<1>1. At(a, "fail") /\ Returns(a) /\ UNCHANGED <<world, blobs, tags>>
  BY DEF Fails, Exclusive
<1>2. ~Removing(ops[a])
  BY AtIs, <1>1 DEF Removing
<1> QED BY <1>1, <1>2, ExclusiveReturns

LEMMA ExclusiveStep ==
  ASSUME StoreTypes, ReclaimInv, Exclusive, ExclusiveInv, NEW a \in Actor,
         \/ Put(a) \/ SetTag(a) \/ Untag(a) \/ ListTags(a) \/ isDigestReferenced(a)
         \/ FetchManifest(a) \/ deleteBlob(a) \/ Visit(a) \/ Copy(a) \/ TagRemote(a) \/ Fails(a)
  PROVE  ExclusiveInv'
<1>2. CASE Put(a)
  BY <1>2, PutExclusive
<1>3. CASE SetTag(a)
  BY <1>3, SetTagExclusive, SMTT(30)
<1>4. CASE Untag(a)
  BY <1>4, UntagExclusive, SMTT(30)
<1>5. CASE ListTags(a)
  BY <1>5, ListTagsExclusive, SMTT(30)
<1>6. CASE isDigestReferenced(a)
  BY <1>6, ExclusiveCheck
<1>7. CASE FetchManifest(a)
  BY <1>7, FetchManifestExclusive
<1>8. CASE deleteBlob(a)
  BY <1>8, DeleteBlobExclusive
<1>9. CASE Visit(a) \/ Copy(a) \/ TagRemote(a)
  BY <1>9, PushExclusive, SMTT(30)
<1>10. CASE Fails(a)
  BY <1>10, FailsExclusive, SMTT(30)
<1> QED BY <1>2, <1>3, <1>4, <1>5, <1>6, <1>7, <1>8, <1>9, <1>10

-----------------------------------------------------------------------------

DeletionInv == ReclaimInv /\ ExclusiveInv

LEMMA DeletionInit == Init => DeletionInv
<1> SUFFICES ASSUME Init PROVE DeletionInv
  OBVIOUS
<1>0. /\ world \in World /\ blobs = UNION {Closure(b.index) : b \in world.packaged}
      /\ tags = [t \in Tag |-> None] /\ remote = {} /\ remoteTags = [t \in Tag |-> None]
      /\ mu = None /\ ops = [a \in Actor |-> Idle] /\ reclaimed = {}
  BY DEF Init
<1>1. \A a \in Actor : ops[a] = Idle
  BY <1>0
<1>2. Idle.is = "idle" /\ Idle.todo = <<>> /\ ~Removing(Idle) /\ ~Locked(Idle)
  BY DEF Idle, Removing, Locked
<1>5. ReclaimInv
  BY <1>0, <1>1, <1>2, SMTT(30) DEF ReclaimInv, RemovesRest
<1>6. ASSUME NEW d \in Targets PROVE Whole(d, blobs)
  <2> SUFFICES ASSUME d \in blobs PROVE Closure(d) \subseteq blobs
    BY DEF Whole
  <2>1. PICK c \in world.packaged : d \in Closure(c.index)
    BY <1>0
  <2>2. c \in world.builds /\ Closure(c.index) \subseteq blobs
    <3>1. world.packaged \subseteq world.builds
      BY <1>0, WorldAssumption DEF WellFormed
    <3> QED BY <1>0, <3>1
  <2>3. d \in Below(c)
    BY <1>0, <2>1, <2>2, ClosureOf
  <2>4. WellFormed(world) /\ Manifests(c) \subseteq All
    BY <1>0, <2>2, OfBuild, WorldAssumption
  <2>5. ASSUME NEW b \in world.builds, d = b.index PROVE d = c.index
    <3>1. \A m \in All : b.index \notin {None, m.id, m.config, m.layer}
      BY <2>4, <2>5 DEF WellFormed, All
    <3> QED BY <2>3, <2>4, <2>5, <3>1 DEF Below
  <2>6. ASSUME NEW m \in All, d = m.id PROVE Closure(d) \subseteq Closure(c.index)
    <3>1. d # c.index /\ \A n \in Manifests(c) : m.id \notin {n.config, n.layer} /\ (m.id = n.id => m = n)
      BY <2>2, <2>4, <2>6 DEF WellFormed, All
    <3>2. m \in Manifests(c)
      BY <2>3, <2>6, <3>1 DEF Below
    <3>3. Closure(d) = {m.id, m.config, m.layer} /\ Closure(c.index) = Below(c)
      BY <1>0, <2>2, <2>6, ClosureOf, ClosureOfManifest
    <3> QED BY <3>2, <3>3 DEF Below
  <2> QED BY <1>0, <2>2, <2>5, <2>6, TargetIs
<1>7. ExclusiveInv
  <2>1. \A a \in Actor : mu = a <=> Locked(ops[a])
    BY <1>0, <1>1, <1>2, ActorAssumption
  <2>2. \A a \in Actor : ~At(a, "check") /\ ~Removing(ops[a])
    BY <1>1, <1>2 DEF At
  <2>3. TagsAreComplete
    BY <1>0 DEF TagsAreComplete
  <2> QED BY <1>6, <2>1, <2>2, <2>3 DEF ExclusiveInv, Exclusive
<1> QED BY <1>5, <1>7, SMTT(30) DEF DeletionInv

LEMMA DeletionNext == StoreTypes /\ StoreTypes' /\ DeletionInv /\ [Next]_vars => DeletionInv'
<1>1. ASSUME StoreTypes, StoreTypes', ReclaimInv, ExclusiveInv, Next PROVE DeletionInv'
  <2>1. PICK a \in Actor :
          \/ Call(a)
          \/ Put(a) \/ SetTag(a) \/ Untag(a) \/ ListTags(a) \/ isDigestReferenced(a)
          \/ FetchManifest(a) \/ deleteBlob(a) \/ Visit(a) \/ Copy(a) \/ TagRemote(a) \/ Fails(a)
    BY <1>1, StoreStep
  <2>2. world' = world
    BY <2>1, ZenonT(30) DEF Call, Package, TagDigest, Push, DeleteTag, DeleteBuild, Pull, Put, SetTag, Untag, ListTags,
                isDigestReferenced, FetchManifest, deleteBlob, Visit, Copy, TagRemote, Fails
  <2>3. CASE NoWriters
    <3>1. ReclaimInv'
      BY <1>1, <2>1, <2>3, ReclaimCall, ReclaimStep
    <3>2. CASE Exclusive
      BY <1>1, <2>1, <3>1, <3>2, ExclusiveCall, ExclusiveStep DEF DeletionInv
    <3>3. CASE ~Exclusive
      <4>1. ~Exclusive'
        BY <2>2, <3>3, Worldly
      <4>2. ExclusiveInv'
        BY <4>1, ZenonT(30) DEF ExclusiveInv
      <4> QED BY <3>1, <4>2 DEF DeletionInv
    <3> QED BY <3>2, <3>3
  <2>4. CASE ~NoWriters
    <3>0. ~Exclusive
      BY <2>4 DEF Exclusive
    <3>1. ~NoWriters'
      BY <2>2, <2>4 DEF NoWriters
    <3>2. ~Exclusive'
      BY <2>2, <3>0, Worldly
    <3>3. ReclaimInv'
      BY <3>1 DEF ReclaimInv
    <3>4. ExclusiveInv'
      BY <3>2 DEF ExclusiveInv
    <3> QED BY <3>3, <3>4 DEF DeletionInv
  <2> QED BY <2>3, <2>4
<1>2. ASSUME ReclaimInv, ExclusiveInv, UNCHANGED vars PROVE DeletionInv'
  <2>1. UNCHANGED <<world, blobs, tags, mu, ops, reclaimed>>
    BY <1>2 DEF vars
  <2>2. Targets' = Targets /\ (\A d : Closure(d)' = Closure(d)) /\ NoWriters' = NoWriters /\ Exclusive' = Exclusive
    BY <2>1, WorldIsSteady, Worldly, SMTT(30)
  <2>3. ReclaimInv'
    BY <1>2, <2>1, <2>2 DEF ReclaimInv, RemovesRest
  <2>4. ExclusiveInv'
    BY <1>2, <2>1, <2>2, ZenonT(30) DEF ExclusiveInv, Whole, Orderly, TagsAreComplete, At, Step
  <2> QED BY <2>3, <2>4 DEF DeletionInv
<1> QED BY <1>1, <1>2, SMTT(30) DEF DeletionInv

(* A deletion that got to its end left no blob of its index or manifest behind, with or     *)
(* without the mutex; and under the mutex no deletion takes a blob away from a tag, when    *)
(* the digests that are tagged share nothing and neither Package nor Pull runs (store.go,   *)
(* deleteOrphanedBlobs).                                                                    *)
THEOREM DeletionHolds == Spec => []DeletionIsExact
<1>1. DeletionInv => DeletionIsExact
  BY DEF DeletionInv, ReclaimInv, ExclusiveInv, Exclusive, NoWriters, DeletionIsExact
<1>2. Spec => []StoreTypes
  BY StoreIsWellFormed, PTL
<1> QED BY <1>1, <1>2, DeletionInit, DeletionNext, PTL DEF Spec

=============================================================================
