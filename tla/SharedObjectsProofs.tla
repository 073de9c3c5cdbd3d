------------------------- MODULE SharedObjectsProofs -------------------------
(***************************************************************************)
(* Proofs about the copies of a KnativeServing, for every shape and however *)
(* often reconcilers write: that SharingInv is an invariant, and with it    *)
(* the properties of SharedObjects.                                         *)
(***************************************************************************)
EXTENDS SharedObjectsInvariant, SequenceTheorems, TLAPS

-----------------------------------------------------------------------------
(* Paths, cells and identities.                                             *)

\* A path of two steps, put together.
LEMMA Path ==
  ASSUME NEW a, NEW b
  PROVE  <<a>> \o <<b>> = <<a, b>>
<1> DEFINE U == {a, b}
           s == <<a>>
           t == <<b>>
           u == <<a, b>>
<1>1. s \in Seq(U) /\ Len(s) = 1 /\ s[1] = a /\ t \in Seq(U) /\ Len(t) = 1 /\ t[1] = b
  OBVIOUS
<1>2. u \in Seq(U) /\ Len(u) = 2 /\ u[1] = a /\ u[2] = b
  OBVIOUS
<1> HIDE DEF U, s, t, u
<1>3. s \o t \in Seq(U) /\ Len(s \o t) = 2 /\ (s \o t)[1] = a /\ (s \o t)[2] = b
  BY <1>1, ConcatProperties
<1>4. s \o t = u
  <2> DEFINE w == s \o t
  <2>1. w \in Seq(U) /\ Len(w) = 2 /\ w[1] = a /\ w[2] = b
    BY <1>3
  <2> HIDE DEF w
  <2>2. Len(w) = Len(u) /\ \A i \in 1 .. Len(w) : w[i] = u[i]
    BY <1>2, <2>1
  <2>3. w = u
    BY <1>2, <2>1, <2>2, SeqEqual
  <2>4. QED
    BY <2>3 DEF w
<1>5. QED
  BY <1>4 DEF s, t, u

\* DeepCopyInto goes down every reference there is.
LEMMA AllCopied == \A p \in KnativeServing : IsCopied(p)
<1>1. CopySpec = KnativeServingSpec
  BY DEF CopySpec, KnativeServingSpec, CopyConfig, CopyRegistry, Registry, CopyGateway,
         IstioGatewayOverride, CopyResources, ResourceRequirementsOverride
<1>2. Copied = KnativeServing
  BY <1>1 DEF Copied, KnativeServing, CopyMeta, ObjectMeta, CopyStatus, KnativeServingStatus
<1>3. QED
  BY <1>2 DEF IsCopied

\* Finalizers and conditions are among the paths of a KnativeServing.
LEMMA KnownPaths ==
  /\ Finalizers \in KnativeServing /\ Conditions \in KnativeServing
  /\ Finalizers # Conditions
<1>1. Finalizers \in Into("ObjectMeta", ObjectMeta)
  BY Path DEF Finalizers, Into, ObjectMeta
<1>2. Conditions \in Into("Status", KnativeServingStatus)
  BY Path DEF Conditions, Into, KnativeServingStatus
<1>3. Finalizers # Conditions
  BY DEF Finalizers, Conditions
<1>4. QED
  BY <1>1, <1>2, <1>3 DEF KnativeServing

\* An object has references at paths of KnativeServing only.
LEMMA ShapeFacts == \A s \in Shapes : s \subseteq KnativeServing
BY DEF Shapes

\* A cell is not Nil, and tells whose it is and where.
LEMMA CellFacts ==
  ASSUME NEW i, NEW p
  PROVE  <<i, p>> # Nil /\ <<i, p>>[1] = i /\ <<i, p>>[2] = p
BY DEF Nil

\* A cell belongs to one object and one path.
LEMMA OneCell ==
  ASSUME NEW i, NEW p, NEW j, NEW q, <<i, p>> = <<j, q>>
  PROVE  i = j /\ p = q
OBVIOUS

\* What is in hand, of the objects in use, has cells of its own.
LEMMA HomeFacts ==
  ASSUME SharingInv, NEW i \in Held
  PROVE  /\ i \in Ids /\ i # None
         /\ i # existing => \A p \in KnativeServing : Home(i, p)
         /\ \A p \in KnativeServing \ {Conditions} : Home(i, p)
         /\ \A p \in KnativeServing : struct[i][p] = Nil \/ \E j \in Held : struct[i][p] = <<j, p>>
<1>1. i \in Ids /\ i # None
  BY DEF SharingInv, SharedTypeOK, Held
<1>2. \A p \in KnativeServing :
        Home(i, p) \/ (i = existing /\ p = Conditions /\ struct[i][p] = struct[resource][p])
  BY DEF SharingInv, AtHome
<1>3. ASSUME i = existing
      PROVE  resource \in Held /\ \A p \in KnativeServing : Home(resource, p)
  <2>1. resource \in Held /\ resource # existing
    BY <1>1, <1>3 DEF SharingInv, InHand, Apart, Held
  <2>2. QED
    BY <2>1 DEF SharingInv, AtHome
<1>4. ASSUME NEW p \in KnativeServing
      PROVE  struct[i][p] = Nil \/ \E j \in Held : struct[i][p] = <<j, p>>
  BY <1>2, <1>3 DEF Home
<1>5. QED
  BY <1>1, <1>2, <1>4

\* There is always an object that is not in use.
LEMMA NewFacts ==
  ASSUME SharingInv
  PROVE  New \in Ids /\ New # None /\ New \notin Held
<1>1. InUse \subseteq {cached, original, resource, existing}
  <2>1. ASSUME NEW i \in Held, NEW p \in KnativeServing, struct[i][p] # Nil
        PROVE  struct[i][p][1] \in Held
    <3>1. PICK j \in Held : struct[i][p] = <<j, p>>
      BY <2>1, HomeFacts
    <3>2. QED
      BY <3>1, CellFacts
  <2>2. \A i \in Held : {c[1] : c \in {struct[i][p] : p \in KnativeServing} \ {Nil}} \subseteq Held
    BY <2>1
  <2>3. InUse \subseteq Held
    BY <2>2 DEF InUse
  <2>4. QED
    BY <2>3 DEF Held
<1>2. Ids \ {cached, original, resource, existing} # {}
  BY IdsAssumption DEF SharingInv, SharedTypeOK
<1>3. \E i \in Ids : i \notin InUse
  BY <1>1, <1>2
<1>4. New \in Ids /\ New \notin InUse
  BY <1>3 DEF New
<1>5. QED
  BY <1>4, IdsAssumption DEF InUse

-----------------------------------------------------------------------------
(* New objects, decoded or copied.                                          *)

References == [KnativeServing -> Cells \cup {Nil}]
Contents == [Cells -> {0, 1}]

\* Every reference of a new object is Nil or refers to a cell of its own.
LEMMA NewReferences ==
  ASSUME NEW n \in Ids, NEW in \in References
  PROVE  /\ Own(n) \in References /\ DeepCopyInto(in, n) \in References
         /\ \A p \in KnativeServing : Own(n)[p] \in {Nil, <<n, p>>}
         /\ \A p \in KnativeServing : DeepCopyInto(in, n)[p] \in {Nil, <<n, p>>}
         /\ \A p \in KnativeServing : Own(n)[p] = Nil <=> p \notin shape
<1>1. \A p \in KnativeServing : <<n, p>> \in Cells /\ <<n, p>> # Nil
  BY CellFacts DEF Cells
<1>2. Own(n) \in References /\ \A p \in KnativeServing : Own(n)[p] = IF p \in shape THEN <<n, p>> ELSE Nil
  BY <1>1 DEF Own, References
<1>3. /\ DeepCopyInto(in, n) = [p \in KnativeServing |-> IF in[p] # Nil THEN <<n, p>> ELSE Nil]
  BY AllCopied DEF DeepCopyInto
<1>4. DeepCopyInto(in, n) \in References
      /\ \A p \in KnativeServing : DeepCopyInto(in, n)[p] \in {Nil, <<n, p>>}
  BY <1>1, <1>3 DEF References
<1>5. QED
  BY <1>1, <1>2, <1>4

\* Only cells of the new object are written to when it is made.
LEMMA NewContents ==
  ASSUME NEW n \in Ids, NEW in \in References, memory \in Contents
  PROVE  /\ Zeroed(n) \in Contents /\ Duplicated(in, n) \in Contents
         /\ \A i \in Ids \ {n}, p \in KnativeServing :
              /\ Zeroed(n)[<<i, p>>] = memory[<<i, p>>]
              /\ Duplicated(in, n)[<<i, p>>] = memory[<<i, p>>]
         /\ \A p \in shape \cap KnativeServing : Zeroed(n)[<<n, p>>] = 0
<1>1. \A c \in Cells : c[2] \in KnativeServing /\ memory[c] \in {0, 1}
  BY DEF Cells, Contents
<1>2. \A c \in Cells : in[c[2]] # Nil => memory[in[c[2]]] \in {0, 1}
  BY <1>1 DEF References
<1>3. \A i \in Ids, p \in KnativeServing : <<i, p>> \in Cells /\ <<i, p>>[1] = i /\ <<i, p>>[2] = p
  BY DEF Cells
<1>4. Zeroed(n) \in Contents
  BY <1>1 DEF Zeroed, Contents
<1>5. Duplicated(in, n) \in Contents
  BY <1>1, <1>2 DEF Duplicated, Contents
<1>6. ASSUME NEW i \in Ids \ {n}, NEW p \in KnativeServing
      PROVE  /\ Zeroed(n)[<<i, p>>] = memory[<<i, p>>]
             /\ Duplicated(in, n)[<<i, p>>] = memory[<<i, p>>]
  BY <1>3 DEF Zeroed, Duplicated
<1>7. ASSUME NEW p \in shape \cap KnativeServing
      PROVE  Zeroed(n)[<<n, p>>] = 0
  BY <1>3 DEF Zeroed
<1>8. QED
  BY <1>4, <1>5, <1>6, <1>7

\* An object that is left alone.
LEMMA StillHome ==
  ASSUME SharingInv, NEW i \in Held, i # existing, struct'[i] = struct[i]
  PROVE  \A p \in KnativeServing : Home(i, p)'
BY HomeFacts DEF Home

\* An object whose cell at a path was not written to has its content there.
LEMMA SameContent ==
  ASSUME SharingInv, NEW i \in Held, i # existing, struct'[i] = struct[i],
         NEW p \in KnativeServing, memory'[<<i, p>>] = memory[<<i, p>>]
  PROVE  Content(i)'[p] = Content(i)[p]
<1>1. struct[i][p] \in {Nil, <<i, p>>}
  BY HomeFacts DEF Home
<1>2. QED
  BY <1>1 DEF Content

\* The cache is as delivered if nothing but finalizers is written to the objects from
\* the lister.
LEMMA StillDelivered ==
  ASSUME SharingInv, UNCHANGED <<cached, delivered, asRead>>, original' \in {original, None},
         \A i \in {cached, original} \ {None} :
           /\ struct'[i] = struct[i]
           /\ \A p \in KnativeServing \ {Finalizers} : memory'[<<i, p>>] = memory[<<i, p>>]
  PROVE  CacheAsDelivered'
<1>1. ASSUME NEW i \in {cached, original} \ {None}, NEW p \in KnativeServing \ {Finalizers}
      PROVE  Content(i)'[p] = Content(i)[p]
  <2>1. i \in Held /\ i # existing
    BY DEF SharingInv, Apart, Held
  <2>2. QED
    BY <2>1, SameContent
<1>2. CacheAsDelivered
  BY DEF SharingInv
<1>3. cached' # None => \A p \in KnativeServing \ {Finalizers} : Content(cached)'[p] = delivered'[p]
  BY <1>1, <1>2 DEF CacheAsDelivered, Unchanged
<1>4. original' # None => \A p \in KnativeServing \ {Finalizers} : Content(original)'[p] = asRead'[p]
  BY <1>1, <1>2 DEF CacheAsDelivered, Unchanged
<1>5. QED
  BY <1>3, <1>4 DEF CacheAsDelivered, Unchanged

-----------------------------------------------------------------------------
(* The steps.                                                               *)

\* The first cached object has cells of its own.
LEMMA SharedInit == Init => SharingInv
<1> SUFFICES ASSUME Init PROVE SharingInv
  OBVIOUS
<1> USE DEF Init
<1>1. SharedTypeOK
  <2>1. shape \subseteq KnativeServing
    BY ShapeFacts
  <2>2. Nowhere \in [KnativeServing -> Cells \cup {Nil}]
    BY DEF Nowhere
  <2>3. QED
    BY <2>1, <2>2 DEF SharedTypeOK
<1>2. InHand /\ Apart /\ CacheAsDelivered
  BY DEF InHand, Apart, CacheAsDelivered
<1>3. AtHome
  BY DEF AtHome, Held
<1>4. QED
  BY <1>1, <1>2, <1>3 DEF SharingInv

\* A new object beside those there are.
LEMMA AddObject ==
  ASSUME SharingInv, NEW s \in References, struct' = [struct EXCEPT ![New] = s]
  PROVE  /\ struct' \in [Ids -> References] /\ struct'[New] = s
         /\ \A i \in Held : i # New /\ i \in Ids /\ struct'[i] = struct[i]
<1>1. struct \in [Ids -> References] /\ New \in Ids
  BY NewFacts DEF SharingInv, SharedTypeOK, References
<1>2. \A i \in Held : i # New /\ i \in Ids
  BY NewFacts, HomeFacts
<1> HIDE DEF References, Held, New
<1>3. QED
  BY <1>1, <1>2

\* The parts of SharingInv at hand.
LEMMA Typed ==
  ASSUME SharingInv
  PROVE  /\ memory \in Contents /\ shape \subseteq KnativeServing
         /\ \A i \in Ids : struct[i] \in References
BY DEF SharingInv, SharedTypeOK, Contents, References

\* While updateStatus sends the same object, or none, what is in hand stays at home.
LEMMA HomeKept ==
  ASSUME SharingInv, NEW n, n \notin Held, Held' \subseteq Held \cup {n},
         existing' = existing, existing # None => resource' = resource,
         \A i \in Held : struct'[i] = struct[i],
         n \in Held' => \A p \in KnativeServing : Home(n, p)'
  PROVE  AtHome'
<1>1. ASSUME NEW i \in Held', NEW p \in KnativeServing
      PROVE  Home(i, p)' \/ (i = existing' /\ p = Conditions /\ struct'[i][p] = struct'[resource'][p])
  <2>1. CASE i = n
    BY <1>1, <2>1
  <2>2. CASE i \in Held /\ i # existing
    BY <2>2, StillHome
  <2>3. CASE i \in Held /\ i = existing
    <3>1. resource \in Held /\ i # None
      BY <2>3 DEF SharingInv, InHand, Held
    <3>2. struct'[i] = struct[i] /\ struct'[resource'] = struct[resource]
      BY <2>3, <3>1
    <3>3. QED
      BY <2>3, <3>2 DEF SharingInv, AtHome, Home
  <2>4. QED
    BY <1>1, <2>1, <2>2, <2>3
<1>2. QED
  BY <1>1 DEF AtHome

\* An object that updateStatus sends anew shares its conditions with resource.
LEMMA HomeShared ==
  ASSUME SharingInv, NEW n, n \notin Held, existing' = n, resource # None,
         UNCHANGED <<cached, original, resource>>,
         \A i \in Held : struct'[i] = struct[i],
         \A p \in KnativeServing \ {Conditions} : Home(n, p)',
         struct'[n][Conditions] = struct[resource][Conditions]
  PROVE  AtHome'
<1>1. resource \in Held
  BY DEF Held
<1>2. ASSUME NEW i \in Held', NEW p \in KnativeServing
      PROVE  Home(i, p)' \/ (i = existing' /\ p = Conditions /\ struct'[i][p] = struct'[resource'][p])
  <2>1. CASE i = n
    BY <1>1, <2>1
  <2>2. CASE i # n
    <3>1. i \in Held /\ i # existing
      BY <1>2, <2>2 DEF SharingInv, Apart, Held
    <3>2. QED
      BY <3>1, StillHome
  <2>3. QED
    BY <2>1, <2>2
<1>3. QED
  BY <1>2 DEF AtHome

\* A delivery replaces the cached object.
LEMMA DeliverKeeps ==
  ASSUME SharingInv, Deliver
  PROVE  SharingInv'
<1>0. PICK n \in Ids : n = New /\ n # None /\ n \notin Held
  BY NewFacts
<1>1. memory \in Contents /\ shape \subseteq KnativeServing /\ \A i \in Ids : struct[i] \in References
  BY Typed
<1>2. Own(n) \in References /\ \A p \in KnativeServing : Own(n)[p] = Nil \/ Own(n)[p] = <<n, p>>
  BY <1>0, <1>1, NewReferences
<1>3. /\ cached' = n /\ struct' = [struct EXCEPT ![New] = Own(n)] /\ memory' = Zeroed(n)
      /\ UNCHANGED <<shape, original, resource, existing, asRead, writes>>
  BY <1>0 DEF Deliver
<1>4. /\ struct' \in [Ids -> References] /\ struct'[n] = Own(n)
      /\ \A i \in Held : i # n /\ i \in Ids /\ struct'[i] = struct[i]
  BY <1>0, <1>2, <1>3, AddObject
<1>5. memory' \in Contents
      /\ \A i \in Ids \ {n}, p \in KnativeServing : memory'[<<i, p>>] = memory[<<i, p>>]
  BY <1>0, <1>1, <1>2, <1>3, NewContents
<1>6. delivered' = [p \in KnativeServing |-> IF p \in shape THEN 0 ELSE Absent]
  BY DEF Deliver
<1>7. \A p \in KnativeServing : Content(n)'[p] = delivered'[p]
  <2> SUFFICES ASSUME NEW p \in KnativeServing PROVE Content(n)'[p] = delivered'[p]
    OBVIOUS
  <2>1. Content(n)'[p] = IF Own(n)[p] = Nil THEN Absent ELSE memory'[Own(n)[p]]
    BY <1>4 DEF Content
  <2>2. Own(n)[p] = Nil <=> p \notin shape
    BY <1>0, <1>1, <1>2, NewReferences
  <2>3. p \in shape => memory'[<<n, p>>] = 0
    BY <1>0, <1>1, <1>2, <1>3, NewContents
  <2>4. QED
    BY <1>2, <1>6, <2>1, <2>2, <2>3
<1>8. SharedTypeOK'
  BY <1>0, <1>3, <1>4, <1>5 DEF SharingInv, SharedTypeOK, Contents, References
<1>9. InHand' /\ Apart'
  BY <1>0, <1>3 DEF SharingInv, InHand, Apart, Held
<1>10. Held' \subseteq Held \cup {n}
  BY <1>3 DEF Held
<1>11. AtHome'
  BY <1>0, <1>2, <1>3, <1>4, <1>10, HomeKept DEF Home
<1>12. CacheAsDelivered'
  <2>1. cached' # None => Unchanged(cached, delivered, KnativeServing \ {Finalizers})'
    BY <1>3, <1>7 DEF Unchanged
  <2>2. ASSUME original' # None, NEW p \in KnativeServing \ {Finalizers}
        PROVE  Content(original)'[p] = asRead'[p]
    <3>1. original \in Held /\ original # existing /\ original' = original
      BY <1>3, <2>2 DEF SharingInv, Apart, Held
    <3>2. Content(original)'[p] = Content(original)[p]
      BY <1>4, <1>5, <3>1, SameContent
    <3>3. QED
      BY <1>3, <3>1, <3>2 DEF SharingInv, CacheAsDelivered, Unchanged, Held
  <2>3. QED
    BY <2>1, <2>2 DEF CacheAsDelivered, Unchanged
<1>13. QED
  BY <1>8, <1>9, <1>11, <1>12 DEF SharingInv

\* Get hands out the cached object itself, and Reconcile copies it.
LEMMA GetKeeps ==
  ASSUME SharingInv, Get
  PROVE  SharingInv'
<1>0. PICK n \in Ids : n = New /\ n # None /\ n \notin Held
  BY NewFacts
<1>1. memory \in Contents /\ shape \subseteq KnativeServing /\ struct[cached] \in References
      /\ cached # None /\ original = None /\ resource = None /\ existing = None
  BY Typed DEF Get, SharingInv, SharedTypeOK, InHand
<1> DEFINE s == DeepCopyInto(struct[cached], n)
<1>2. s \in References /\ \A p \in KnativeServing : s[p] \in {Nil, <<n, p>>}
  BY <1>1, NewReferences
<1>3. /\ original' = cached /\ resource' = n /\ struct' = [struct EXCEPT ![New] = s]
      /\ memory' = Duplicated(struct[cached], n) /\ asRead' = Content(cached)
      /\ UNCHANGED <<shape, cached, existing, delivered, writes>>
  BY <1>0 DEF Get
<1> HIDE DEF s
<1>4. /\ struct' \in [Ids -> References] /\ struct'[n] = s
      /\ \A i \in Held : i # n /\ i \in Ids /\ struct'[i] = struct[i]
  BY <1>0, <1>2, <1>3, AddObject
<1>5. memory' \in Contents
      /\ \A i \in Ids \ {n}, p \in KnativeServing : memory'[<<i, p>>] = memory[<<i, p>>]
  BY <1>1, <1>3, NewContents
<1>6. SharedTypeOK'
  BY <1>0, <1>3, <1>4, <1>5 DEF SharingInv, SharedTypeOK, Contents, References
<1>7. InHand' /\ Apart'
  BY <1>0, <1>1, <1>3 DEF InHand, Apart, Held
<1>8. Held' \subseteq Held \cup {n}
  BY <1>3 DEF Held
<1>9. AtHome'
  BY <1>0, <1>1, <1>2, <1>3, <1>4, <1>8, HomeKept DEF Home
<1>10. CacheAsDelivered'
  <2>1. cached \in Held /\ cached # existing
    BY <1>1 DEF Held
  <2>2. \A p \in KnativeServing : Content(cached)'[p] = Content(cached)[p]
    <3>1. PICK i \in Held : i = cached /\ i # existing /\ i \in Ids
      BY <1>4, <2>1
    <3>2. \A p \in KnativeServing : Content(i)'[p] = Content(i)[p]
      BY <1>4, <1>5, <3>1, SameContent
    <3>3. QED
      BY <1>3, <3>1, <3>2
  <2>3. QED
    BY <1>1, <1>3, <2>2 DEF SharingInv, CacheAsDelivered, Unchanged
<1>11. QED
  BY <1>6, <1>7, <1>9, <1>10 DEF SharingInv

\* A reply has cells of its own.
LEMMA ReplyKeeps ==
  ASSUME SharingInv, Reply
  PROVE  SharingInv'
<1>0. PICK n \in Ids : n = New /\ n # None /\ n \notin Held
  BY NewFacts
<1>1. memory \in Contents /\ shape \subseteq KnativeServing /\ struct[n] \in References
      /\ resource # None /\ existing = None
  BY <1>0, Typed DEF Reply
<1>2. Own(n) \in References /\ \A p \in KnativeServing : Own(n)[p] \in {Nil, <<n, p>>}
  BY <1>1, NewReferences
<1>3. /\ resource' = n /\ struct' = [struct EXCEPT ![New] = Own(n)] /\ memory' = Zeroed(n)
      /\ UNCHANGED <<shape, cached, original, existing, delivered, asRead, writes>>
  BY <1>0 DEF Reply
<1>4. /\ struct' \in [Ids -> References] /\ struct'[n] = Own(n)
      /\ \A i \in Held : i # n /\ i \in Ids /\ struct'[i] = struct[i]
  BY <1>0, <1>2, <1>3, AddObject
<1>5. memory' \in Contents
      /\ \A i \in Ids \ {n}, p \in KnativeServing : memory'[<<i, p>>] = memory[<<i, p>>]
  BY <1>1, <1>3, NewContents
<1>6. SharedTypeOK'
  BY <1>0, <1>3, <1>4, <1>5 DEF SharingInv, SharedTypeOK, Contents, References
<1>7. InHand' /\ Apart'
  BY <1>0, <1>1, <1>3 DEF SharingInv, InHand, Apart, Held
<1>8. Held' \subseteq Held \cup {n}
  BY <1>3 DEF Held
<1>9. AtHome'
  BY <1>0, <1>1, <1>2, <1>3, <1>4, <1>8, HomeKept DEF Home
<1>10. CacheAsDelivered'
  <2>1. \A i \in {cached, original} \ {None} : i \in Held
    BY DEF Held
  <2>2. QED
    BY <1>3, <1>4, <1>5, <2>1, StillDelivered
<1>11. QED
  BY <1>6, <1>7, <1>9, <1>10 DEF SharingInv

\* What updateStatus sends is a new object, whose conditions are those of resource.
LEMMA SendKeeps ==
  ASSUME SharingInv, resource # None, NEW n \in Ids, n = New, NEW s \in References,
         \A p \in KnativeServing : s[p] \in {Nil, <<n, p>>},
         existing' = n, struct' = [struct EXCEPT ![New] = WithStatus(s)],
         memory' \in Contents,
         \A i \in Ids \ {n}, p \in KnativeServing : memory'[<<i, p>>] = memory[<<i, p>>],
         UNCHANGED <<shape, cached, original, resource, delivered, asRead, writes>>
  PROVE  SharingInv'
<1>1. n # None /\ n \notin Held /\ resource \in Held
  BY NewFacts DEF Held
<1>2. struct[resource] \in References
  BY <1>1, HomeFacts, Typed
<1>3. /\ WithStatus(s) \in References
      /\ WithStatus(s)[Conditions] = struct[resource][Conditions]
      /\ \A p \in KnativeServing \ {Conditions} : WithStatus(s)[p] \in {Nil, <<n, p>>}
  BY <1>2, KnownPaths DEF WithStatus, References
<1>4. /\ struct' \in [Ids -> References] /\ struct'[n] = WithStatus(s)
      /\ \A i \in Held : i # n /\ i \in Ids /\ struct'[i] = struct[i]
  BY <1>3, AddObject
<1>5. SharedTypeOK'
  BY <1>4 DEF SharingInv, SharedTypeOK, Contents, References
<1>6. InHand' /\ Apart'
  BY <1>1 DEF SharingInv, InHand, Apart, Held
<1>7. AtHome'
  <2>1. \A p \in KnativeServing \ {Conditions} : Home(n, p)'
    BY <1>3, <1>4 DEF Home
  <2>2. struct'[n][Conditions] = struct[resource][Conditions]
    BY <1>3, <1>4
  <2>3. QED
    BY <1>1, <1>4, <2>1, <2>2, HomeShared
<1>8. CacheAsDelivered'
  <2>1. \A i \in {cached, original} \ {None} : i \in Held
    BY DEF Held
  <2>2. QED
    BY <1>4, <2>1, StillDelivered
<1>9. QED
  BY <1>5, <1>6, <1>7, <1>8 DEF SharingInv

\* updateStatus sends a copy of the original with the status of the resource.
LEMMA UpdateStatusKeeps ==
  ASSUME SharingInv, UpdateStatus
  PROVE  SharingInv'
<1>0. PICK n \in Ids : n = New
  BY NewFacts
<1>1. memory \in Contents /\ resource # None /\ struct[original] \in References
  BY Typed DEF UpdateStatus, SharingInv, SharedTypeOK, InHand
<1> DEFINE s == DeepCopyInto(struct[original], n)
<1>2. s \in References /\ \A p \in KnativeServing : s[p] \in {Nil, <<n, p>>}
  BY <1>1, NewReferences
<1>3. /\ existing' = n /\ struct' = [struct EXCEPT ![New] = WithStatus(s)]
      /\ memory' = Duplicated(struct[original], n)
      /\ UNCHANGED <<shape, cached, original, resource, delivered, asRead, writes>>
  BY <1>0 DEF UpdateStatus, CopyOriginal
<1> HIDE DEF s
<1>4. memory' \in Contents
      /\ \A i \in Ids \ {n}, p \in KnativeServing : memory'[<<i, p>>] = memory[<<i, p>>]
  BY <1>1, <1>3, NewContents
<1>5. QED
  BY <1>0, <1>1, <1>2, <1>3, <1>4, SendKeeps

\* A retry fetches again.
LEMMA RetryStatusKeeps ==
  ASSUME SharingInv, RetryStatus
  PROVE  SharingInv'
<1>0. PICK n \in Ids : n = New
  BY NewFacts
<1>1. memory \in Contents /\ resource # None /\ struct[n] \in References
  BY <1>0, Typed DEF RetryStatus, SharingInv, InHand
<1>2. Own(n) \in References /\ \A p \in KnativeServing : Own(n)[p] \in {Nil, <<n, p>>}
  BY <1>1, NewReferences
<1>3. /\ existing' = n /\ struct' = [struct EXCEPT ![New] = WithStatus(Own(n))]
      /\ memory' = Zeroed(n)
      /\ UNCHANGED <<shape, cached, original, resource, delivered, asRead, writes>>
  BY <1>0 DEF RetryStatus
<1>4. memory' \in Contents
      /\ \A i \in Ids \ {n}, p \in KnativeServing : memory'[<<i, p>>] = memory[<<i, p>>]
  BY <1>1, <1>3, NewContents
<1>5. QED
  BY <1>0, <1>1, <1>2, <1>3, <1>4, SendKeeps

\* A write to a cell is a write to the object whose cell it is.
LEMMA WriteFacts ==
  ASSUME NEW m \in Contents, NEW c \in Cells
  PROVE  /\ [m EXCEPT ![c] = 1 - @] \in Contents
         /\ \A d \in Cells : d # c => [m EXCEPT ![c] = 1 - @][d] = m[d]
<1>1. m[c] \in {0, 1} /\ 1 - m[c] \in {0, 1}
  BY DEF Contents
<1>2. QED
  BY <1>1 DEF Contents

\* The cell of one object and path is no other one's.
LEMMA OtherCells ==
  ASSUME NEW i \in Ids, NEW p \in KnativeServing
  PROVE  /\ <<i, p>> \in Cells
         /\ \A j \in Ids, q \in KnativeServing :
              <<j, q>> \in Cells /\ (j # i \/ q # p => <<j, q>> # <<i, p>>)
BY OneCell DEF Cells

\* A write to what is in hand that does not reach what the lister handed out,
\* but for its finalizers.
LEMMA WriteKeeps ==
  ASSUME SharingInv, NEW i \in Held, NEW p \in KnativeServing, struct[i][p] = <<i, p>>,
         i \in {cached, original} => p = Finalizers,
         Write(struct[i][p]),
         UNCHANGED <<shape, struct, cached, original, resource, existing, delivered, asRead>>
  PROVE  SharingInv'
<1>1. i \in Ids /\ memory \in Contents /\ memory' = [memory EXCEPT ![struct[i][p]] = 1 - @]
  BY HomeFacts, Typed DEF Write
<1>2. memory' \in Contents
      /\ \A j \in Ids, q \in KnativeServing : j # i \/ q # p => memory'[<<j, q>>] = memory[<<j, q>>]
  <2>1. struct[i][p] \in Cells
        /\ \A j \in Ids, q \in KnativeServing :
             <<j, q>> \in Cells /\ (j # i \/ q # p => <<j, q>> # struct[i][p])
    BY <1>1, OtherCells
  <2>2. memory' \in Contents /\ \A d \in Cells : d # struct[i][p] => memory'[d] = memory[d]
    BY <1>1, <2>1, WriteFacts
  <2>3. QED
    BY <2>1, <2>2
<1>3. writes' \in Nat
  BY DEF Write, SharingInv, SharedTypeOK
<1>4. SharedTypeOK'
  BY <1>2, <1>3 DEF SharingInv, SharedTypeOK, Contents
<1>5. InHand' /\ Apart'
  BY DEF SharingInv, InHand, Apart
<1>6. AtHome'
  BY DEF SharingInv, AtHome, Home, Held
<1>7. CacheAsDelivered'
  <2>1. ASSUME NEW j \in {cached, original} \ {None}, NEW q \in KnativeServing \ {Finalizers}
        PROVE  memory'[<<j, q>>] = memory[<<j, q>>]
    <3>1. j \in Ids /\ (j # i \/ q # p)
      BY HomeFacts DEF Held
    <3>2. QED
      BY <1>2, <3>1
  <2>2. QED
    BY <2>1, StillDelivered
<1>8. QED
  BY <1>4, <1>5, <1>6, <1>7 DEF SharingInv

\* A write by the controller.
LEMMA ChangeKeeps ==
  ASSUME SharingInv, NEW p \in KnativeServing, Change(p)
  PROVE  SharingInv'
<1>1. resource \in Held /\ resource # existing /\ resource \notin {cached, original}
  BY DEF Change, SharingInv, Apart, Held
<1>2. struct[resource][p] = <<resource, p>>
  BY <1>1, HomeFacts DEF Change, Home
<1>3. QED
  BY <1>1, <1>2, WriteKeeps DEF Change

\* The write of delete, to the finalizers of the cached object.
LEMMA ReleaseKeeps ==
  ASSUME SharingInv, Release
  PROVE  SharingInv'
<1>1. cached \in Held /\ cached # existing /\ Finalizers \in KnativeServing
  BY KnownPaths DEF Release, Held
<1>2. struct[cached][Finalizers] = <<cached, Finalizers>>
  BY <1>1, HomeFacts DEF Release, Home
<1>3. QED
  BY <1>1, <1>2, WriteKeeps DEF Release

\* updateFinalizersFiltered copies before it writes.
LEMMA UpdateFinalizersFilteredKeeps ==
  ASSUME SharingInv, UpdateFinalizersFiltered
  PROVE  SharingInv'
<1>0. PICK n \in Ids : n = New /\ n # None /\ n \notin Held
  BY NewFacts
<1>1. memory \in Contents /\ struct[cached] \in References
  BY Typed DEF UpdateFinalizersFiltered, SharingInv, SharedTypeOK
<1> DEFINE s == DeepCopyInto(struct[cached], n)
           m == Duplicated(struct[cached], n)
<1>2. s \in References /\ \A p \in KnativeServing : s[p] \in {Nil, <<n, p>>}
  BY <1>1, NewReferences
<1>3. m \in Contents
      /\ \A i \in Ids \ {n}, p \in KnativeServing : m[<<i, p>>] = memory[<<i, p>>]
  BY <1>1, NewContents
<1>4. /\ s[Finalizers] # Nil /\ struct' = [struct EXCEPT ![New] = s]
      /\ writes' = writes + 1 /\ memory' = [m EXCEPT ![s[Finalizers]] = 1 - @]
      /\ UNCHANGED <<shape, cached, original, resource, existing, delivered, asRead>>
  BY <1>0 DEF UpdateFinalizersFiltered
<1> HIDE DEF s, m
<1>5. s[Finalizers] = <<n, Finalizers>> /\ Finalizers \in KnativeServing
  BY <1>2, <1>4, KnownPaths
<1>6. memory' \in Contents
      /\ \A i \in Ids \ {n}, p \in KnativeServing : memory'[<<i, p>>] = memory[<<i, p>>]
  <2>1. s[Finalizers] \in Cells
        /\ \A j \in Ids \ {n}, q \in KnativeServing : <<j, q>> \in Cells /\ <<j, q>> # s[Finalizers]
    BY <1>5, OtherCells
  <2>2. memory' \in Contents /\ \A d \in Cells : d # s[Finalizers] => memory'[d] = m[d]
    BY <1>3, <1>4, <2>1, WriteFacts
  <2>3. QED
    BY <1>3, <2>1, <2>2
<1>7. /\ struct' \in [Ids -> References] /\ struct'[n] = s
      /\ \A i \in Held : i # n /\ i \in Ids /\ struct'[i] = struct[i]
  BY <1>0, <1>2, <1>4, AddObject
<1>8. SharedTypeOK'
  BY <1>4, <1>6, <1>7 DEF SharingInv, SharedTypeOK, Contents, References
<1>9. InHand' /\ Apart'
  BY <1>4 DEF SharingInv, InHand, Apart
<1>10. Held' = Held
  BY <1>4 DEF Held
<1>11. AtHome'
  BY <1>0, <1>4, <1>7, <1>10, HomeKept
<1>12. CacheAsDelivered'
  <2>1. \A i \in {cached, original} \ {None} : i \in Held
    BY DEF Held
  <2>2. QED
    BY <1>4, <1>6, <1>7, <2>1, StillDelivered
<1>13. QED
  BY <1>8, <1>9, <1>11, <1>12 DEF SharingInv

\* At its end a reconciliation lets go of all it held.
LEMMA ReturnKeeps ==
  ASSUME SharingInv, Return
  PROVE  SharingInv'
<1>1. /\ original' = None /\ resource' = None /\ existing' = None
      /\ UNCHANGED <<shape, struct, memory, cached, delivered, asRead, writes>>
  BY DEF Return
<1>2. SharedTypeOK' /\ InHand' /\ Apart'
  BY <1>1 DEF SharingInv, SharedTypeOK, InHand, Apart
<1>3. AtHome'
  <2>1. \A i \in Held' : i \in Held /\ i # existing /\ struct'[i] = struct[i]
    BY <1>1 DEF SharingInv, Apart, Held
  <2>2. QED
    BY <2>1, StillHome DEF AtHome
<1>4. CacheAsDelivered'
  BY <1>1, StillDelivered
<1>5. QED
  BY <1>2, <1>3, <1>4 DEF SharingInv

-----------------------------------------------------------------------------
(* The theorems.                                                            *)

\* Every step keeps the invariant.
LEMMA SharedNext == SharingInv /\ [Next]_vars => SharingInv'
<1> SUFFICES ASSUME SharingInv, [Next]_vars PROVE SharingInv'
  OBVIOUS
<1>1. CASE Next
  BY <1>1, DeliverKeeps, GetKeeps, ChangeKeeps, UpdateFinalizersFilteredKeeps, ReplyKeeps,
     ReleaseKeeps, UpdateStatusKeeps, RetryStatusKeeps, ReturnKeeps DEF Next
<1>2. CASE UNCHANGED vars
  <2>1. SharedTypeOK' /\ InHand' /\ Apart'
    BY <1>2 DEF vars, SharingInv, SharedTypeOK, InHand, Apart
  <2>2. AtHome'
    BY <1>2 DEF vars, SharingInv, AtHome, Home, Held
  <2>3. CacheAsDelivered'
    BY <1>2, StillDelivered DEF vars
  <2>4. QED
    BY <2>1, <2>2, <2>3 DEF SharingInv
<1>3. QED
  BY <1>1, <1>2

\* SharingInv holds in every reachable state of the objects and the copies of them.
THEOREM SharingInvariant == Spec => []SharingInv
<1>1. QED
  BY SharedInit, SharedNext, PTL DEF Spec

\* Copies share no memory with the informer's cache, as DeepCopyInto goes down every
\* reference of the types.
THEOREM CopiesStayPrivate == Spec => []CopiesArePrivate
<1>1. SharingInv => CopiesArePrivate
  <2> SUFFICES ASSUME SharingInv, NEW i \in Held, NEW j \in Held,
                      NEW p \in KnativeServing, NEW q \in KnativeServing,
                      i # j, struct[i][p] # Nil, struct[i][p] = struct[j][q]
               PROVE  {i, j} = {resource, existing} /\ p = Conditions /\ q = Conditions
    BY DEF CopiesArePrivate
  <2>1. CASE Home(i, p) /\ Home(j, q)
    BY <2>1, OneCell DEF Home
  <2>2. CASE ~Home(i, p)
    <3>1. i = existing /\ p = Conditions /\ struct[i][p] = struct[resource][p] /\ resource \in Held
      BY <2>2, HomeFacts DEF SharingInv, AtHome, InHand, Held
    <3>2. struct[i][p] = <<resource, p>>
      BY <3>1, HomeFacts DEF SharingInv, Apart, Home, Held
    <3>3. struct[j][q] = <<j, q>>
      BY <2>2, <3>1, HomeFacts DEF Home
    <3>4. QED
      BY <3>1, <3>2, <3>3, OneCell
  <2>3. CASE ~Home(j, q)
    <3>1. j = existing /\ q = Conditions /\ struct[j][q] = struct[resource][q] /\ resource \in Held
      BY <2>3, HomeFacts DEF SharingInv, AtHome, InHand, Held
    <3>2. struct[j][q] = <<resource, q>>
      BY <3>1, HomeFacts DEF SharingInv, Apart, Home, Held
    <3>3. struct[i][p] = <<i, p>>
      BY <2>3, <3>1, HomeFacts DEF Home
    <3>4. QED
      BY <3>1, <3>2, <3>3, OneCell
  <2>4. QED
    BY <2>1, <2>2, <2>3
<1>2. QED
  BY <1>1, SharingInvariant, PTL

\* No write of a reconciler reaches spec or status of a cached KnativeServing.
THEOREM CacheStaysAsDelivered == Spec => []CacheAsDelivered
<1>1. SharingInv => CacheAsDelivered
  BY DEF SharingInv
<1>2. QED
  BY <1>1, SharingInvariant, PTL

=============================================================================
