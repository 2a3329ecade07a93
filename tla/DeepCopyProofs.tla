---------------------------- MODULE DeepCopyProofs ----------------------------
(***************************************************************************)
(* That the copies of DeepCopy share nothing and look the same, for lists  *)
(* of any length and any number of copies and writes.  The order of the    *)
(* proof is that of the functions: a cell, the structs, the lists, the     *)
(* object; then the steps.                                                 *)
(***************************************************************************)
EXTENDS DeepCopy, SequenceTheorems, TLAPS

(* An address determines its parts, and only number 0 has the nil one.     *)
LEMMA Addresses ==
  ASSUME NEW n, NEW i, NEW f
  PROVE  /\ At(n, i, f)[1] = n /\ At(n, i, f)[2] = i
         /\ \A n2, i2, f2 : At(n2, i2, f2) = At(n, i, f) => n2 = n /\ i2 = i /\ f2 = f
         /\ n # 0 => At(n, i, f) # Nil
BY DEF At, Nil
-----------------------------------------------------------------------------
(* The objects as they are in the memory: a reference is nil or the        *)
(* address that belongs to its place, and there is a plain value there.    *)
CellOK(m, a) == a \in DOMAIN m /\ m[a] \in Values
RefOK(m, r, a) == r = Nil \/ (r = a /\ CellOK(m, a))

MetaOK(m, x, n, i) ==
  /\ x = [name |-> x.name, annotations |-> x.annotations, finalizers |-> x.finalizers]
  /\ RefOK(m, x.annotations, At(n, i, "annotations"))
  /\ RefOK(m, x.finalizers, At(n, i, "finalizers"))

StatusOK(m, x, n, i) ==
  /\ x = [applied |-> x.applied, conditions |-> x.conditions]
  /\ RefOK(m, x.conditions, At(n, i, "conditions"))

ClusterOK(m, x, n, i) ==
  /\ x = [meta |-> x.meta, spec |-> x.spec, status |-> x.status]
  /\ MetaOK(m, x.meta, n, i)
  /\ StatusOK(m, x.status, n, i)

KubeconfigOK(m, x, n, i) ==
  /\ x = [meta |-> x.meta, spec |-> x.spec]
  /\ MetaOK(m, x.meta, n, i)

ItemOK(kind, m, x, n, i) ==
  IF kind = "ClusterList" THEN ClusterOK(m, x, n, i) ELSE KubeconfigOK(m, x, n, i)

ListOK(kind, m, x, n) ==
  /\ x = [items |-> x.items]
  /\ \/ x.items = Nil
     \/ /\ x.items = At(n, 0, "items")
        /\ x.items \in DOMAIN m
        /\ \A i \in DOMAIN m[x.items] : ItemOK(kind, m, m[x.items][i], n, i)

StructOK(kind, m, x, n) ==
  /\ kind = "Cluster" => ClusterOK(m, x, n, 0)
  /\ kind = "Kubeconfig" => KubeconfigOK(m, x, n, 0)
  /\ kind = "ClusterStatus" => StatusOK(m, x, n, 0)
  /\ kind \in Lists => ListOK(kind, m, x, n)

StructAt(n) == At(n, 0, "struct")
ObjectOK(kind, m, n) == StructAt(n) \in DOMAIN m /\ StructOK(kind, m, m[StructAt(n)], n)

(* The cells that a function has filled are in the memory.                 *)
Contains(m, new) == \A a \in DOMAIN new : a \in DOMAIN m /\ m[a] = new[a]
-----------------------------------------------------------------------------
(* Filling the cells of two functions is filling both, if they are others. *)
LEMMA BothContained ==
  ASSUME NEW f, NEW g, NEW m, DOMAIN f \cap DOMAIN g = {}, Contains(m, Both(f, g))
  PROVE  Contains(m, f) /\ Contains(m, g)
BY DEF Contains, Both

(* The cells of both are the cells of each.                                *)
LEMMA BothDomain ==
  ASSUME NEW f, NEW g
  PROVE  DOMAIN Both(f, g) = DOMAIN f \cup DOMAIN g
BY DEF Both

(* A copied map or slice has a cell of its own with the same contents.     *)
LEMMA CopyCellCopies ==
  ASSUME NEW m, NEW r, NEW from, NEW to, to # Nil, RefOK(m, r, from)
  PROVE  /\ DOMAIN CopyCell(m, r, to).new \subseteq {to}
         /\ \A m2 : Contains(m2, CopyCell(m, r, to).new) =>
              /\ RefOK(m2, CopyCell(m, r, to).val, to)
              /\ See(m2, CopyCell(m, r, to).val) = See(m, r)
<1>1. CASE r = Nil
  BY <1>1 DEF CopyCell, Result, NoCells, RefOK, See
<1>2. CASE r # Nil
  <2>1. CopyCell(m, r, to) = [new |-> [b \in {to} |-> m[r]], val |-> to]
    BY <1>2 DEF CopyCell, Result, OneCell
  <2>2. m[r] \in Values
    BY <1>2 DEF RefOK, CellOK
  <2> QED BY <1>2, <2>1, <2>2 DEF Contains, RefOK, CellOK, See
<1> QED BY <1>1, <1>2

(* ObjectMeta's references each get a cell of their own.                   *)
LEMMA MetaCopies ==
  ASSUME NEW m, NEW x, NEW n, NEW N, NEW i, N # 0, MetaOK(m, x, n, i)
  PROVE  /\ DOMAIN ObjectMetaDeepCopyInto(m, x, N, i).new
              \subseteq {At(N, i, "annotations"), At(N, i, "finalizers")}
         /\ \A m2 : Contains(m2, ObjectMetaDeepCopyInto(m, x, N, i).new) =>
              /\ MetaOK(m2, ObjectMetaDeepCopyInto(m, x, N, i).val, N, i)
              /\ MetaValue(m2, ObjectMetaDeepCopyInto(m, x, N, i).val) = MetaValue(m, x)
<1> DEFINE a == CopyCell(m, x.annotations, At(N, i, "annotations"))
           f == CopyCell(m, x.finalizers, At(N, i, "finalizers"))
           r == ObjectMetaDeepCopyInto(m, x, N, i)
<1>1. /\ r.new = Both(a.new, f.new)
      /\ r.val = [name |-> x.name, annotations |-> a.val, finalizers |-> f.val]
  BY DEF ObjectMetaDeepCopyInto, Result, MetaOK
<1>2. At(N, i, "annotations") # Nil /\ At(N, i, "finalizers") # Nil
  BY Addresses
<1>3. At(N, i, "annotations") # At(N, i, "finalizers")
  BY Addresses
<1>4. /\ DOMAIN a.new \subseteq {At(N, i, "annotations")}
      /\ \A m2 : Contains(m2, a.new) => /\ RefOK(m2, a.val, At(N, i, "annotations"))
                                        /\ See(m2, a.val) = See(m, x.annotations)
  BY <1>2, CopyCellCopies DEF MetaOK
<1>5. /\ DOMAIN f.new \subseteq {At(N, i, "finalizers")}
      /\ \A m2 : Contains(m2, f.new) => /\ RefOK(m2, f.val, At(N, i, "finalizers"))
                                        /\ See(m2, f.val) = See(m, x.finalizers)
  BY <1>2, CopyCellCopies DEF MetaOK
<1> HIDE DEF a, f, r
<1>6. DOMAIN r.new \subseteq {At(N, i, "annotations"), At(N, i, "finalizers")}
  <2>1. DOMAIN r.new = DOMAIN a.new \cup DOMAIN f.new
    BY <1>1, BothDomain
  <2> QED BY <2>1, <1>4, <1>5
<1>7. ASSUME NEW m2, Contains(m2, r.new)
      PROVE  MetaOK(m2, r.val, N, i) /\ MetaValue(m2, r.val) = MetaValue(m, x)
  <2>1. Contains(m2, a.new) /\ Contains(m2, f.new)
    BY <1>1, <1>3, <1>4, <1>5, <1>7, BothContained
  <2> QED BY <1>1, <1>4, <1>5, <2>1 DEF MetaOK, MetaValue
<1> QED BY <1>6, <1>7 DEF r

(* So do the conditions of a status.                                       *)
LEMMA StatusCopies ==
  ASSUME NEW m, NEW x, NEW n, NEW N, NEW i, N # 0, StatusOK(m, x, n, i)
  PROVE  /\ DOMAIN ClusterStatusDeepCopyInto(m, x, N, i).new \subseteq {At(N, i, "conditions")}
         /\ \A m2 : Contains(m2, ClusterStatusDeepCopyInto(m, x, N, i).new) =>
              /\ StatusOK(m2, ClusterStatusDeepCopyInto(m, x, N, i).val, N, i)
              /\ ClusterStatusDeepCopyInto(m, x, N, i).val.applied = x.applied
              /\ See(m2, ClusterStatusDeepCopyInto(m, x, N, i).val.conditions)
                   = See(m, x.conditions)
<1> DEFINE c == CopyCell(m, x.conditions, At(N, i, "conditions"))
           r == ClusterStatusDeepCopyInto(m, x, N, i)
<1>1. r.new = c.new /\ r.val = [applied |-> x.applied, conditions |-> c.val]
  BY DEF ClusterStatusDeepCopyInto, Result, StatusOK
<1>2. At(N, i, "conditions") # Nil
  BY Addresses
<1>3. /\ DOMAIN c.new \subseteq {At(N, i, "conditions")}
      /\ \A m2 : Contains(m2, c.new) => /\ RefOK(m2, c.val, At(N, i, "conditions"))
                                        /\ See(m2, c.val) = See(m, x.conditions)
  BY <1>2, CopyCellCopies DEF StatusOK
<1> HIDE DEF c, r
<1>4. ASSUME NEW m2, Contains(m2, r.new)
      PROVE  /\ StatusOK(m2, r.val, N, i) /\ r.val.applied = x.applied
             /\ See(m2, r.val.conditions) = See(m, x.conditions)
  BY <1>1, <1>3, <1>4 DEF StatusOK
<1> QED BY <1>1, <1>3, <1>4 DEF r

(* A cluster is copied part by part; no two parts share a cell.            *)
LEMMA ClusterCopies ==
  ASSUME NEW m, NEW x, NEW n, NEW N, NEW i, N # 0, ClusterOK(m, x, n, i)
  PROVE  /\ DOMAIN ClusterDeepCopyInto(m, x, N, i).new \subseteq
              {At(N, i, "annotations"), At(N, i, "finalizers"), At(N, i, "conditions")}
         /\ \A m2 : Contains(m2, ClusterDeepCopyInto(m, x, N, i).new) =>
              /\ ClusterOK(m2, ClusterDeepCopyInto(m, x, N, i).val, N, i)
              /\ ClusterValue(m2, ClusterDeepCopyInto(m, x, N, i).val) = ClusterValue(m, x)
<1> DEFINE meta == ObjectMetaDeepCopyInto(m, x.meta, N, i)
           status == ClusterStatusDeepCopyInto(m, x.status, N, i)
           r == ClusterDeepCopyInto(m, x, N, i)
<1>1. /\ r.new = Both(meta.new, status.new)
      /\ r.val = [meta |-> meta.val, spec |-> x.spec, status |-> status.val]
  BY DEF ClusterDeepCopyInto, Result, ClusterOK
<1>2. At(N, i, "conditions") \notin {At(N, i, "annotations"), At(N, i, "finalizers")}
  BY Addresses
<1>3. /\ DOMAIN meta.new \subseteq {At(N, i, "annotations"), At(N, i, "finalizers")}
      /\ \A m2 : Contains(m2, meta.new) => /\ MetaOK(m2, meta.val, N, i)
                                           /\ MetaValue(m2, meta.val) = MetaValue(m, x.meta)
  BY MetaCopies DEF ClusterOK
<1>4. /\ DOMAIN status.new \subseteq {At(N, i, "conditions")}
      /\ \A m2 : Contains(m2, status.new) =>
           /\ StatusOK(m2, status.val, N, i)
           /\ status.val.applied = x.status.applied
           /\ See(m2, status.val.conditions) = See(m, x.status.conditions)
  BY StatusCopies DEF ClusterOK
<1> HIDE DEF meta, status, r
<1>5. DOMAIN r.new \subseteq
        {At(N, i, "annotations"), At(N, i, "finalizers"), At(N, i, "conditions")}
  <2>1. DOMAIN r.new = DOMAIN meta.new \cup DOMAIN status.new
    BY <1>1, BothDomain
  <2> QED BY <2>1, <1>3, <1>4
<1>6. ASSUME NEW m2, Contains(m2, r.new)
      PROVE  ClusterOK(m2, r.val, N, i) /\ ClusterValue(m2, r.val) = ClusterValue(m, x)
  <2>1. DOMAIN meta.new \cap DOMAIN status.new = {}
    BY <1>2, <1>3, <1>4
  <2>2. Contains(m2, meta.new) /\ Contains(m2, status.new)
    BY <1>1, <1>6, <2>1, BothContained
  <2> QED BY <1>1, <1>3, <1>4, <2>2 DEF ClusterOK, ClusterValue
<1> QED BY <1>5, <1>6 DEF r

(* A Kubeconfig has its ObjectMeta's references only.                      *)
LEMMA KubeconfigCopies ==
  ASSUME NEW m, NEW x, NEW n, NEW N, NEW i, N # 0, KubeconfigOK(m, x, n, i)
  PROVE  /\ DOMAIN KubeconfigDeepCopyInto(m, x, N, i).new \subseteq
              {At(N, i, "annotations"), At(N, i, "finalizers")}
         /\ \A m2 : Contains(m2, KubeconfigDeepCopyInto(m, x, N, i).new) =>
              /\ KubeconfigOK(m2, KubeconfigDeepCopyInto(m, x, N, i).val, N, i)
              /\ KubeconfigValue(m2, KubeconfigDeepCopyInto(m, x, N, i).val)
                   = KubeconfigValue(m, x)
<1> DEFINE meta == ObjectMetaDeepCopyInto(m, x.meta, N, i)
           r == KubeconfigDeepCopyInto(m, x, N, i)
<1>1. r.new = meta.new /\ r.val = [meta |-> meta.val, spec |-> x.spec]
  BY DEF KubeconfigDeepCopyInto, Result, KubeconfigOK
<1>2. /\ DOMAIN meta.new \subseteq {At(N, i, "annotations"), At(N, i, "finalizers")}
      /\ \A m2 : Contains(m2, meta.new) => /\ MetaOK(m2, meta.val, N, i)
                                           /\ MetaValue(m2, meta.val) = MetaValue(m, x.meta)
  BY MetaCopies DEF KubeconfigOK
<1> HIDE DEF meta, r
<1>3. ASSUME NEW m2, Contains(m2, r.new)
      PROVE  KubeconfigOK(m2, r.val, N, i) /\ KubeconfigValue(m2, r.val) = KubeconfigValue(m, x)
  BY <1>1, <1>2, <1>3 DEF KubeconfigOK, KubeconfigValue
<1> QED BY <1>1, <1>2, <1>3 DEF r
-----------------------------------------------------------------------------
(* The slice of a list: the cells of every item are in the memory, and its *)
(* items are the copied structs.                                           *)
LEMMA SliceContained ==
  ASSUME NEW N, NEW items, NEW m,
         \A i \in DOMAIN items : \A a \in DOMAIN items[i].new :
           \E f \in {"annotations", "finalizers", "conditions"} : a = At(N, i, f),
         Contains(m, MakeSlice(N, items).new)
  PROVE  /\ At(N, 0, "items") \in DOMAIN m
         /\ m[At(N, 0, "items")] = [i \in DOMAIN items |-> items[i].val]
         /\ \A i \in DOMAIN items : Contains(m, items[i].new)
<1> DEFINE cells == UNION {DOMAIN items[i].new : i \in DOMAIN items}
           slice == [i \in DOMAIN items |-> items[i].val]
           one == OneCell(At(N, 0, "items"), slice)
           all == [a \in cells |-> items[a[2]].new[a]]
<1>1. MakeSlice(N, items).new = Both(one, all)
  BY DEF MakeSlice, Result
<1>2. DOMAIN one = {At(N, 0, "items")} /\ one[At(N, 0, "items")] = slice
  BY DEF OneCell
<1>3. DOMAIN all = cells
  OBVIOUS
<1>4. At(N, 0, "items") \notin cells
  BY Addresses
<1>5. Contains(m, one) /\ Contains(m, all)
  <2>1. DOMAIN one \cap DOMAIN all = {}
    BY <1>2, <1>3, <1>4
  <2> HIDE DEF one, all
  <2> QED BY <1>1, <2>1, BothContained
<1>6. ASSUME NEW i \in DOMAIN items
      PROVE  Contains(m, items[i].new)
  <2> SUFFICES ASSUME NEW a \in DOMAIN items[i].new
               PROVE  a \in DOMAIN m /\ m[a] = items[i].new[a]
    BY DEF Contains
  <2>1. a[2] = i /\ a \in cells
    BY Addresses
  <2>2. all[a] = items[i].new[a]
    BY <2>1
  <2> HIDE DEF all, cells
  <2> QED BY <1>3, <1>5, <2>1, <2>2 DEF Contains
<1> QED BY <1>2, <1>5, <1>6 DEF Contains

(* All cells of a slice have the number of the new list.                   *)
LEMMA SliceDomain ==
  ASSUME NEW N, NEW items,
         \A i \in DOMAIN items : \A a \in DOMAIN items[i].new :
           \E f \in {"annotations", "finalizers", "conditions"} : a = At(N, i, f)
  PROVE  \A a \in DOMAIN MakeSlice(N, items).new : a[1] = N /\ a # StructAt(N)
<1> DEFINE cells == UNION {DOMAIN items[i].new : i \in DOMAIN items}
           all == [a \in cells |-> items[a[2]].new[a]]
           one == OneCell(At(N, 0, "items"), [i \in DOMAIN items |-> items[i].val])
<1>1. MakeSlice(N, items).new = Both(one, all)
  BY DEF MakeSlice, Result
<1>2. DOMAIN one = {At(N, 0, "items")} /\ DOMAIN all = cells
  BY DEF OneCell
<1>3. DOMAIN MakeSlice(N, items).new = {At(N, 0, "items")} \cup cells
  <2> HIDE DEF one, all, cells
  <2> QED BY <1>1, <1>2, BothDomain
<1> QED BY <1>3, Addresses DEF StructAt

(* What is said of a copied list: it is a list of its own, nil if the list *)
(* was, and otherwise of items that look the same.                         *)
CopiedList(kind, m, x, m2, y, N) ==
  /\ ListOK(kind, m2, y, N)
  /\ x.items = Nil => y = x
  /\ x.items # Nil =>
       /\ y.items # Nil
       /\ DOMAIN m2[y.items] = DOMAIN m[x.items]
       /\ \A i \in DOMAIN m[x.items] :
            IF kind = "ClusterList"
            THEN ClusterValue(m2, m2[y.items][i]) = ClusterValue(m, m[x.items][i])
            ELSE KubeconfigValue(m2, m2[y.items][i]) = KubeconfigValue(m, m[x.items][i])

(* DeepCopyInto of a list of clusters, for any number of items.            *)
LEMMA ClusterListCopies ==
  ASSUME NEW m, NEW x, NEW n, NEW N, n # 0, N # 0, ListOK("ClusterList", m, x, n)
  PROVE  /\ \A a \in DOMAIN ClusterListDeepCopyInto(m, x, N).new : a[1] = N /\ a # StructAt(N)
         /\ \A m2 : Contains(m2, ClusterListDeepCopyInto(m, x, N).new) =>
              CopiedList("ClusterList", m, x, m2, ClusterListDeepCopyInto(m, x, N).val, N)
<1> DEFINE r == ClusterListDeepCopyInto(m, x, N)
<1>1. CASE x.items = Nil
  <2>1. r.new = NoCells /\ r.val = x
    BY <1>1 DEF ClusterListDeepCopyInto, Result
  <2>2. DOMAIN NoCells = {}
    BY DEF NoCells
  <2> HIDE DEF r
  <2>3. \A m2 : ListOK("ClusterList", m2, x, N)
    BY <1>1 DEF ListOK
  <2> QED BY <1>1, <2>1, <2>2, <2>3 DEF CopiedList, r
<1>2. CASE x.items # Nil
  <2> DEFINE s == m[x.items]
             items == [i \in DOMAIN s |-> ClusterDeepCopyInto(m, s[i], N, i)]
             slice == MakeSlice(N, items)
  <2>1. r.new = slice.new /\ r.val = [items |-> At(N, 0, "items")]
    BY <1>2 DEF ClusterListDeepCopyInto, Result, MakeSlice, ListOK
  <2>2. ASSUME NEW i \in DOMAIN s
        PROVE  ClusterOK(m, s[i], n, i)
    BY <1>2, <2>2 DEF ListOK, ItemOK
  <2>3. ASSUME NEW i \in DOMAIN items
        PROVE  /\ \A a \in DOMAIN items[i].new :
                    \E f \in {"annotations", "finalizers", "conditions"} : a = At(N, i, f)
               /\ \A m2 : Contains(m2, items[i].new) =>
                    /\ ClusterOK(m2, items[i].val, N, i)
                    /\ ClusterValue(m2, items[i].val) = ClusterValue(m, s[i])
    <3>1. i \in DOMAIN s /\ items[i] = ClusterDeepCopyInto(m, s[i], N, i)
      OBVIOUS
    <3>2. ClusterOK(m, s[i], n, i)
      BY <2>2, <3>1
    <3> HIDE DEF items, s
    <3> QED BY <3>1, <3>2, ClusterCopies
  <2>4. DOMAIN items = DOMAIN s
    OBVIOUS
  <2> HIDE DEF items, s, r
  <2>5. \A a \in DOMAIN r.new : a[1] = N /\ a # StructAt(N)
    BY <2>1, <2>3, SliceDomain
  <2>6. ASSUME NEW m2, Contains(m2, r.new)
        PROVE  CopiedList("ClusterList", m, x, m2, r.val, N)
    <3>1. /\ At(N, 0, "items") \in DOMAIN m2
          /\ m2[At(N, 0, "items")] = [i \in DOMAIN items |-> items[i].val]
          /\ \A i \in DOMAIN items : Contains(m2, items[i].new)
      BY <2>1, <2>3, <2>6, SliceContained
    <3>2. \A i \in DOMAIN items : /\ ClusterOK(m2, items[i].val, N, i)
                                  /\ ClusterValue(m2, items[i].val) = ClusterValue(m, s[i])
      BY <2>3, <3>1
    <3>3. r.val.items = At(N, 0, "items") /\ r.val.items # Nil
      BY <2>1, Addresses
    <3>4. ListOK("ClusterList", m2, r.val, N)
      BY <2>1, <3>1, <3>2 DEF ListOK, ItemOK
    <3>5. /\ DOMAIN m2[r.val.items] = DOMAIN m[x.items]
          /\ \A i \in DOMAIN m[x.items] :
               ClusterValue(m2, m2[r.val.items][i]) = ClusterValue(m, m[x.items][i])
      BY <2>1, <2>4, <3>1, <3>2 DEF s
    <3> QED BY <1>2, <3>3, <3>4, <3>5 DEF CopiedList
  <2> QED BY <2>5, <2>6 DEF r
<1> QED BY <1>1, <1>2

(* DeepCopyInto of a list of Kubeconfigs, for any number of items.         *)
LEMMA KubeconfigListCopies ==
  ASSUME NEW m, NEW x, NEW n, NEW N, n # 0, N # 0, ListOK("KubeconfigList", m, x, n)
  PROVE  /\ \A a \in DOMAIN KubeconfigListDeepCopyInto(m, x, N).new : a[1] = N /\ a # StructAt(N)
         /\ \A m2 : Contains(m2, KubeconfigListDeepCopyInto(m, x, N).new) =>
              CopiedList("KubeconfigList", m, x, m2, KubeconfigListDeepCopyInto(m, x, N).val, N)
<1> DEFINE r == KubeconfigListDeepCopyInto(m, x, N)
<1>1. CASE x.items = Nil
  <2>1. r.new = NoCells /\ r.val = x
    BY <1>1 DEF KubeconfigListDeepCopyInto, Result
  <2>2. DOMAIN NoCells = {}
    BY DEF NoCells
  <2> HIDE DEF r
  <2>3. \A m2 : ListOK("KubeconfigList", m2, x, N)
    BY <1>1 DEF ListOK
  <2> QED BY <1>1, <2>1, <2>2, <2>3 DEF CopiedList, r
<1>2. CASE x.items # Nil
  <2> DEFINE s == m[x.items]
             items == [i \in DOMAIN s |-> KubeconfigDeepCopyInto(m, s[i], N, i)]
             slice == MakeSlice(N, items)
  <2>1. r.new = slice.new /\ r.val = [items |-> At(N, 0, "items")]
    BY <1>2 DEF KubeconfigListDeepCopyInto, Result, MakeSlice, ListOK
  <2>2. ASSUME NEW i \in DOMAIN s
        PROVE  KubeconfigOK(m, s[i], n, i)
    BY <1>2, <2>2 DEF ListOK, ItemOK
  <2>3. ASSUME NEW i \in DOMAIN items
        PROVE  /\ \A a \in DOMAIN items[i].new :
                    \E f \in {"annotations", "finalizers", "conditions"} : a = At(N, i, f)
               /\ \A m2 : Contains(m2, items[i].new) =>
                    /\ KubeconfigOK(m2, items[i].val, N, i)
                    /\ KubeconfigValue(m2, items[i].val) = KubeconfigValue(m, s[i])
    <3>1. i \in DOMAIN s /\ items[i] = KubeconfigDeepCopyInto(m, s[i], N, i)
      OBVIOUS
    <3>2. KubeconfigOK(m, s[i], n, i)
      BY <2>2, <3>1
    <3> HIDE DEF items, s
    <3> QED BY <3>1, <3>2, KubeconfigCopies
  <2>4. DOMAIN items = DOMAIN s
    OBVIOUS
  <2> HIDE DEF items, s, r
  <2>5. \A a \in DOMAIN r.new : a[1] = N /\ a # StructAt(N)
    BY <2>1, <2>3, SliceDomain
  <2>6. ASSUME NEW m2, Contains(m2, r.new)
        PROVE  CopiedList("KubeconfigList", m, x, m2, r.val, N)
    <3>1. /\ At(N, 0, "items") \in DOMAIN m2
          /\ m2[At(N, 0, "items")] = [i \in DOMAIN items |-> items[i].val]
          /\ \A i \in DOMAIN items : Contains(m2, items[i].new)
      BY <2>1, <2>3, <2>6, SliceContained
    <3>2. \A i \in DOMAIN items : /\ KubeconfigOK(m2, items[i].val, N, i)
                                  /\ KubeconfigValue(m2, items[i].val) = KubeconfigValue(m, s[i])
      BY <2>3, <3>1
    <3>3. r.val.items = At(N, 0, "items") /\ r.val.items # Nil
      BY <2>1, Addresses
    <3>4. ListOK("KubeconfigList", m2, r.val, N)
      BY <2>1, <3>1, <3>2 DEF ListOK, ItemOK
    <3>5. /\ DOMAIN m2[r.val.items] = DOMAIN m[x.items]
          /\ \A i \in DOMAIN m[x.items] :
               KubeconfigValue(m2, m2[r.val.items][i]) = KubeconfigValue(m, m[x.items][i])
      BY <2>1, <2>4, <3>1, <3>2 DEF s
    <3> QED BY <1>2, <3>3, <3>4, <3>5 DEF CopiedList
  <2> QED BY <2>5, <2>6 DEF r
<1> QED BY <1>1, <1>2

-----------------------------------------------------------------------------
(* What one sees of an object, kind by kind.                               *)
LEMMA ValueIs ==
  ASSUME NEW kind \in Kinds, NEW m, NEW p, p # Nil
  PROVE  /\ kind = "Cluster" => Value(kind, m, p) = ClusterValue(m, m[p])
         /\ kind = "Kubeconfig" => Value(kind, m, p) = KubeconfigValue(m, m[p])
         /\ kind = "ClusterStatus" =>
              Value(kind, m, p) = <<m[p].applied, See(m, m[p].conditions)>>
         /\ (kind = "ClusterList" /\ m[p].items # Nil) =>
              Value(kind, m, p)
                = [i \in DOMAIN m[m[p].items] |-> ClusterValue(m, m[m[p].items][i])]
         /\ (kind = "KubeconfigList" /\ m[p].items # Nil) =>
              Value(kind, m, p)
                = [i \in DOMAIN m[m[p].items] |-> KubeconfigValue(m, m[m[p].items][i])]
         /\ (kind \in Lists /\ m[p].items = Nil) => Value(kind, m, p) = m[p]
         /\ kind \in {"ClusterCondition", "ClusterSpec", "KubeconfigSpec"} =>
              Value(kind, m, p) = m[p]
<1>1. kind \in {"Cluster", "ClusterList", "ClusterStatus", "ClusterCondition", "ClusterSpec",
               "Kubeconfig", "KubeconfigList", "KubeconfigSpec"}
  BY DEF Kinds
<1>2. CASE kind = "Cluster" BY <1>2 DEF Value, Lists
<1>3. CASE kind = "Kubeconfig" BY <1>3 DEF Value, Lists
<1>4. CASE kind = "ClusterStatus" BY <1>4 DEF Value, Lists
<1>5. CASE kind = "ClusterList" BY <1>5 DEF Value, Lists
<1>6. CASE kind = "KubeconfigList" BY <1>6 DEF Value, Lists
<1>7. CASE kind \in {"ClusterCondition", "ClusterSpec", "KubeconfigSpec"}
  BY <1>7 DEF Value, Lists
<1> QED BY <1>1, <1>2, <1>3, <1>4, <1>5, <1>6, <1>7

(* A new object has cells of its own number and looks like the old one.    *)
LEMMA ObjectCopies ==
  ASSUME NEW kind \in Kinds, NEW m, NEW n, NEW N, n # 0, N # 0, ObjectOK(kind, m, n),
         NEW r, r = New(RegisterDeepCopies(kind, m, m[StructAt(n)], N), N)
  PROVE  /\ r.val = StructAt(N)
         /\ \A a \in DOMAIN r.new : a[1] = N
         /\ \A m2 : Contains(m2, r.new) =>
              /\ ObjectOK(kind, m2, N)
              /\ Value(kind, m2, StructAt(N)) = Value(kind, m, StructAt(n))
<1> DEFINE x == m[StructAt(n)]
           c == RegisterDeepCopies(kind, m, x, N)
           one == OneCell(StructAt(N), c.val)
<1>1. StructAt(n) # Nil /\ StructAt(N) # Nil /\ StructAt(N)[1] = N
  BY Addresses DEF StructAt
<1>2. r.val = StructAt(N) /\ r.new = Both(one, c.new)
  BY DEF New, Result, StructAt
<1>3. DOMAIN one = {StructAt(N)} /\ one[StructAt(N)] = c.val
  BY DEF OneCell
<1>4. StructOK(kind, m, x, n)
  BY DEF ObjectOK
<1> SUFFICES /\ \A a \in DOMAIN c.new : a[1] = N /\ a # StructAt(N)
             /\ \A m2 : (Contains(m2, c.new) /\ m2[StructAt(N)] = c.val) =>
                  /\ StructOK(kind, m2, c.val, N)
                  /\ Value(kind, m2, StructAt(N)) = Value(kind, m, StructAt(n))
  <2> HIDE DEF x, c, one
  <2>1. \A a \in DOMAIN r.new : a[1] = N
    <3>1. DOMAIN r.new = DOMAIN one \cup DOMAIN c.new
      BY <1>2, BothDomain
    <3> QED BY <3>1, <1>1, <1>3
  <2>2. ASSUME NEW m2, Contains(m2, r.new)
        PROVE  /\ ObjectOK(kind, m2, N)
               /\ Value(kind, m2, StructAt(N)) = Value(kind, m, StructAt(n))
    <3>1. DOMAIN one \cap DOMAIN c.new = {}
      BY <1>3
    <3>2. Contains(m2, one) /\ Contains(m2, c.new)
      BY <1>2, <2>2, <3>1, BothContained
    <3> QED BY <1>3, <3>2 DEF Contains, ObjectOK
  <2> QED BY <1>2, <2>1, <2>2
<1>5. CASE kind = "Cluster"
  <2>1. c = ClusterDeepCopyInto(m, x, N, 0)
    BY <1>5 DEF RegisterDeepCopies
  <2>2. ClusterOK(m, x, n, 0)
    BY <1>4, <1>5 DEF StructOK
  <2>3. /\ \A a \in DOMAIN c.new : \E f \in {"annotations", "finalizers", "conditions"} : a = At(N, 0, f)
        /\ \A m2 : Contains(m2, c.new) => /\ ClusterOK(m2, c.val, N, 0)
                                          /\ ClusterValue(m2, c.val) = ClusterValue(m, x)
    BY <2>1, <2>2, ClusterCopies
  <2> HIDE DEF c
  <2>4. \A a \in DOMAIN c.new : a[1] = N /\ a # StructAt(N)
    BY <2>3, Addresses DEF StructAt
  <2>5. ASSUME NEW m2, Contains(m2, c.new), m2[StructAt(N)] = c.val
        PROVE  /\ StructOK(kind, m2, c.val, N)
               /\ Value(kind, m2, StructAt(N)) = Value(kind, m, StructAt(n))
    <3>1. /\ Value(kind, m2, StructAt(N)) = ClusterValue(m2, c.val)
          /\ Value(kind, m, StructAt(n)) = ClusterValue(m, x)
      BY <1>1, <1>5, <2>5, ValueIs
    <3> QED BY <1>5, <2>3, <2>5, <3>1 DEF StructOK, Lists
  <2> QED BY <2>4, <2>5
<1>6. CASE kind = "Kubeconfig"
  <2>1. c = KubeconfigDeepCopyInto(m, x, N, 0)
    BY <1>6 DEF RegisterDeepCopies
  <2>2. KubeconfigOK(m, x, n, 0)
    BY <1>4, <1>6 DEF StructOK
  <2>3. /\ \A a \in DOMAIN c.new : \E f \in {"annotations", "finalizers", "conditions"} : a = At(N, 0, f)
        /\ \A m2 : Contains(m2, c.new) => /\ KubeconfigOK(m2, c.val, N, 0)
                                          /\ KubeconfigValue(m2, c.val) = KubeconfigValue(m, x)
    BY <2>1, <2>2, KubeconfigCopies
  <2> HIDE DEF c
  <2>4. \A a \in DOMAIN c.new : a[1] = N /\ a # StructAt(N)
    BY <2>3, Addresses DEF StructAt
  <2>5. ASSUME NEW m2, Contains(m2, c.new), m2[StructAt(N)] = c.val
        PROVE  /\ StructOK(kind, m2, c.val, N)
               /\ Value(kind, m2, StructAt(N)) = Value(kind, m, StructAt(n))
    <3>1. /\ Value(kind, m2, StructAt(N)) = KubeconfigValue(m2, c.val)
          /\ Value(kind, m, StructAt(n)) = KubeconfigValue(m, x)
      BY <1>1, <1>6, <2>5, ValueIs
    <3> QED BY <1>6, <2>3, <2>5, <3>1 DEF StructOK, Lists
  <2> QED BY <2>4, <2>5
<1>7. CASE kind = "ClusterStatus"
  <2>1. c = ClusterStatusDeepCopyInto(m, x, N, 0)
    BY <1>7 DEF RegisterDeepCopies
  <2>2. StatusOK(m, x, n, 0)
    BY <1>4, <1>7 DEF StructOK
  <2>3. /\ DOMAIN c.new \subseteq {At(N, 0, "conditions")}
        /\ \A m2 : Contains(m2, c.new) =>
             /\ StatusOK(m2, c.val, N, 0) /\ c.val.applied = x.applied
             /\ See(m2, c.val.conditions) = See(m, x.conditions)
    BY <2>1, <2>2, StatusCopies
  <2> HIDE DEF c
  <2>4. \A a \in DOMAIN c.new : a[1] = N /\ a # StructAt(N)
    BY <2>3, Addresses DEF StructAt
  <2>5. ASSUME NEW m2, Contains(m2, c.new), m2[StructAt(N)] = c.val
        PROVE  /\ StructOK(kind, m2, c.val, N)
               /\ Value(kind, m2, StructAt(N)) = Value(kind, m, StructAt(n))
    <3>1. /\ Value(kind, m2, StructAt(N)) = <<c.val.applied, See(m2, c.val.conditions)>>
          /\ Value(kind, m, StructAt(n)) = <<x.applied, See(m, x.conditions)>>
      BY <1>1, <1>7, <2>5, ValueIs
    <3> QED BY <1>7, <2>3, <2>5, <3>1 DEF StructOK, Lists
  <2> QED BY <2>4, <2>5
<1>8. CASE kind = "ClusterList"
  <2>1. c = ClusterListDeepCopyInto(m, x, N)
    BY <1>8 DEF RegisterDeepCopies
  <2>2. ListOK("ClusterList", m, x, n)
    BY <1>4, <1>8 DEF StructOK, Lists
  <2>3. /\ \A a \in DOMAIN c.new : a[1] = N /\ a # StructAt(N)
        /\ \A m2 : Contains(m2, c.new) => CopiedList("ClusterList", m, x, m2, c.val, N)
    BY <2>1, <2>2, ClusterListCopies
  <2> HIDE DEF c
  <2>4. ASSUME NEW m2, Contains(m2, c.new), m2[StructAt(N)] = c.val
        PROVE  Value(kind, m2, StructAt(N)) = Value(kind, m, StructAt(n))
    BY <1>1, <1>8, <2>3, <2>4, ValueIs DEF CopiedList, Lists
  <2> QED BY <1>8, <2>3, <2>4 DEF StructOK, CopiedList
<1>9. CASE kind = "KubeconfigList"
  <2>1. c = KubeconfigListDeepCopyInto(m, x, N)
    BY <1>9 DEF RegisterDeepCopies
  <2>2. ListOK("KubeconfigList", m, x, n)
    BY <1>4, <1>9 DEF StructOK, Lists
  <2>3. /\ \A a \in DOMAIN c.new : a[1] = N /\ a # StructAt(N)
        /\ \A m2 : Contains(m2, c.new) => CopiedList("KubeconfigList", m, x, m2, c.val, N)
    BY <2>1, <2>2, KubeconfigListCopies
  <2> HIDE DEF c
  <2>4. ASSUME NEW m2, Contains(m2, c.new), m2[StructAt(N)] = c.val
        PROVE  Value(kind, m2, StructAt(N)) = Value(kind, m, StructAt(n))
    BY <1>1, <1>9, <2>3, <2>4, ValueIs DEF CopiedList, Lists
  <2> QED BY <1>9, <2>3, <2>4 DEF StructOK, CopiedList
<1>10. CASE kind \in {"ClusterCondition", "ClusterSpec", "KubeconfigSpec"}
  <2>1. c.new = NoCells /\ c.val = x
    BY <1>10 DEF RegisterDeepCopies, ClusterConditionDeepCopyInto, ClusterSpecDeepCopyInto,
                 KubeconfigSpecDeepCopyInto, Result
  <2>2. DOMAIN NoCells = {}
    BY DEF NoCells
  <2> HIDE DEF c
  <2> QED BY <1>1, <1>10, <2>1, <2>2, ValueIs DEF StructOK, Lists
<1> QED BY <1>5, <1>6, <1>7, <1>8, <1>9, <1>10 DEF Kinds
-----------------------------------------------------------------------------
(* An object stays one when its struct and its slice stay and every plain  *)
(* value is replaced by a plain value.                                     *)
LEMMA StructStays ==
  ASSUME NEW kind \in Kinds, NEW m, NEW m2, NEW x, NEW n, StructOK(kind, m, x, n),
         \A a : a[1] = n /\ a # StructAt(n) /\ CellOK(m, a) => CellOK(m2, a),
         At(n, 0, "items") \in DOMAIN m =>
           At(n, 0, "items") \in DOMAIN m2 /\ m2[At(n, 0, "items")] = m[At(n, 0, "items")]
  PROVE  StructOK(kind, m2, x, n)
<1>1. ASSUME NEW r, NEW i, NEW f \in {"annotations", "finalizers", "conditions"},
             RefOK(m, r, At(n, i, f))
      PROVE  RefOK(m2, r, At(n, i, f))
  BY <1>1, Addresses DEF RefOK, StructAt
<1>2. \A y, i : MetaOK(m, y, n, i) => MetaOK(m2, y, n, i)
  BY <1>1 DEF MetaOK
<1>3. \A y, i : StatusOK(m, y, n, i) => StatusOK(m2, y, n, i)
  BY <1>1 DEF StatusOK
<1>4. /\ \A y, i : ClusterOK(m, y, n, i) => ClusterOK(m2, y, n, i)
      /\ \A y, i : KubeconfigOK(m, y, n, i) => KubeconfigOK(m2, y, n, i)
  BY <1>2, <1>3 DEF ClusterOK, KubeconfigOK
<1>5. ListOK(kind, m, x, n) => ListOK(kind, m2, x, n)
  BY <1>4 DEF ListOK, ItemOK
<1> QED BY <1>3, <1>4, <1>5 DEF StructOK

(* What one sees of a struct depends on the cells it refers to.            *)
LEMMA SeenAlike ==
  ASSUME NEW m, NEW m2, NEW n,
         \A a \in DOMAIN m : a[1] = n => a \in DOMAIN m2 /\ m2[a] = m[a]
  PROVE  /\ \A x, i : StatusOK(m, x, n, i) => See(m2, x.conditions) = See(m, x.conditions)
         /\ \A x, i : ClusterOK(m, x, n, i) => ClusterValue(m2, x) = ClusterValue(m, x)
         /\ \A x, i : KubeconfigOK(m, x, n, i) => KubeconfigValue(m2, x) = KubeconfigValue(m, x)
<1>1. ASSUME NEW r, NEW i, NEW f, RefOK(m, r, At(n, i, f))
      PROVE  See(m2, r) = See(m, r)
  BY <1>1, Addresses DEF RefOK, CellOK, See
<1>2. \A x, i : StatusOK(m, x, n, i) => See(m2, x.conditions) = See(m, x.conditions)
  BY <1>1 DEF StatusOK
<1>3. \A x, i : MetaOK(m, x, n, i) => MetaValue(m2, x) = MetaValue(m, x)
  BY <1>1 DEF MetaOK, MetaValue
<1> QED BY <1>2, <1>3 DEF ClusterOK, KubeconfigOK, ClusterValue, KubeconfigValue

(* An object is what its own cells are: nobody sees other cells through it.*)
LEMMA ObjectFrame ==
  ASSUME NEW kind \in Kinds, NEW m, NEW m2, NEW n, n # 0, ObjectOK(kind, m, n),
         \A a \in DOMAIN m : a[1] = n => a \in DOMAIN m2 /\ m2[a] = m[a]
  PROVE  /\ ObjectOK(kind, m2, n)
         /\ Value(kind, m2, StructAt(n)) = Value(kind, m, StructAt(n))
<1> DEFINE x == m[StructAt(n)]
<1>1. /\ StructAt(n) # Nil
      /\ StructAt(n) \in DOMAIN m2 /\ m2[StructAt(n)] = x
      /\ StructOK(kind, m, x, n)
  BY Addresses DEF ObjectOK, StructAt
<1>2. At(n, 0, "items") \in DOMAIN m =>
        At(n, 0, "items") \in DOMAIN m2 /\ m2[At(n, 0, "items")] = m[At(n, 0, "items")]
  BY Addresses
<1>3. \A a : a[1] = n /\ CellOK(m, a) => CellOK(m2, a)
  BY DEF CellOK
<1>4. StructOK(kind, m2, x, n)
  BY <1>1, <1>2, <1>3, StructStays
<1> SUFFICES Value(kind, m2, StructAt(n)) = Value(kind, m, StructAt(n))
  BY <1>1, <1>4 DEF ObjectOK
<1>5. CASE kind = "Cluster"
  <2>1. ClusterValue(m2, x) = ClusterValue(m, x)
    BY <1>1, <1>5, SeenAlike DEF StructOK
  <2> QED BY <1>1, <1>5, <2>1, ValueIs
<1>6. CASE kind = "Kubeconfig"
  <2>1. KubeconfigValue(m2, x) = KubeconfigValue(m, x)
    BY <1>1, <1>6, SeenAlike DEF StructOK
  <2> QED BY <1>1, <1>6, <2>1, ValueIs
<1>7. CASE kind = "ClusterStatus"
  <2>1. See(m2, x.conditions) = See(m, x.conditions)
    BY <1>1, <1>7, SeenAlike DEF StructOK
  <2> QED BY <1>1, <1>7, <2>1, ValueIs
<1>8. CASE kind \in Lists /\ x.items = Nil
  BY <1>1, <1>8, ValueIs
<1>9. CASE kind \in Lists /\ x.items # Nil
  <2>1. /\ x.items \in DOMAIN m /\ m2[x.items] = m[x.items]
        /\ \A i \in DOMAIN m[x.items] : ItemOK(kind, m, m[x.items][i], n, i)
    BY <1>1, <1>2, <1>9 DEF StructOK, ListOK
  <2>2. CASE kind = "ClusterList"
    <3>1. \A i \in DOMAIN m[x.items] :
            ClusterValue(m2, m[x.items][i]) = ClusterValue(m, m[x.items][i])
      BY <2>1, <2>2, SeenAlike DEF ItemOK
    <3> QED BY <1>1, <1>9, <2>1, <2>2, <3>1, ValueIs
  <2>3. CASE kind = "KubeconfigList"
    <3>1. \A i \in DOMAIN m[x.items] :
            KubeconfigValue(m2, m[x.items][i]) = KubeconfigValue(m, m[x.items][i])
      BY <2>1, <2>3, SeenAlike DEF ItemOK
    <3> QED BY <1>1, <1>9, <2>1, <2>3, <3>1, ValueIs
  <2> QED BY <1>9, <2>2, <2>3 DEF Lists
<1>10. CASE kind \in {"ClusterCondition", "ClusterSpec", "KubeconfigSpec"}
  BY <1>1, <1>10, ValueIs
<1> QED BY <1>5, <1>6, <1>7, <1>8, <1>9, <1>10 DEF Kinds, Lists

(* What one gets to from an object are plain values of its own.            *)
LEMMA ReachIsOwn ==
  ASSUME NEW kind \in Kinds, NEW m, NEW n, n # 0, ObjectOK(kind, m, n),
         NEW a \in Reach(kind, m, StructAt(n))
  PROVE  /\ a[1] = n /\ CellOK(m, a)
         /\ a # StructAt(n) /\ a # At(n, 0, "items")
<1> DEFINE x == m[StructAt(n)]
           Own(b) == /\ b[1] = n /\ CellOK(m, b)
                     /\ b # StructAt(n) /\ b # At(n, 0, "items")
<1>1. StructOK(kind, m, x, n) /\ StructAt(n) # Nil
  BY Addresses DEF ObjectOK, StructAt
<1>2. ASSUME NEW r, NEW i, NEW f \in {"annotations", "finalizers", "conditions"},
             RefOK(m, r, At(n, i, f)), r # Nil
      PROVE  Own(r)
  BY <1>2, Addresses DEF RefOK, StructAt
<1>3. ASSUME NEW y, NEW i, MetaOK(m, y, n, i), NEW b \in MetaRefs(y)
      PROVE  Own(b)
  BY <1>2, <1>3 DEF MetaOK, MetaRefs, Refs
<1>4. ASSUME NEW y, NEW i, StatusOK(m, y, n, i), NEW b \in Refs({y.conditions})
      PROVE  Own(b)
  BY <1>2, <1>4 DEF StatusOK, Refs
<1> HIDE DEF Own
<1>5. ASSUME NEW y, NEW i, ClusterOK(m, y, n, i), NEW b \in ClusterRefs(y)
      PROVE  Own(b)
  BY <1>3, <1>4, <1>5 DEF ClusterOK, ClusterRefs
<1>6. ASSUME NEW y, NEW i, KubeconfigOK(m, y, n, i), NEW b \in MetaRefs(y.meta)
      PROVE  Own(b)
  BY <1>3, <1>6 DEF KubeconfigOK
<1>7. CASE kind = "Cluster"
  <2>1. a \in ClusterRefs(x)
    BY <1>1, <1>7 DEF Reach
  <2> QED BY <1>1, <1>5, <1>7, <2>1 DEF StructOK, Own
<1>8. CASE kind = "Kubeconfig"
  <2>1. a \in MetaRefs(x.meta)
    BY <1>1, <1>8 DEF Reach
  <2> QED BY <1>1, <1>6, <1>8, <2>1 DEF StructOK, Own
<1>9. CASE kind = "ClusterStatus"
  <2>1. a \in Refs({x.conditions})
    BY <1>1, <1>9 DEF Reach
  <2> QED BY <1>1, <1>4, <1>9, <2>1 DEF StructOK, Own
<1>10. CASE kind = "ClusterList"
  <2>1. x.items # Nil /\ \E i \in DOMAIN m[x.items] : a \in ClusterRefs(m[x.items][i])
    BY <1>1, <1>10 DEF Reach
  <2>2. \A i \in DOMAIN m[x.items] : ClusterOK(m, m[x.items][i], n, i)
    BY <1>1, <1>10, <2>1 DEF StructOK, ListOK, ItemOK, Lists
  <2> QED BY <1>5, <2>1, <2>2 DEF Own
<1>11. CASE kind = "KubeconfigList"
  <2>1. x.items # Nil /\ \E i \in DOMAIN m[x.items] : a \in MetaRefs(m[x.items][i].meta)
    BY <1>1, <1>11 DEF Reach
  <2>2. \A i \in DOMAIN m[x.items] : KubeconfigOK(m, m[x.items][i], n, i)
    BY <1>1, <1>11, <2>1 DEF StructOK, ListOK, ItemOK, Lists
  <2> QED BY <1>6, <2>1, <2>2 DEF Own
<1>12. CASE kind \in {"ClusterCondition", "ClusterSpec", "KubeconfigSpec"}
  BY <1>1, <1>12 DEF Reach
<1> QED BY <1>7, <1>8, <1>9, <1>10, <1>11, <1>12 DEF Kinds
-----------------------------------------------------------------------------
(* The invariant: the n-th object held has the cells of number n.          *)
CopyInv ==
  /\ held \in Seq([kind : Kinds, ptr : {StructAt(n) : n \in Nat}])
  /\ \A n \in DOMAIN held :
       /\ held[n].ptr = StructAt(n)
       /\ ObjectOK(held[n].kind, mem, n)

(* The numbers and kinds of what is held.                                  *)
LEMMA HeldKinds ==
  ASSUME CopyInv
  PROVE  /\ Len(held) \in Nat /\ DOMAIN held = 1..Len(held)
         /\ \A n \in DOMAIN held : n \in Nat /\ n # 0 /\ held[n].kind \in Kinds
<1> DEFINE S == [kind : Kinds, ptr : {StructAt(n) : n \in Nat}]
<1>1. \A h \in S : h.kind \in Kinds
  OBVIOUS
<1>2. held \in Seq(S)
  BY DEF CopyInv
<1> HIDE DEF S
<1>3. Len(held) \in Nat /\ DOMAIN held = 1..Len(held)
  BY <1>2, LenProperties
<1>4. \A n \in DOMAIN held : held[n] \in S
  BY <1>2, <1>3, ElementOfSeq
<1> QED BY <1>1, <1>3, <1>4

(* The invariant implies the types.                                        *)
LEMMA CopyInvTypes ==
  ASSUME CopyInv
  PROVE  CopyTypeOK
<1>1. \A n \in DOMAIN held :
        n # 0 /\ held[n] \in [kind : Kinds, ptr : DOMAIN mem]
  <2> SUFFICES ASSUME NEW n \in DOMAIN held
               PROVE  n # 0 /\ held[n] \in [kind : Kinds, ptr : DOMAIN mem]
    OBVIOUS
  <2>1. held[n] \in [kind : Kinds, ptr : {StructAt(k) : k \in Nat}]
    BY HeldKinds, ElementOfSeq DEF CopyInv
  <2>2. held[n].ptr \in DOMAIN mem
    BY DEF CopyInv, ObjectOK
  <2> QED BY <2>1, <2>2, HeldKinds
<1>2. held \in Seq([kind : Kinds, ptr : DOMAIN mem])
  <2> DEFINE S == [kind : Kinds, ptr : {StructAt(n) : n \in Nat}]
             T == [kind : Kinds, ptr : DOMAIN mem]
  <2>1. held \in Seq(S)
    BY DEF CopyInv
  <2>2. \A n \in 1..Len(held) : held[n] \in T
    BY <1>1, HeldKinds
  <2> HIDE DEF S, T
  <2>3. held \in Seq(T)
    BY <2>1, <2>2
  <2> QED BY <2>3 DEF T
<1>3. \A i, j \in DOMAIN held : held[i].ptr = held[j].ptr => i = j
  BY Addresses DEF CopyInv, StructAt
<1>4. \A i \in DOMAIN held : \A a \in Reach(held[i].kind, mem, held[i].ptr) : CellOK(mem, a)
  BY HeldKinds, ReachIsOwn DEF CopyInv
<1> QED BY <1>2, <1>3, <1>4 DEF CopyTypeOK, CellOK
-----------------------------------------------------------------------------
(* The objects of the beginning.                                           *)
LEMMA InitRefs ==
  ASSUME NEW m, NEW cells, NEW v \in Values, NEW i, \A a \in cells : CellOK(m, a)
  PROVE  /\ \A f : RefOK(m, Ref(cells, i, f), At(1, i, f))
         /\ ClusterOK(m, ACluster(v, cells, i), 1, i)
         /\ KubeconfigOK(m, AKubeconfig(v, cells, i), 1, i)
         /\ StatusOK(m, AStatus(v, cells, i), 1, i)
<1>1. \A f : RefOK(m, Ref(cells, i, f), At(1, i, f))
  BY DEF Ref, RefOK
<1>2. MetaOK(m, AMeta(v, cells, i), 1, i)
  BY <1>1 DEF MetaOK, AMeta
<1>3. StatusOK(m, AStatus(v, cells, i), 1, i)
  BY <1>1 DEF StatusOK, AStatus
<1> QED BY <1>1, <1>2, <1>3 DEF ClusterOK, KubeconfigOK, ACluster, AKubeconfig

(* Every initial object is whole, with any of its references nil.          *)
LEMMA CopyInitInv == CopyInit => CopyInv
<1> SUFFICES ASSUME CopyInit PROVE CopyInv
  OBVIOUS
<1>1. PICK kind \in Kinds, v \in Values, n \in 0..MaxItems :
        /\ \/ /\ kind \notin Lists
              /\ \E cells \in SUBSET {At(1, 0, f) : f \in RefFields(kind)} :
                   mem = Both(OneCell(At(1, 0, "struct"), Struct(kind, v, cells)),
                              Filled(v, cells))
           \/ /\ kind \in Lists
              /\ mem = OneCell(At(1, 0, "struct"), [items |-> Nil])
           \/ /\ kind \in Lists
              /\ \E cells \in SUBSET {At(1, i, f) : i \in 1..n, f \in RefFields(kind)} :
                   mem = Both(Both(OneCell(At(1, 0, "struct"), [items |-> At(1, 0, "items")]),
                                   Slice(kind, v, cells, n)),
                              Filled(v, cells))
        /\ held = <<[kind |-> kind, ptr |-> At(1, 0, "struct")]>>
  BY DEF CopyInit
<1> DEFINE x == mem[StructAt(1)]
<1>2. \A f \in RefFields(kind) : f # "struct" /\ f # "items"
  BY DEF RefFields
<1> SUFFICES StructAt(1) \in DOMAIN mem /\ StructOK(kind, mem, x, 1)
  <2>1. [kind |-> kind, ptr |-> StructAt(1)] \in [kind : Kinds, ptr : {StructAt(k) : k \in Nat}]
    OBVIOUS
  <2> QED BY <1>1, <2>1 DEF CopyInv, ObjectOK, StructAt
<1>3. CASE kind \notin Lists
  <2>1. PICK cells \in SUBSET {At(1, 0, f) : f \in RefFields(kind)} :
          mem = Both(OneCell(StructAt(1), Struct(kind, v, cells)), Filled(v, cells))
    BY <1>1, <1>3 DEF StructAt
  <2>2. StructAt(1) \notin cells
    BY <1>2, Addresses DEF StructAt
  <2>3. /\ StructAt(1) \in DOMAIN mem /\ x = Struct(kind, v, cells)
        /\ \A a \in cells : CellOK(mem, a)
    BY <2>1, <2>2 DEF Both, OneCell, Filled, CellOK
  <2>4. CASE kind = "Cluster"
    BY <2>3, <2>4, InitRefs DEF StructOK, Struct, Lists
  <2>5. CASE kind = "Kubeconfig"
    BY <2>3, <2>5, InitRefs DEF StructOK, Struct, Lists
  <2>6. CASE kind = "ClusterStatus"
    BY <2>3, <2>6, InitRefs DEF StructOK, Struct, Lists
  <2>7. CASE kind \notin {"Cluster", "Kubeconfig", "ClusterStatus"}
    BY <1>3, <2>3, <2>7 DEF StructOK
  <2> QED BY <2>4, <2>5, <2>6, <2>7
<1>4. CASE kind \in Lists /\ mem = OneCell(At(1, 0, "struct"), [items |-> Nil])
  <2>1. StructAt(1) \in DOMAIN mem /\ x = [items |-> Nil]
    BY <1>4 DEF OneCell, StructAt
  <2> QED BY <1>4, <2>1 DEF StructOK, ListOK, Lists
<1>5. CASE /\ kind \in Lists
           /\ \E cells \in SUBSET {At(1, i, f) : i \in 1..n, f \in RefFields(kind)} :
                mem = Both(Both(OneCell(At(1, 0, "struct"), [items |-> At(1, 0, "items")]),
                                Slice(kind, v, cells, n)),
                           Filled(v, cells))
  <2>1. PICK cells \in SUBSET {At(1, i, f) : i \in 1..n, f \in RefFields(kind)} :
          mem = Both(Both(OneCell(StructAt(1), [items |-> At(1, 0, "items")]),
                          Slice(kind, v, cells, n)),
                     Filled(v, cells))
    BY <1>5 DEF StructAt
  <2>2. StructAt(1) \notin cells /\ At(1, 0, "items") \notin cells
    BY <1>2, Addresses DEF StructAt
  <2>3. StructAt(1) # At(1, 0, "items")
    BY Addresses DEF StructAt
  <2> DEFINE items == [i \in 1..n |-> Item(kind, v, cells, i)]
             h == Both(OneCell(StructAt(1), [items |-> At(1, 0, "items")]),
                       OneCell(At(1, 0, "items"), items))
  <2>4. mem = Both(h, Filled(v, cells))
    BY <2>1 DEF Slice
  <2>5. /\ DOMAIN h = {StructAt(1), At(1, 0, "items")}
        /\ h[StructAt(1)] = [items |-> At(1, 0, "items")] /\ h[At(1, 0, "items")] = items
    <3> HIDE DEF items
    <3> QED BY <2>3 DEF Both, OneCell
  <2> HIDE DEF items, h
  <2>6. /\ StructAt(1) \in DOMAIN mem /\ x = [items |-> At(1, 0, "items")]
        /\ At(1, 0, "items") \in DOMAIN mem /\ mem[At(1, 0, "items")] = items
        /\ \A a \in cells : CellOK(mem, a)
    BY <2>2, <2>4, <2>5 DEF Both, Filled, CellOK
  <2>7. \A i \in DOMAIN items : ItemOK(kind, mem, items[i], 1, i)
    <3> SUFFICES ASSUME NEW i \in 1..n
                 PROVE  ItemOK(kind, mem, Item(kind, v, cells, i), 1, i)
      BY DEF items
    <3>1. /\ ClusterOK(mem, ACluster(v, cells, i), 1, i)
          /\ KubeconfigOK(mem, AKubeconfig(v, cells, i), 1, i)
      BY <2>6, InitRefs
    <3> QED BY <3>1 DEF Item, ItemOK
  <2>8. ListOK(kind, mem, x, 1)
    BY <2>6, <2>7 DEF ListOK
  <2> QED BY <1>5, <2>6, <2>8 DEF StructOK, Lists
<1> QED BY <1>1, <1>3, <1>4, <1>5
-----------------------------------------------------------------------------
(* What a step may do, as the two action properties say it.                *)
Private ==
  \A i, j \in DOMAIN held :
    Seen(mem', held[i]) # Seen(mem, held[i]) /\ Seen(mem', held[j]) # Seen(mem, held[j])
      => i = j

LooksTheSame ==
  \A n \in DOMAIN held' \ DOMAIN held :
    /\ \E i \in DOMAIN held : /\ held[i].kind = held'[n].kind
                              /\ Seen(mem', held'[n]) = Seen(mem, held[i])
    /\ \A i \in DOMAIN held : Seen(mem', held[i]) = Seen(mem, held[i])

(* The method of the type, the interface's and the scheme's function make  *)
(* the same copy of a pointer that is not nil.                             *)
LEMMA DeepCopyIs ==
  ASSUME NEW h, h.kind \in Kinds, h.ptr # Nil, NEW N, N # 0
  PROVE  LET r == New(RegisterDeepCopies(h.kind, mem, mem[h.ptr], N), N)
         IN  DeepCopyOf(h, N) = Result(r.new, [kind |-> h.kind, ptr |-> r.val])
<1> DEFINE c == RegisterDeepCopies(h.kind, mem, mem[h.ptr], N)
           r == New(c, N)
           copy == Result(r.new, [kind |-> h.kind, ptr |-> r.val])
<1>1. r.val = At(N, 0, "struct") /\ r.val # Nil
  BY Addresses DEF New, Result
<1>2. Wrap(h.kind, r) = copy
  BY <1>1 DEF Wrap
<1>3. NilOr(h.ptr, c, N) = r
  BY DEF NilOr
<1> SUFFICES DeepCopyOf(h, N) = copy
  OBVIOUS
<1> HIDE DEF r, copy
<1>4. CASE h.kind = "Cluster"
  BY <1>2, <1>3, <1>4
     DEF DeepCopyOf, RegisterDeepCopies, ClusterDeepCopyObject, ClusterDeepCopy
<1>5. CASE h.kind = "ClusterList"
  BY <1>2, <1>3, <1>5
     DEF DeepCopyOf, RegisterDeepCopies, ClusterListDeepCopyObject, ClusterListDeepCopy
<1>6. CASE h.kind = "Kubeconfig"
  BY <1>2, <1>3, <1>6
     DEF DeepCopyOf, RegisterDeepCopies, KubeconfigDeepCopyObject, KubeconfigDeepCopy
<1>7. CASE h.kind = "KubeconfigList"
  BY <1>2, <1>3, <1>7
     DEF DeepCopyOf, RegisterDeepCopies, KubeconfigListDeepCopyObject, KubeconfigListDeepCopy
<1>8. CASE h.kind = "ClusterStatus"
  BY <1>3, <1>8 DEF DeepCopyOf, RegisterDeepCopies, ClusterStatusDeepCopy, copy
<1>9. CASE h.kind = "ClusterCondition"
  BY <1>3, <1>9 DEF DeepCopyOf, RegisterDeepCopies, ClusterConditionDeepCopy, copy
<1>10. CASE h.kind = "ClusterSpec"
  BY <1>3, <1>10 DEF DeepCopyOf, RegisterDeepCopies, ClusterSpecDeepCopy, copy
<1>11. CASE h.kind = "KubeconfigSpec"
  BY <1>3, <1>11 DEF DeepCopyOf, RegisterDeepCopies, KubeconfigSpecDeepCopy, copy
<1> QED BY <1>4, <1>5, <1>6, <1>7, <1>8, <1>9, <1>10, <1>11 DEF Kinds

(* A new object leaves the others what they were.                          *)
LEMMA CopyStep ==
  ASSUME CopyInv, NEW i \in DOMAIN held, NEW r,
         r = New(RegisterDeepCopies(held[i].kind, mem, mem[held[i].ptr], NextNumber), NextNumber),
         Hold(Result(r.new, [kind |-> held[i].kind, ptr |-> r.val]))
  PROVE  CopyInv' /\ Private /\ LooksTheSame
<1> DEFINE N == NextNumber
           new == [kind |-> held[i].kind, ptr |-> r.val]
           S == [kind : Kinds, ptr : {StructAt(n) : n \in Nat}]
<1>1. /\ Len(held) \in Nat /\ DOMAIN held = 1..Len(held)
      /\ \A n \in DOMAIN held : n \in Nat /\ n # 0 /\ held[n].kind \in Kinds
  BY HeldKinds
<1>2. N \in Nat /\ N # 0 /\ N \notin DOMAIN held /\ N = Len(held) + 1
  BY <1>1 DEF NextNumber
<1>3. /\ held[i].ptr = StructAt(i) /\ ObjectOK(held[i].kind, mem, i)
      /\ held \in Seq(S)
  BY DEF CopyInv
<1> HIDE DEF N
<1>4. /\ r.val = StructAt(N)
      /\ \A a \in DOMAIN r.new : a[1] = N
      /\ \A m2 : Contains(m2, r.new) =>
           /\ ObjectOK(held[i].kind, m2, N)
           /\ Value(held[i].kind, m2, StructAt(N)) = Value(held[i].kind, mem, StructAt(i))
  BY <1>1, <1>2, <1>3, ObjectCopies DEF N
<1>5. mem' = Both(r.new, mem) /\ held' = Append(held, new)
  BY DEF Hold, Result
<1>6. new \in S
  BY <1>1, <1>2, <1>4
<1> HIDE DEF S
<1>7. /\ held' \in Seq(S) /\ Len(held') = N
      /\ \A n \in DOMAIN held : held'[n] = held[n]
      /\ held'[N] = new
  BY <1>1, <1>2, <1>3, <1>5, <1>6, AppendProperties
<1>8. DOMAIN held' = DOMAIN held \cup {N}
  <2>1. DOMAIN held' = 1..Len(held')
    BY <1>7, LenProperties
  <2> QED BY <1>1, <1>2, <1>7, <2>1
<1>9. Contains(mem', r.new)
  BY <1>5 DEF Contains, Both
<1>10. ASSUME NEW n \in DOMAIN held
       PROVE  /\ ObjectOK(held[n].kind, mem', n)
              /\ Seen(mem', held[n]) = Seen(mem, held[n])
  <2>1. held[n].ptr = StructAt(n) /\ ObjectOK(held[n].kind, mem, n)
    BY DEF CopyInv
  <2>2. \A a \in DOMAIN mem : a[1] = n => a \in DOMAIN mem' /\ mem'[a] = mem[a]
    BY <1>2, <1>4, <1>5 DEF Both
  <2>3. n # 0 /\ held[n].kind \in Kinds
    BY <1>1
  <2> QED BY <2>1, <2>2, <2>3, ObjectFrame DEF Seen
<1>11. /\ ObjectOK(new.kind, mem', N) /\ new.ptr = StructAt(N)
       /\ Seen(mem', new) = Seen(mem, held[i])
  BY <1>3, <1>4, <1>9 DEF Seen
<1> HIDE DEF new
<1>12. CopyInv'
  BY <1>7, <1>8, <1>10, <1>11 DEF CopyInv, S
<1>13. Private
  BY <1>10 DEF Private
<1>14. LooksTheSame
  <2>1. new.kind = held[i].kind
    BY DEF new
  <2> QED BY <1>7, <1>8, <1>10, <1>11, <2>1 DEF LooksTheSame
<1> QED BY <1>12, <1>13, <1>14

(* A write to the i-th object and its cells is seen in no other.           *)
LEMMA WriteStep ==
  ASSUME CopyInv, NEW i \in DOMAIN held, held' = held,
         \A a \in DOMAIN mem : a[1] # i => a \in DOMAIN mem' /\ mem'[a] = mem[a],
         ObjectOK(held[i].kind, mem', i)
  PROVE  CopyInv' /\ Private /\ LooksTheSame
<1>1. ASSUME NEW n \in DOMAIN held, n # i
      PROVE  /\ ObjectOK(held[n].kind, mem', n)
             /\ Seen(mem', held[n]) = Seen(mem, held[n])
  <2>1. held[n].ptr = StructAt(n) /\ ObjectOK(held[n].kind, mem, n)
    BY DEF CopyInv
  <2>2. \A a \in DOMAIN mem : a[1] = n => a \in DOMAIN mem' /\ mem'[a] = mem[a]
    BY <1>1
  <2>3. n # 0 /\ held[n].kind \in Kinds
    BY HeldKinds
  <2> QED BY <2>1, <2>2, <2>3, ObjectFrame DEF Seen
<1>2. CopyInv'
  BY <1>1 DEF CopyInv
<1>3. Private /\ LooksTheSame
  BY <1>1 DEF Private, LooksTheSame
<1> QED BY <1>2, <1>3

(* Into a map or a slice of an object.                                     *)
LEMMA WriteInsideStep ==
  ASSUME CopyInv, NEW i \in DOMAIN held, WriteInside(i)
  PROVE  CopyInv' /\ Private /\ LooksTheSame
<1>1. PICK a \in Reach(held[i].kind, mem, held[i].ptr), v \in Values :
        mem' = [mem EXCEPT ![a] = v]
  BY DEF WriteInside
<1>2. held' = held
  BY DEF WriteInside
<1>3. /\ i # 0 /\ held[i].kind \in Kinds
      /\ held[i].ptr = StructAt(i) /\ ObjectOK(held[i].kind, mem, i)
  BY HeldKinds DEF CopyInv
<1>4. /\ a[1] = i /\ CellOK(mem, a)
      /\ a # StructAt(i) /\ a # At(i, 0, "items")
  BY <1>3, ReachIsOwn
<1>5. /\ \A b : CellOK(mem, b) => CellOK(mem', b)
      /\ \A b \in DOMAIN mem : b # a => b \in DOMAIN mem' /\ mem'[b] = mem[b]
  BY <1>1 DEF CellOK
<1>6. StructOK(held[i].kind, mem', mem[StructAt(i)], i)
  BY <1>3, <1>4, <1>5, StructStays DEF ObjectOK
<1>7. ObjectOK(held[i].kind, mem', i)
  BY <1>3, <1>4, <1>5, <1>6 DEF ObjectOK
<1> QED BY <1>2, <1>4, <1>5, <1>7, WriteStep

(* A plain field of an object.                                             *)
LEMMA WriteFieldStep ==
  ASSUME CopyInv, NEW i \in DOMAIN held, WriteField(i)
  PROVE  CopyInv' /\ Private /\ LooksTheSame
<1> DEFINE p == StructAt(i)
           x == mem[p]
           kind == held[i].kind
<1>1. held' = held
  BY DEF WriteField
<1>2. i # 0 /\ kind \in Kinds /\ held[i].ptr = p /\ ObjectOK(kind, mem, i)
  BY HeldKinds DEF CopyInv
<1>3. PICK v \in Values :
        \/ kind \in {"Cluster", "Kubeconfig"} /\ mem' = [mem EXCEPT ![p].spec = v]
        \/ kind = "ClusterStatus" /\ mem' = [mem EXCEPT ![p].applied = v]
        \/ /\ kind \in {"ClusterCondition", "ClusterSpec", "KubeconfigSpec"}
           /\ mem' = [mem EXCEPT ![p] = v]
  BY <1>2 DEF WriteField
<1>4. p \in DOMAIN mem /\ StructOK(kind, mem, x, i)
  BY <1>2 DEF ObjectOK
<1>5. /\ p \in DOMAIN mem' /\ p[1] = i /\ p # At(i, 0, "items")
      /\ \A a \in DOMAIN mem : a # p => a \in DOMAIN mem' /\ mem'[a] = mem[a]
  BY <1>3, <1>4, Addresses DEF StructAt
<1>6. \A a : a[1] = i /\ a # p /\ CellOK(mem, a) => CellOK(mem', a)
  BY <1>5 DEF CellOK
<1>7. StructOK(kind, mem', x, i)
  BY <1>2, <1>4, <1>5, <1>6, StructStays
<1>8. ObjectOK(kind, mem', i)
  <2>1. CASE kind = "Cluster"
    <3>1. mem'[p] = [x EXCEPT !.spec = v]
      BY <1>3, <1>4, <2>1
    <3> QED BY <1>5, <1>7, <2>1, <3>1 DEF ObjectOK, StructOK, ClusterOK, Lists
  <2>2. CASE kind = "Kubeconfig"
    <3>1. mem'[p] = [x EXCEPT !.spec = v]
      BY <1>3, <1>4, <2>2
    <3> QED BY <1>5, <1>7, <2>2, <3>1 DEF ObjectOK, StructOK, KubeconfigOK, Lists
  <2>3. CASE kind = "ClusterStatus"
    <3>1. mem'[p] = [x EXCEPT !.applied = v]
      BY <1>3, <1>4, <2>3
    <3> QED BY <1>5, <1>7, <2>3, <3>1 DEF ObjectOK, StructOK, StatusOK, Lists
  <2>4. CASE kind \in {"ClusterCondition", "ClusterSpec", "KubeconfigSpec"}
    BY <1>5, <2>4 DEF ObjectOK, StructOK, Lists
  <2> QED BY <1>3, <2>1, <2>2, <2>3, <2>4
<1> QED BY <1>1, <1>5, <1>8, WriteStep

(* A first map of annotations for an object.                               *)
LEMMA MakeAnnotationsStep ==
  ASSUME CopyInv, NEW i \in DOMAIN held, MakeAnnotations(i)
  PROVE  CopyInv' /\ Private /\ LooksTheSame
<1> DEFINE p == StructAt(i)
           x == mem[p]
           kind == held[i].kind
           new == At(i, 0, "annotations")
           y == [x EXCEPT !.meta.annotations = new]
           m == [mem EXCEPT ![p] = y]
<1>1. held' = held /\ kind \in {"Cluster", "Kubeconfig"}
  BY DEF MakeAnnotations
<1>2. i # 0 /\ kind \in Kinds /\ held[i].ptr = p /\ ObjectOK(kind, mem, i)
  BY HeldKinds DEF CopyInv
<1>3. p \in DOMAIN mem /\ StructOK(kind, mem, x, i)
  BY <1>2 DEF ObjectOK
<1>4. PICK v \in Values : mem' = Both(OneCell(new, v), m)
  BY <1>2, <1>3 DEF MakeAnnotations
<1>5. /\ p[1] = i /\ new[1] = i /\ p # new
      /\ p # At(i, 0, "items") /\ new # At(i, 0, "items")
  BY Addresses DEF StructAt
<1>6. /\ DOMAIN mem' = DOMAIN mem \cup {new}
      /\ mem'[p] = y /\ mem'[new] = v
      /\ \A a \in DOMAIN mem : a \notin {p, new} => mem'[a] = mem[a]
  BY <1>3, <1>4, <1>5 DEF Both, OneCell
<1>7. CellOK(mem', new) /\ \A a : a # p /\ CellOK(mem, a) => CellOK(mem', a)
  BY <1>6 DEF CellOK
<1>8. StructOK(kind, mem', x, i)
  BY <1>2, <1>3, <1>5, <1>6, <1>7, StructStays
<1>9. x.meta = [name |-> x.meta.name, annotations |-> x.meta.annotations,
               finalizers |-> x.meta.finalizers]
      /\ RefOK(mem', x.meta.finalizers, At(i, 0, "finalizers"))
  BY <1>1, <1>8 DEF StructOK, ClusterOK, KubeconfigOK, MetaOK
<1>10. ASSUME NEW z, z = [name |-> x.meta.name, annotations |-> new,
                          finalizers |-> x.meta.finalizers]
       PROVE  MetaOK(mem', z, i, 0)
  BY <1>7, <1>9, <1>10 DEF MetaOK, RefOK
<1>11. CASE kind = "Cluster"
  <2>1. x = [meta |-> x.meta, spec |-> x.spec, status |-> x.status]
    BY <1>8, <1>11 DEF StructOK, ClusterOK
  <2>2. y = [meta |-> [name |-> x.meta.name, annotations |-> new,
                       finalizers |-> x.meta.finalizers],
             spec |-> x.spec, status |-> x.status]
    BY <1>9, <2>1
  <2>3. MetaOK(mem', y.meta, i, 0)
    BY <1>10, <2>2
  <2>4. ClusterOK(mem', y, i, 0)
    BY <1>8, <1>11, <2>2, <2>3 DEF StructOK, ClusterOK
  <2> HIDE DEF y
  <2>5. ObjectOK(kind, mem', i)
    BY <1>3, <1>6, <1>11, <2>4 DEF ObjectOK, StructOK, Lists
  <2> QED BY <1>1, <1>5, <1>6, <2>5, WriteStep
<1>12. CASE kind = "Kubeconfig"
  <2>1. x = [meta |-> x.meta, spec |-> x.spec]
    BY <1>8, <1>12 DEF StructOK, KubeconfigOK
  <2>2. y = [meta |-> [name |-> x.meta.name, annotations |-> new,
                       finalizers |-> x.meta.finalizers],
             spec |-> x.spec]
    BY <1>9, <2>1
  <2>3. MetaOK(mem', y.meta, i, 0)
    BY <1>10, <2>2
  <2>4. KubeconfigOK(mem', y, i, 0)
    BY <2>2, <2>3 DEF KubeconfigOK
  <2> HIDE DEF y
  <2>5. ObjectOK(kind, mem', i)
    BY <1>3, <1>6, <1>12, <2>4 DEF ObjectOK, StructOK, Lists
  <2> QED BY <1>1, <1>5, <1>6, <2>5, WriteStep
<1> QED BY <1>1, <1>11, <1>12

(* Every step keeps the invariant and is one the properties allow.         *)
LEMMA CopyNextInv ==
  ASSUME CopyInv, [CopyNext]_copyVars
  PROVE  CopyInv' /\ [Private]_copyVars /\ [LooksTheSame]_copyVars
<1>1. CASE Copy
  <2>1. PICK i \in DOMAIN held : Hold(DeepCopyOf(held[i], NextNumber))
    BY <1>1 DEF Copy
  <2>2. /\ held[i].kind \in Kinds /\ held[i].ptr # Nil /\ NextNumber # 0
    BY HeldKinds, Addresses DEF CopyInv, StructAt, NextNumber
  <2> DEFINE r == New(RegisterDeepCopies(held[i].kind, mem, mem[held[i].ptr], NextNumber),
                      NextNumber)
  <2>3. Hold(Result(r.new, [kind |-> held[i].kind, ptr |-> r.val]))
    BY <2>1, <2>2, DeepCopyIs
  <2> HIDE DEF r
  <2>4. CopyInv' /\ Private /\ LooksTheSame
    BY <2>3, CopyStep DEF r
  <2> QED BY <2>4
<1>2. CASE SchemeCopy
  <2>1. PICK i \in DOMAIN held :
          LET r == New(RegisterDeepCopies(held[i].kind, mem, mem[held[i].ptr], NextNumber),
                       NextNumber)
          IN  Hold(Result(r.new, [kind |-> held[i].kind, ptr |-> r.val]))
    BY <1>2 DEF SchemeCopy
  <2>2. CopyInv' /\ Private /\ LooksTheSame
    BY <2>1, CopyStep
  <2> QED BY <2>2
<1>3. ASSUME NEW i \in DOMAIN held, WriteInside(i) \/ WriteField(i) \/ MakeAnnotations(i)
      PROVE  CopyInv' /\ Private /\ LooksTheSame
  BY <1>3, WriteInsideStep, WriteFieldStep, MakeAnnotationsStep
<1>4. CASE UNCHANGED copyVars
  BY <1>4 DEF CopyInv, copyVars
<1> QED BY <1>1, <1>2, <1>3, <1>4 DEF CopyNext

(* The invariant holds in every state.                                     *)
LEMMA CopyInvariance == CopySpec => []CopyInv
<1>1. CopyInit => CopyInv
  BY CopyInitInv
<1>2. CopyInv /\ [CopyNext]_copyVars => CopyInv'
  BY CopyNextInv
<1> QED BY <1>1, <1>2, PTL DEF CopySpec

(* Objects and copies are structs of their own, and their references lead  *)
(* to plain values, for lists of any length and any number of copies.      *)
THEOREM CopyTypeCorrect == CopySpec => []CopyTypeOK
BY CopyInvariance, CopyInvTypes, PTL

(* What is written into one object or copy is seen in no other.            *)
THEOREM CopiesArePrivate == CopySpec => WritesStayPrivate
<1>1. CopyInv /\ [CopyNext]_copyVars => [Private]_copyVars
  BY CopyNextInv
<1> QED BY <1>1, CopyInvariance, PTL DEF CopySpec, WritesStayPrivate, Private

(* A copy looks like what it was copied from when it is made.              *)
THEOREM CopiesAreFaithful == CopySpec => CopiesLookTheSame
<1>1. CopyInv /\ [CopyNext]_copyVars => [LooksTheSame]_copyVars
  BY CopyNextInv
<1> QED BY <1>1, CopyInvariance, PTL DEF CopySpec, CopiesLookTheSame, LooksTheSame
=============================================================================
