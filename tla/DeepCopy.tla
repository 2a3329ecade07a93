------------------------------- MODULE DeepCopy -------------------------------
(***************************************************************************)
(* The generated deep-copy functions, over a memory with references.  The  *)
(* other modules copy an object as a value: they may, because these        *)
(* functions give a copy that looks the same and shares no map, slice or   *)
(* pointer with the original, so that a handler which changes its copy     *)
(* never changes the object in the informer's cache.                       *)
(*                                                                         *)
(* The memory is a function from addresses to cells; a cell holds a struct, *)
(* or what a map or a slice refers to.  An address says for what Go's new  *)
(* and make have given it: the number of the object, the item of its list  *)
(* (0: the object itself) and the field.  Of ObjectMeta two of the fields  *)
(* that are references stand for all.                                      *)
(***************************************************************************)
EXTENDS Naturals, Sequences

CONSTANTS
  Values,                \* what plain fields, maps and slices of plain values can hold
  MaxItems,              \* bound on the lengths of lists
  MaxCopies              \* bound on copies

ASSUME DeepCopyAssumption == MaxItems \in Nat /\ MaxCopies \in Nat

Kinds == {"Cluster", "ClusterList", "ClusterStatus", "ClusterCondition", "ClusterSpec",
          "Kubeconfig", "KubeconfigList", "KubeconfigSpec"}

At(n, i, f) == <<n, i, f>>
Nil == At(0, 0, "nil")

(* What a function returns, and the cells it has filled.                   *)
Result(cells, v) == [new |-> cells, val |-> v]
NoCells == [a \in {} |-> a]
OneCell(a, v) == [b \in {a} |-> v]
Both(f, g) == [a \in DOMAIN f \cup DOMAIN g |-> IF a \in DOMAIN f THEN f[a] ELSE g[a]]

(* if in.F != nil { make; copy }: a cell of its own with the same contents. *)
CopyCell(m, a, new) == IF a = Nil THEN Result(NoCells, Nil) ELSE Result(OneCell(new, m[a]), new)

(* DeepCopyInto of a struct that is or will be item i of the object n.     *)
(* Structs of plain fields: *out = *in is all there is to do.              *)
ClusterConditionDeepCopyInto(in) == Result(NoCells, in)
ClusterSpecDeepCopyInto(in) == Result(NoCells, in)
KubeconfigSpecDeepCopyInto(in) == Result(NoCells, in)

(* Mutant of ObjectMetaDeepCopyInto: the map of annotations is shared. *)
ObjectMetaShallow(m, in, n, i) ==
  LET finalizers == CopyCell(m, in.finalizers, At(n, i, "finalizers"))
  IN  Result(finalizers.new, [in EXCEPT !.finalizers = finalizers.val])

ObjectMetaDeepCopyInto(m, in, n, i) ==
  LET annotations == CopyCell(m, in.annotations, At(n, i, "annotations"))
      finalizers == CopyCell(m, in.finalizers, At(n, i, "finalizers"))
  IN  Result(Both(annotations.new, finalizers.new),
             [in EXCEPT !.annotations = annotations.val, !.finalizers = finalizers.val])

(* Mutant of ClusterStatusDeepCopyInto: make without copy. *)
ClusterStatusEmpty(m, in, n, i) ==
  IF in.conditions = Nil THEN Result(NoCells, in)
  ELSE LET new == At(n, i, "conditions")
       IN  Result(OneCell(new, CHOOSE v \in Values : v # m[in.conditions]),
                  [in EXCEPT !.conditions = new])

ClusterStatusDeepCopyInto(m, in, n, i) ==
  LET conditions == CopyCell(m, in.conditions, At(n, i, "conditions"))
  IN  Result(conditions.new, [in EXCEPT !.conditions = conditions.val])

ClusterDeepCopyInto(m, in, n, i) ==
  LET meta == ObjectMetaDeepCopyInto(m, in.meta, n, i)
      status == ClusterStatusDeepCopyInto(m, in.status, n, i)
  IN  Result(Both(meta.new, status.new), [in EXCEPT !.meta = meta.val, !.status = status.val])

KubeconfigDeepCopyInto(m, in, n, i) ==
  LET meta == ObjectMetaDeepCopyInto(m, in.meta, n, i)
  IN  Result(meta.new, [in EXCEPT !.meta = meta.val])

(* A list has a slice of structs, each of which is copied into the new one.*)
MakeSlice(n, items) ==
  LET slice == At(n, 0, "items")
      cells == UNION {DOMAIN items[i].new : i \in DOMAIN items}
  IN  Result(Both(OneCell(slice, [i \in DOMAIN items |-> items[i].val]),
                  [a \in cells |-> items[a[2]].new[a]]),
             slice)

ClusterListDeepCopyInto(m, in, n) ==
  IF in.items = Nil THEN Result(NoCells, in)
  ELSE LET items == [i \in DOMAIN m[in.items] |-> ClusterDeepCopyInto(m, m[in.items][i], n, i)]
           slice == MakeSlice(n, items)
       IN  Result(slice.new, [in EXCEPT !.items = slice.val])

KubeconfigListDeepCopyInto(m, in, n) ==
  IF in.items = Nil THEN Result(NoCells, in)
  ELSE LET items == [i \in DOMAIN m[in.items] |-> KubeconfigDeepCopyInto(m, m[in.items][i], n, i)]
           slice == MakeSlice(n, items)
       IN  Result(slice.new, [in EXCEPT !.items = slice.val])
-----------------------------------------------------------------------------
(* DeepCopy: nil for nil, and otherwise a new struct n copied into.        *)
New(r, n) == LET p == At(n, 0, "struct") IN Result(Both(OneCell(p, r.val), r.new), p)
NilOr(p, r, n) == IF p = Nil THEN Result(NoCells, Nil) ELSE New(r, n)

(* Mutant of ClusterDeepCopy: the receiver itself is returned. *)
ClusterNotCopied(m, p, n) == Result(NoCells, p)

ClusterDeepCopy(m, p, n) == NilOr(p, ClusterDeepCopyInto(m, m[p], n, 0), n)
ClusterConditionDeepCopy(m, p, n) == NilOr(p, ClusterConditionDeepCopyInto(m[p]), n)
ClusterListDeepCopy(m, p, n) == NilOr(p, ClusterListDeepCopyInto(m, m[p], n), n)
ClusterSpecDeepCopy(m, p, n) == NilOr(p, ClusterSpecDeepCopyInto(m[p]), n)
ClusterStatusDeepCopy(m, p, n) == NilOr(p, ClusterStatusDeepCopyInto(m, m[p], n, 0), n)
KubeconfigDeepCopy(m, p, n) == NilOr(p, KubeconfigDeepCopyInto(m, m[p], n, 0), n)
KubeconfigListDeepCopy(m, p, n) == NilOr(p, KubeconfigListDeepCopyInto(m, m[p], n), n)
KubeconfigSpecDeepCopy(m, p, n) == NilOr(p, KubeconfigSpecDeepCopyInto(m[p]), n)

(* DeepCopyObject: an interface that is nil itself if the pointer is, and  *)
(* never one that wraps a nil pointer.                                     *)
NilObject == [kind |-> "nil", ptr |-> Nil]
Wrap(kind, r) == Result(r.new, IF r.val = Nil THEN NilObject ELSE [kind |-> kind, ptr |-> r.val])

ClusterDeepCopyObject(m, p, n) == Wrap("Cluster", ClusterDeepCopy(m, p, n))
ClusterListDeepCopyObject(m, p, n) == Wrap("ClusterList", ClusterListDeepCopy(m, p, n))
KubeconfigDeepCopyObject(m, p, n) == Wrap("Kubeconfig", KubeconfigDeepCopy(m, p, n))
KubeconfigListDeepCopyObject(m, p, n) == Wrap("KubeconfigList", KubeconfigListDeepCopy(m, p, n))

(* The functions registered with the scheme, by the type of their argument.*)
RegisterDeepCopies(kind, m, in, n) ==
  CASE kind = "Cluster" -> ClusterDeepCopyInto(m, in, n, 0)
    [] kind = "ClusterCondition" -> ClusterConditionDeepCopyInto(in)
    [] kind = "ClusterList" -> ClusterListDeepCopyInto(m, in, n)
    [] kind = "ClusterSpec" -> ClusterSpecDeepCopyInto(in)
    [] kind = "ClusterStatus" -> ClusterStatusDeepCopyInto(m, in, n, 0)
    [] kind = "Kubeconfig" -> KubeconfigDeepCopyInto(m, in, n, 0)
    [] kind = "KubeconfigList" -> KubeconfigListDeepCopyInto(m, in, n)
    [] kind = "KubeconfigSpec" -> KubeconfigSpecDeepCopyInto(in)
-----------------------------------------------------------------------------
(* What can be seen of a struct, and the cells its references lead to.     *)
See(m, a) == IF a = Nil THEN "nil" ELSE m[a]
Refs(as) == as \ {Nil}

MetaValue(m, meta) == <<meta.name, See(m, meta.annotations), See(m, meta.finalizers)>>
ClusterValue(m, c) ==
  <<MetaValue(m, c.meta), c.spec, c.status.applied, See(m, c.status.conditions)>>
KubeconfigValue(m, c) == <<MetaValue(m, c.meta), c.spec>>
MetaRefs(meta) == Refs({meta.annotations, meta.finalizers})
ClusterRefs(c) == MetaRefs(c.meta) \cup Refs({c.status.conditions})

Value(kind, m, p) ==
  IF p = Nil THEN "nil" ELSE
  CASE kind = "Cluster" -> ClusterValue(m, m[p])
    [] kind = "Kubeconfig" -> KubeconfigValue(m, m[p])
    [] kind = "ClusterStatus" -> <<m[p].applied, See(m, m[p].conditions)>>
    [] kind = "ClusterList" /\ m[p].items # Nil ->
         [i \in DOMAIN m[m[p].items] |-> ClusterValue(m, m[m[p].items][i])]
    [] kind = "KubeconfigList" /\ m[p].items # Nil ->
         [i \in DOMAIN m[m[p].items] |-> KubeconfigValue(m, m[m[p].items][i])]
    [] OTHER -> m[p]

(* The cells of plain values one gets to from p. *)
Reach(kind, m, p) ==
  IF p = Nil THEN {} ELSE
  CASE kind = "Cluster" -> ClusterRefs(m[p])
    [] kind = "Kubeconfig" -> MetaRefs(m[p].meta)
    [] kind = "ClusterStatus" -> Refs({m[p].conditions})
    [] kind = "ClusterList" /\ m[p].items # Nil ->
         UNION {ClusterRefs(m[m[p].items][i]) : i \in DOMAIN m[m[p].items]}
    [] kind = "KubeconfigList" /\ m[p].items # Nil ->
         UNION {MetaRefs(m[m[p].items][i].meta) : i \in DOMAIN m[m[p].items]}
    [] OTHER -> {}
-----------------------------------------------------------------------------
(* Objects that are copied and written to in place, in any order.          *)
VARIABLES
  mem,                   \* the memory
  held                   \* what the goroutines hold: objects and copies of them

copyVars == <<mem, held>>

(* The objects the runs begin with, with and without their references.     *)
Lists == {"ClusterList", "KubeconfigList"}
RefFields(kind) ==
  CASE kind \in {"Cluster", "ClusterList"} -> {"annotations", "finalizers", "conditions"}
    [] kind \in {"Kubeconfig", "KubeconfigList"} -> {"annotations", "finalizers"}
    [] kind = "ClusterStatus" -> {"conditions"}
    [] OTHER -> {}
Ref(cells, i, f) == IF At(1, i, f) \in cells THEN At(1, i, f) ELSE Nil

AMeta(v, cells, i) == [name |-> v, annotations |-> Ref(cells, i, "annotations"),
                       finalizers |-> Ref(cells, i, "finalizers")]
AStatus(v, cells, i) == [applied |-> v, conditions |-> Ref(cells, i, "conditions")]
ACluster(v, cells, i) ==
  [meta |-> AMeta(v, cells, i), spec |-> v, status |-> AStatus(v, cells, i)]
AKubeconfig(v, cells, i) == [meta |-> AMeta(v, cells, i), spec |-> v]

Struct(kind, v, cells) ==
  CASE kind = "Cluster" -> ACluster(v, cells, 0)
    [] kind = "Kubeconfig" -> AKubeconfig(v, cells, 0)
    [] kind = "ClusterStatus" -> AStatus(v, cells, 0)
    [] kind \in Lists -> [items |-> Ref(cells, 0, "items")]
    [] OTHER -> v
Item(kind, v, cells, i) ==
  IF kind = "ClusterList" THEN ACluster(v, cells, i) ELSE AKubeconfig(v, cells, i)

(* cells: the maps and slices of plain values that are not nil; n: how many*)
(* items the slice of a list has.                                          *)
Filled(v, cells) == [a \in cells |-> v]
Slice(kind, v, cells, n) == OneCell(At(1, 0, "items"), [i \in 1..n |-> Item(kind, v, cells, i)])

CopyInit ==
  \E kind \in Kinds, v \in Values, n \in 0..MaxItems :
    /\ \/ /\ kind \notin Lists
          /\ \E cells \in SUBSET {At(1, 0, f) : f \in RefFields(kind)} :
               mem = Both(OneCell(At(1, 0, "struct"), Struct(kind, v, cells)), Filled(v, cells))
       \/ /\ kind \in Lists
          /\ mem = OneCell(At(1, 0, "struct"), [items |-> Nil])
       \/ /\ kind \in Lists
          /\ \E cells \in SUBSET {At(1, i, f) : i \in 1..n, f \in RefFields(kind)} :
               mem = Both(Both(OneCell(At(1, 0, "struct"), [items |-> At(1, 0, "items")]),
                               Slice(kind, v, cells, n)),
                          Filled(v, cells))
    /\ held = <<[kind |-> kind, ptr |-> At(1, 0, "struct")]>>

(* A copy by the method of the type, through the interface if it has one.  *)
DeepCopyOf(h, n) ==
  LET typed(r) == Result(r.new, [kind |-> h.kind, ptr |-> r.val])
  IN  CASE h.kind = "Cluster" -> ClusterDeepCopyObject(mem, h.ptr, n)
        [] h.kind = "ClusterList" -> ClusterListDeepCopyObject(mem, h.ptr, n)
        [] h.kind = "Kubeconfig" -> KubeconfigDeepCopyObject(mem, h.ptr, n)
        [] h.kind = "KubeconfigList" -> KubeconfigListDeepCopyObject(mem, h.ptr, n)
        [] h.kind = "ClusterStatus" -> typed(ClusterStatusDeepCopy(mem, h.ptr, n))
        [] h.kind = "ClusterCondition" -> typed(ClusterConditionDeepCopy(mem, h.ptr, n))
        [] h.kind = "ClusterSpec" -> typed(ClusterSpecDeepCopy(mem, h.ptr, n))
        [] h.kind = "KubeconfigSpec" -> typed(KubeconfigSpecDeepCopy(mem, h.ptr, n))

NextNumber == Len(held) + 1
Hold(r) == mem' = Both(r.new, mem) /\ held' = Append(held, r.val)

Copy ==
  /\ Len(held) <= MaxCopies
  /\ \E i \in DOMAIN held : Hold(DeepCopyOf(held[i], NextNumber))

(* Scheme.Copy: a new struct of the type, filled by the registered function.*)
SchemeCopy ==
  /\ Len(held) <= MaxCopies
  /\ \E i \in DOMAIN held :
       LET h == held[i]
           r == New(RegisterDeepCopies(h.kind, mem, mem[h.ptr], NextNumber), NextNumber)
       IN  Hold(Result(r.new, [kind |-> h.kind, ptr |-> r.val]))

(* A handler writes into a map or a slice, as annotator.go:85 does.        *)
WriteInside(i) ==
  /\ \E a \in Reach(held[i].kind, mem, held[i].ptr), v \in Values : mem' = [mem EXCEPT ![a] = v]
  /\ UNCHANGED held

(* A handler sets a plain field, as updateAppliedConfig does.              *)
WriteField(i) ==
  /\ \E v \in Values :
       LET p == held[i].ptr
       IN  \/ held[i].kind \in {"Cluster", "Kubeconfig"} /\ mem' = [mem EXCEPT ![p].spec = v]
           \/ held[i].kind = "ClusterStatus" /\ mem' = [mem EXCEPT ![p].applied = v]
           \/ /\ held[i].kind \in {"ClusterCondition", "ClusterSpec", "KubeconfigSpec"}
              /\ mem' = [mem EXCEPT ![p] = v]
  /\ UNCHANGED held

(* annotator.go:82: an object without annotations gets a map of its own.   *)
MakeAnnotations(i) ==
  /\ held[i].kind \in {"Cluster", "Kubeconfig"}
  /\ mem[held[i].ptr].meta.annotations = Nil
  /\ \E v \in Values :
       LET new == At(i, 0, "annotations")
       IN  mem' = Both(OneCell(new, v), [mem EXCEPT ![held[i].ptr].meta.annotations = new])
  /\ UNCHANGED held

CopyNext ==
  \/ Copy \/ SchemeCopy
  \/ \E i \in DOMAIN held : WriteInside(i) \/ WriteField(i) \/ MakeAnnotations(i)

CopySpec == CopyInit /\ [][CopyNext]_copyVars
-----------------------------------------------------------------------------
(* What a goroutine sees of an object it holds, in the memory m.           *)
Seen(m, h) == Value(h.kind, m, h.ptr)

(* What a goroutine does to an object it holds is seen in no other object: *)
(* a step changes at most one of them.                                     *)
WritesStayPrivate ==
  [][\A i, j \in DOMAIN held :
       Seen(mem', held[i]) # Seen(mem, held[i]) /\ Seen(mem', held[j]) # Seen(mem, held[j])
         => i = j]_copyVars

(* A new copy looks like an object of its type that was held before, and   *)
(* making it changes nothing of what was held.                             *)
CopiesLookTheSame ==
  [][\A n \in DOMAIN held' \ DOMAIN held :
       /\ \E i \in DOMAIN held : /\ held[i].kind = held'[n].kind
                                 /\ Seen(mem', held'[n]) = Seen(mem, held[i])
       /\ \A i \in DOMAIN held : Seen(mem', held[i]) = Seen(mem, held[i])]_copyVars

(* Types: no two of the objects are one struct, and a struct's references  *)
(* lead to cells of plain values.                                          *)
CopyTypeOK ==
  /\ held \in Seq([kind : Kinds, ptr : DOMAIN mem])
  /\ \A i, j \in DOMAIN held :
       /\ held[i].ptr = held[j].ptr => i = j
       /\ \A a \in Reach(held[i].kind, mem, held[i].ptr) : a \in DOMAIN mem /\ mem[a] \in Values
=============================================================================
