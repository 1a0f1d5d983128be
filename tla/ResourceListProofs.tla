------------------------- MODULE ResourceListProofs -------------------------
(***************************************************************************)
(* Proofs about ResourceList: the list results() builds is sorted by      *)
(* compare_resource() whatever the order of the server's responses, its   *)
(* head is the target when the target is asked for, and the list with     *)
(* its cursor implements the abstract Catalog.                             *)
(***************************************************************************)
EXTENDS ResourceList, SequenceTheorems, WellFoundedInduction, TLAPS

-----------------------------------------------------------------------------
(* Helpers on the data.                                                    *)

(* A nonempty set of naturals has a least element (< is well founded).   *)
LEMMA LeastNatural ==
    ASSUME NEW T, T \subseteq Nat, T # {}
    PROVE  \E m \in T : \A y \in T : m <= y
<1>1. \E x \in T : \A y \in T : ~(<<y, x>> \in OpToRel(<, Nat))
    BY NatLessThanWellFounded, WFMin
<1>2. ASSUME NEW x \in T, NEW y \in T, ~(<<y, x>> \in OpToRel(<, Nat))
      PROVE  x <= y
    <2>1. y < x => <<y, x>> \in OpToRel(<, Nat)
        BY DEF OpToRel
    <2>2. ~(y < x)
        BY <1>2, <2>1, Zenon
    <2>3. QED
        BY <2>2
<1>3. QED
    BY <1>1, <1>2

(* Min of SelectInSeq is that least element. *)
LEMMA MinFacts ==
    ASSUME NEW T, T \subseteq Nat, T # {}
    PROVE  Min(T) \in T /\ \A y \in T : Min(T) <= y
BY LeastNatural DEF Min

(* compare_resource() answers -1, 0 or 1. *)
LEMMA CompareRange ==
    ASSUME NEW a, NEW b
    PROVE  compare_resource(a, b) \in {-1, 0, 1}
BY DEF compare_resource, StrCmp

(* On the resources results() makes, compare_resource(a, b) < 0 is the    *)
(* catalog's order: tier, then URI.                                       *)
LEMMA CompareIsBefore ==
    ASSUME NEW a \in Resource, NEW b \in Resource,
           a.type # "error", b.type # "error"
    PROVE  compare_resource(a, b) < 0 <=> Cat!Before(a, b)
BY ListAssumption DEF compare_resource, StrCmp, Cat!Before, Cat!TierOf,
                      Resource, Cat!Resource, Cat!Types

(* The catalog's order is a strict total order on resources with          *)
(* distinct URIs.                                                          *)
LEMMA BeforeOrder ==
    ASSUME NEW a \in Resource, NEW b \in Resource, NEW c \in Resource
    PROVE  /\ ~Cat!Before(a, a)
           /\ Cat!Before(a, b) /\ Cat!Before(b, c) => Cat!Before(a, c)
           /\ a.uri # b.uri => (Cat!Before(a, b) \/ Cat!Before(b, a))
           /\ Cat!Before(a, b) => a # b
BY ListAssumption DEF Cat!Before, Cat!TierOf, Resource, Cat!Resource,
                      Cat!Types

(* Where results() splices the new resource: past every element that    *)
(* precedes it, before the first one that does not.                       *)
LEMMA InsertPosFacts ==
    ASSUME NEW s \in Seq(Resource), NEW e
    PROVE  LET k == InsertPos(s, e) IN
           /\ k \in 1..Len(s) + 1
           /\ \A j \in 1..k - 1 : compare_resource(s[j], e) < 0
           /\ k <= Len(s) => compare_resource(s[k], e) >= 0
<1> DEFINE I == {i \in 1..Len(s) : compare_resource(s[i], e) >= 0}
<1>1. \A i \in 1..Len(s) : compare_resource(s[i], e) \in Int
    BY CompareRange
<1>2. CASE I = {}
    <2>1. InsertPos(s, e) = Len(s) + 1
        BY <1>2 DEF InsertPos, SelectInSeq
    <2>2. QED
        BY <1>1, <1>2, <2>1
<1>3. CASE I # {}
    <2>0. I \subseteq Nat
        OBVIOUS
    <2>1. Min(I) \in I /\ \A y \in I : Min(I) <= y
        BY <1>3, <2>0, MinFacts
    <2>2. InsertPos(s, e) = Min(I)
        BY <1>3, <2>1 DEF InsertPos, SelectInSeq
    <2>3. Min(I) \in 1..Len(s) /\ compare_resource(s[Min(I)], e) >= 0
        BY <2>1
    <2>4. ASSUME NEW j \in 1..Min(I) - 1
          PROVE  compare_resource(s[j], e) < 0
        <3>1. j \in 1..Len(s) /\ j \notin I
            BY <2>1, <2>3
        <3>2. QED
            BY <1>1, <3>1
    <2>5. QED
        BY <2>2, <2>3, <2>4
<1>4. QED
    BY <1>2, <1>3

(* The elements of InsertAt(s, k, e). *)
LEMMA InsertAtFacts ==
    ASSUME NEW S, NEW s \in Seq(S), NEW e \in S, NEW k \in 1..Len(s) + 1
    PROVE  /\ InsertAt(s, k, e) \in Seq(S)
           /\ Len(InsertAt(s, k, e)) = Len(s) + 1
           /\ \A i \in 1..Len(s) + 1 :
                InsertAt(s, k, e)[i] =
                    IF i < k THEN s[i] ELSE IF i = k THEN e ELSE s[i - 1]
<1> DEFINE u == SubSeq(s, 1, k - 1)
           v == SubSeq(s, k, Len(s))
<1>1. u \in Seq(S) /\ Len(u) = k - 1 /\ \A i \in 1..k - 1 : u[i] = s[i]
    BY SubSeqProperties
<1>2. v \in Seq(S) /\ Len(v) = Len(s) - k + 1
      /\ \A i \in 1..Len(s) - k + 1 : v[i] = s[k + i - 1]
    BY SubSeqProperties
<1> HIDE DEF u, v
<1>3. <<e>> \in Seq(S) /\ Len(<<e>>) = 1
    OBVIOUS
<1> DEFINE w1 == u \o <<e>>
           w == w1 \o v
<1>4. /\ w1 \in Seq(S) /\ Len(w1) = k
      /\ \A i \in 1..k : w1[i] = IF i <= k - 1 THEN u[i] ELSE e
    BY <1>1, <1>3, ConcatProperties DEF w1
<1>5. /\ w \in Seq(S) /\ Len(w) = Len(s) + 1
      /\ \A i \in 1..Len(s) + 1 : w[i] = IF i <= k THEN w1[i] ELSE v[i - k]
    BY <1>2, <1>4, ConcatProperties DEF w
<1>9. \A i \in 1..k : w1[i] = IF i <= k - 1 THEN u[i] ELSE e
    BY <1>4
<1>10. \A i \in 1..Len(s) + 1 : w[i] = IF i <= k THEN w1[i] ELSE v[i - k]
    BY <1>5
<1>6. InsertAt(s, k, e) = w
    BY DEF InsertAt, u, v, w, w1
<1> HIDE DEF w1, w
<1>7. ASSUME NEW i \in 1..Len(s) + 1
      PROVE  w[i] = IF i < k THEN s[i] ELSE IF i = k THEN e ELSE s[i - 1]
    <2>0. Len(s) \in Nat /\ k \in Nat
        OBVIOUS
    <2>1. CASE i < k
        <3>1. w[i] = w1[i]
            BY <1>10, <2>0, <2>1
        <3>3. w1[i] = u[i]
            BY <1>9, <2>0, <2>1
        <3>2. QED
            BY <1>1, <3>1, <3>3, <2>0, <2>1
    <2>2. CASE i = k
        BY <1>9, <1>10, <2>0, <2>2
    <2>3. CASE i > k
        <3>1. w[i] = v[i - k] /\ i - k \in 1..Len(s) - k + 1
            BY <1>10, <2>0, <2>3
        <3>2. QED
            BY <1>2, <3>1, <2>0, <2>3
    <2>4. QED
        BY <2>1, <2>2, <2>3
<1>8. QED
    BY <1>5, <1>6, <1>7
-----------------------------------------------------------------------------
(* The list as the catalog sees it.                                         *)
Sorted(s) == \A i, j \in 1..Len(s) : i < j => Cat!Before(s[i], s[j])
NoError(s) == \A i \in 1..Len(s) : s[i].type # "error"

(* ListSorted, stated with compare_resource(), is Sorted on lists of the  *)
(* resources results() makes.                                              *)
LEMMA SortedIsListSorted ==
    ASSUME NEW s \in Seq(Resource), NoError(s)
    PROVE  Sorted(s) <=> \A i, j \in 1..Len(s) :
                            i < j => compare_resource(s[i], s[j]) < 0
BY CompareIsBefore DEF Sorted, NoError

(* One splice of results() keeps a sorted list sorted and adds exactly the *)
(* new resource, when no resource of the list has its URI.                *)
LEMMA InsertSorted ==
    ASSUME NEW s \in Seq(Resource), NoError(s), Sorted(s),
           NEW e \in Resource, e.type # "error",
           \A i \in 1..Len(s) : s[i].uri # e.uri
    PROVE  LET t == InsertAt(s, InsertPos(s, e), e) IN
           /\ t \in Seq(Resource)
           /\ Len(t) = Len(s) + 1
           /\ NoError(t)
           /\ Sorted(t)
           /\ ToSet(t) = ToSet(s) \cup {e}
<1> DEFINE k == InsertPos(s, e)
           t == InsertAt(s, k, e)
<1>0. t = InsertAt(s, k, e)
    BY DEF t
<1>1. /\ k \in 1..Len(s) + 1
      /\ \A j \in 1..k - 1 : compare_resource(s[j], e) < 0
      /\ k <= Len(s) => compare_resource(s[k], e) >= 0
    BY InsertPosFacts
<1> HIDE DEF k, t
<1>2. ASSUME NEW j \in 1..Len(s)
      PROVE  /\ compare_resource(s[j], e) < 0 <=> Cat!Before(s[j], e)
             /\ compare_resource(s[j], e) \in Int
    <2>1. s[j] \in Resource /\ s[j].type # "error"
        BY DEF NoError
    <2>2. QED
        BY <2>1, CompareIsBefore, CompareRange
<1>3. /\ \A j \in 1..k - 1 : Cat!Before(s[j], e)
      /\ k <= Len(s) => ~Cat!Before(s[k], e)
    BY <1>1, <1>2
<1>4. /\ t \in Seq(Resource)
      /\ Len(t) = Len(s) + 1
      /\ \A i \in 1..Len(s) + 1 :
            t[i] = IF i < k THEN s[i] ELSE IF i = k THEN e ELSE s[i - 1]
    <2>1. k \in 1..Len(s) + 1
        BY <1>1
    <2>2. /\ InsertAt(s, k, e) \in Seq(Resource)
          /\ Len(InsertAt(s, k, e)) = Len(s) + 1
          /\ \A i \in 1..Len(s) + 1 :
                InsertAt(s, k, e)[i] =
                    IF i < k THEN s[i] ELSE IF i = k THEN e ELSE s[i - 1]
        BY <2>1, InsertAtFacts
    <2>3. QED
        BY <1>0, <2>2
<1>9. ASSUME NEW i \in 1..Len(s) + 1
      PROVE  /\ i < k => i \in 1..Len(s) /\ t[i] = s[i]
             /\ i = k => t[i] = e
             /\ i > k => i - 1 \in 1..Len(s) /\ t[i] = s[i - 1]
             /\ i < k \/ i = k \/ i > k
    BY <1>1, <1>4
<1>5. NoError(t)
    <2> SUFFICES ASSUME NEW i \in 1..Len(s) + 1 PROVE t[i].type # "error"
        BY <1>4 DEF NoError
    <2>1. CASE i < k
        BY <1>9, <2>1 DEF NoError
    <2>2. CASE i = k
        BY <1>9, <2>2
    <2>3. CASE i > k
        BY <1>9, <2>3 DEF NoError
    <2>4. QED
        BY <1>9, <2>1, <2>2, <2>3
<1>6. Sorted(t)
    <2> SUFFICES ASSUME NEW i \in 1..Len(s) + 1, NEW j \in 1..Len(s) + 1,
                        i < j
                 PROVE  Cat!Before(t[i], t[j])
        BY <1>4 DEF Sorted
    <2>0. i \in Int /\ j \in Int /\ k \in Int
        BY <1>1
    <2>1. CASE j < k
        <3>1. i < k
            BY <2>0, <2>1
        <3>2. t[i] = s[i] /\ t[j] = s[j] /\ i \in 1..Len(s) /\ j \in 1..Len(s)
            BY <1>9, <2>1, <3>1
        <3>3. QED
            BY <3>2 DEF Sorted
    <2>2. CASE j = k
        <3>1. i < k
            BY <2>0, <2>2
        <3>2. t[i] = s[i] /\ t[j] = e /\ i \in 1..k - 1
            BY <1>9, <2>2, <3>1
        <3>3. QED
            BY <1>3, <3>2
    <2>3. CASE i < k /\ j > k
        <3>1. t[i] = s[i] /\ t[j] = s[j - 1] /\ i < j - 1
              /\ i \in 1..Len(s) /\ j - 1 \in 1..Len(s)
            BY <1>9, <2>0, <2>3
        <3>2. QED
            BY <3>1 DEF Sorted
    <2>4. CASE i = k
        <3>0. j > k
            BY <2>0, <2>4
        <3>1. t[i] = e /\ t[j] = s[j - 1] /\ j - 1 \in k..Len(s)
              /\ k \in 1..Len(s)
            BY <1>1, <1>9, <2>0, <2>4, <3>0
        <3>2. Cat!Before(e, s[k])
            <4>1. ~Cat!Before(s[k], e)
                BY <1>3, <3>1
            <4>2. s[k].uri # e.uri /\ s[k] \in Resource
                BY <3>1
            <4>3. QED
                BY <4>1, <4>2, BeforeOrder
        <3>3. CASE j - 1 = k
            BY <3>1, <3>2, <3>3
        <3>4. CASE j - 1 > k
            <4>1. Cat!Before(s[k], s[j - 1])
                BY <3>1, <3>4 DEF Sorted
            <4>2. s[j - 1] \in Resource
                BY <3>1
            <4>3. QED
                BY <3>1, <3>2, <4>1, <4>2, BeforeOrder
        <3>5. QED
            BY <3>1, <3>3, <3>4, <2>0
    <2>5. CASE i > k
        <3>1. t[i] = s[i - 1] /\ t[j] = s[j - 1] /\ i - 1 < j - 1
              /\ i - 1 \in 1..Len(s) /\ j - 1 \in 1..Len(s)
            BY <1>9, <2>0, <2>5
        <3>2. QED
            BY <3>1 DEF Sorted
    <2>6. QED
        BY <2>0, <2>1, <2>2, <2>3, <2>4, <2>5
<1>7. ToSet(t) = ToSet(s) \cup {e}
    <2>1. ASSUME NEW i \in 1..Len(s) + 1
          PROVE  t[i] \in ToSet(s) \cup {e}
        <3>1. CASE i < k
            BY <1>9, <3>1 DEF ToSet
        <3>2. CASE i = k
            BY <1>9, <3>2
        <3>3. CASE i > k
            BY <1>9, <3>3 DEF ToSet
        <3>4. QED
            BY <1>9, <3>1, <3>2, <3>3
    <2>2. ASSUME NEW m \in 1..Len(s) PROVE s[m] \in ToSet(t)
        <3>1. CASE m < k
            <4>1. t[m] = s[m]
                BY <1>9, <3>1
            <4>2. m \in DOMAIN t
                BY <1>4, <3>1
            <4>3. QED
                BY <4>1, <4>2 DEF ToSet
        <3>2. CASE m >= k
            <4>1. m + 1 \in 1..Len(s) + 1 /\ m + 1 > k
                BY <1>1, <3>2
            <4>2. t[m + 1] = s[m]
                BY <1>9, <4>1
            <4>3. QED
                BY <1>4, <4>1, <4>2 DEF ToSet
        <3>3. QED
            BY <1>1, <3>1, <3>2
    <2>3. e \in ToSet(t)
        <3>1. t[k] = e /\ k \in 1..Len(t)
            BY <1>1, <1>4, <1>9
        <3>2. QED
            BY <3>1 DEF ToSet
    <2>4. QED
        BY <1>4, <2>1, <2>2, <2>3 DEF ToSet
<1>8. QED
    BY <1>4, <1>5, <1>6, <1>7 DEF t, k
-----------------------------------------------------------------------------
(* The inductive invariant.  Besides the type, the list is sorted and    *)
(* holds no error; no response still in the body names a URI already in   *)
(* the list, and no two name the same URI (the server reports each member *)
(* once); the PROPFIND has not returned while currResource is unset, and  *)
(* has consumed the whole body when it returns; and the target's own      *)
(* entry is a collection unless the body is the lone entry of a file, and *)
(* with include_target it is still to come or already in the list.        *)
Fresh ==
    \A r \in pending : \A x \in ToSet(list) : x.uri # r.href
Distinct ==
    \A a, b \in pending : a.href = b.href => a = b
Staged ==
    /\ stage = "fetching" => cur = 0
    /\ stage = "listed" => pending = {} /\ cur >= 1
TargetKind ==
    \/ /\ \A r \in pending : r.href = Target
       /\ \A x \in ToSet(list) : x.uri = Target
    \/ /\ \A r \in pending : r.href = Target => r = TargetDir
       /\ \A x \in ToSet(list) : x.uri = Target => x.type = "collection"
TargetKept ==
    include => \/ \E r \in pending : r.href = Target
               \/ \E x \in ToSet(list) : x.uri = Target

LInv ==
    /\ TypeOK
    /\ NoError(list) /\ Sorted(list)
    /\ Fresh /\ Distinct /\ Staged
    /\ TargetKind /\ TargetKept

(* The context _opendir() and _stat() set up, with the server's whole     *)
(* answer still to be parsed, satisfies the invariant.                    *)
LEMMA InitLInv == Init => LInv
<1> SUFFICES ASSUME Init PROVE LInv
    OBVIOUS
<1>1. CASE \E r \in Response : r.href = Target /\ r.rtype = "none" /\
                               Consistent(r) /\ pending = {r}
    <2>1. PICK r \in Response : r.href = Target /\ r.rtype = "none" /\
                               Consistent(r) /\ pending = {r}
        BY <1>1
    <2>2. TypeOK
        BY <2>1, ListAssumption DEF Init, TypeOK, NoRes, Cat!NoRes, Resource,
                                     Cat!Resource, Cat!Types
    <2>3. NoError(list) /\ Sorted(list) /\ Fresh /\ Staged
        BY DEF Init, NoError, Sorted, Fresh, Staged, ToSet
    <2>4. Distinct /\ TargetKind /\ TargetKept
        <3>1. ToSet(list) = {}
            BY DEF Init, ToSet
        <3>2. QED
            BY <2>1, <3>1 DEF Distinct, TargetKind, TargetKept
    <2>5. QED
        BY <2>2, <2>3, <2>4 DEF LInv
<1>2. CASE \E C \in SUBSET Members :
              /\ \A a, b \in C : a.href = b.href => a = b
              /\ pending = {TargetDir} \cup C
    <2>1. PICK C \in SUBSET Members :
              /\ \A a, b \in C : a.href = b.href => a = b
              /\ pending = {TargetDir} \cup C
        BY <1>2
    <2>0. TargetDir \in Response /\ TargetDir.href = Target
        BY ListAssumption DEF TargetDir, Response, NoLength
    <2>2. TypeOK
        BY <2>0, <2>1, ListAssumption DEF Init, TypeOK, NoRes, Cat!NoRes,
                 Resource, Cat!Resource, Cat!Types, Members
    <2>3. NoError(list) /\ Sorted(list) /\ Fresh /\ Staged
        BY DEF Init, NoError, Sorted, Fresh, Staged, ToSet
    <2>4. Distinct
        BY <2>0, <2>1 DEF Distinct, Members
    <2>5. TargetKind /\ TargetKept
        <3>1. ToSet(list) = {}
            BY DEF Init, ToSet
        <3>2. QED
            BY <2>0, <2>1, <3>1 DEF TargetKind, TargetKept, Members
    <2>6. QED
        BY <2>2, <2>3, <2>4, <2>5 DEF LInv
<1>3. QED
    BY <1>1, <1>2 DEF Init, Bodies

(* What results() makes of a response: a resource, never an error, named *)
(* by the response's href.                                                 *)
LEMMA ToResourceFacts ==
    ASSUME NEW r \in Response
    PROVE  /\ ToResource(r) \in Resource
           /\ ToResource(r).type # "error"
           /\ ToResource(r).uri = r.href
           /\ r = TargetDir => ToResource(r).type = "collection"
BY ListAssumption DEF ToResource, Response, Resource, Cat!Resource,
                      Cat!Types, TargetDir, NoLength, BadLength

(* results() on one response keeps the invariant, whether it skips the   *)
(* target or splices the resource into the list.                          *)
LEMMA ResultsLInv ==
    ASSUME LInv, NEW r \in Response, Results(r)
    PROVE  LInv'
<1> USE DEF LInv
<1>0. /\ stage = "fetching" /\ r \in pending /\ pending' = pending \ {r}
      /\ UNCHANGED <<include, cur, stage, yielded>>
      /\ cur = 0
    BY DEF Results, Staged
<1>1. Distinct'
    BY <1>0 DEF Distinct
<1>2. Staged'
    BY <1>0 DEF Staged
<1>3. CASE r.href = Target /\ ~include /\ UNCHANGED list
    <2>1. TypeOK'
        BY <1>0, <1>3 DEF TypeOK
    <2>2. (NoError(list) /\ Sorted(list) /\ Fresh /\ TargetKind /\ TargetKept)'
        BY <1>0, <1>3 DEF NoError, Sorted, Fresh, TargetKind, TargetKept
    <2>3. QED
        BY <1>1, <1>2, <2>1, <2>2
<1>4. CASE /\ r.href # Target \/ include
           /\ list' = InsertAt(list, InsertPos(list, ToResource(r)),
                               ToResource(r))
    <2> DEFINE e == ToResource(r)
    <2>1. e \in Resource /\ e.type # "error" /\ e.uri = r.href
          /\ (r = TargetDir => e.type = "collection")
        BY ToResourceFacts
    <2>2. \A i \in 1..Len(list) : list[i].uri # e.uri
        BY <1>0, <2>1 DEF Fresh, ToSet, TypeOK
    <2> HIDE DEF e
    <2>3. /\ list' \in Seq(Resource)
          /\ Len(list') = Len(list) + 1
          /\ NoError(list') /\ Sorted(list')
          /\ ToSet(list') = ToSet(list) \cup {e}
        BY <1>4, <2>1, <2>2, InsertSorted DEF TypeOK, e
    <2>4. TypeOK'
        BY <1>0, <2>3 DEF TypeOK
    <2>5. Fresh'
        <3> SUFFICES ASSUME NEW q \in pending', NEW x \in ToSet(list')
                     PROVE  x.uri # q.href
            BY DEF Fresh
        <3>1. q \in pending /\ q # r
            BY <1>0
        <3>2. CASE x \in ToSet(list)
            BY <3>1, <3>2 DEF Fresh
        <3>3. CASE x = e
            BY <1>0, <2>1, <3>1, <3>3 DEF Distinct
        <3>4. QED
            BY <2>3, <3>2, <3>3
    <2>6. TargetKind'
        <3>1. CASE /\ \A q \in pending : q.href = Target
                   /\ \A x \in ToSet(list) : x.uri = Target
            BY <1>0, <2>1, <2>3, <3>1 DEF TargetKind
        <3>2. CASE /\ \A q \in pending : q.href = Target => q = TargetDir
                   /\ \A x \in ToSet(list) : x.uri = Target => x.type = "collection"
            BY <1>0, <2>1, <2>3, <3>2 DEF TargetKind
        <3>3. QED
            BY <3>1, <3>2 DEF TargetKind
    <2>7. TargetKept'
        <3> SUFFICES ASSUME include'
                     PROVE  \/ \E q \in pending' : q.href = Target
                            \/ \E x \in ToSet(list') : x.uri = Target
            BY DEF TargetKept
        <3>1. CASE \E q \in pending : q.href = Target
            <4>1. PICK q \in pending : q.href = Target
                BY <3>1
            <4>2. CASE q = r
                BY <2>1, <2>3, <4>1, <4>2
            <4>3. CASE q # r
                BY <1>0, <4>1, <4>3
            <4>4. QED
                BY <4>2, <4>3
        <3>2. CASE \E x \in ToSet(list) : x.uri = Target
            BY <2>3, <3>2
        <3>3. QED
            BY <1>0, <3>1, <3>2 DEF TargetKept
    <2>8. QED
        BY <1>1, <1>2, <2>3, <2>4, <2>5, <2>6, <2>7
<1>5. QED
    BY <1>3, <1>4 DEF Results

(* ne_simple_propfind() returning, with NE_OK or with an error, and       *)
(* _readdir() moving currResource keep the invariant: none of them        *)
(* touches the list or the body.                                          *)
LEMMA PropfindDoneLInv ==
    ASSUME LInv, PropfindDone
    PROVE  LInv'
<1>1. TypeOK'
    BY DEF LInv, PropfindDone, TypeOK
<1>2. Staged'
    BY DEF PropfindDone, Staged
<1>3. QED
    BY <1>1, <1>2 DEF LInv, PropfindDone, NoError, Sorted, Fresh, Distinct,
                      TargetKind, TargetKept

LEMMA PropfindFailsLInv ==
    ASSUME LInv, PropfindFails
    PROVE  LInv'
BY DEF LInv, PropfindFails, TypeOK, NoError, Sorted, Fresh, Distinct, Staged,
       TargetKind, TargetKept

LEMMA ReaddirLInv ==
    ASSUME LInv, Readdir
    PROVE  LInv'
<1>1. TypeOK'
    <2>1. CASE cur <= Len(list) /\ yielded' = list[cur] /\ cur' = cur + 1
        <3>1. cur \in 1..Len(list)
            BY <2>1 DEF LInv, TypeOK, Readdir, Staged
        <3>2. QED
            BY <2>1, <3>1 DEF LInv, TypeOK, Readdir
    <2>2. CASE cur > Len(list) /\ yielded' = NoRes /\ UNCHANGED cur
        BY <2>2, ListAssumption DEF LInv, TypeOK, Readdir, NoRes, Cat!NoRes,
               Resource, Cat!Resource, Cat!Types
    <2>3. QED
        BY <2>1, <2>2 DEF Readdir
<1>2. Staged'
    BY DEF LInv, TypeOK, Readdir, Staged
<1>3. QED
    BY <1>1, <1>2 DEF LInv, Readdir, NoError, Sorted, Fresh, Distinct,
                      TargetKind, TargetKept

(* Every step of the listing, and every stutter, keeps the invariant. *)
LEMMA NextLInv ==
    ASSUME LInv, [Next]_vars
    PROVE  LInv'
<1>1. CASE \E r \in Response : Results(r)
    BY <1>1, ResultsLInv
<1>2. CASE UNCHANGED vars
    BY <1>2 DEF vars, LInv, TypeOK, NoError, Sorted, Fresh, Distinct, Staged,
                TargetKind, TargetKept
<1>3. QED
    BY <1>1, <1>2, PropfindDoneLInv, PropfindFailsLInv, ReaddirLInv DEF Next

(* The invariant holds in every state the listing reaches. *)
THEOREM LInvHolds == Spec => []LInv
BY InitLInv, NextLInv, PTL DEF Spec

(* Every resource results() stores comes out of resource_from_response()  *)
(* with a type, a size and a uri the catalogue knows, and the cursor    *)
(* readdir() advances never runs more than one past the end.            *)
THEOREM TypeOKHolds == Spec => []TypeOK
<1>1. LInv => TypeOK
    BY DEF LInv
<1>2. QED
    BY <1>1, LInvHolds, PTL

(* Whatever order the server writes its responses in, the list results() *)
(* builds is strictly ordered by compare_resource().                      *)
THEOREM ListSortedHolds == Spec => []ListSorted
<1>1. LInv => ListSorted
    BY SortedIsListSorted DEF LInv, TypeOK, ListSorted
<1>2. QED
    BY <1>1, LInvHolds, PTL

(* With include_target set, the head of the list _stat() reads after a   *)
(* complete PROPFIND is the resource of the path it was asked about.      *)
THEOREM HeadIsTargetHolds == Spec => []HeadIsTarget
<1>1. LInv => HeadIsTarget
    <2> SUFFICES ASSUME LInv, stage = "listed", include, list # <<>>
                 PROVE  list[1].uri = Target
        BY DEF HeadIsTarget
    <2>1. list \in Seq(Resource) /\ pending = {}
        BY DEF LInv, TypeOK, Staged
    <2>2. PICK j \in 1..Len(list) : list[j].uri = Target
        BY <2>1 DEF LInv, TargetKept, ToSet
    <2>3. 1 \in 1..Len(list) /\ list[1] \in Resource /\ list[1].type # "error"
        BY <2>1, <2>2 DEF LInv, NoError
    <2>4. CASE \A x \in ToSet(list) : x.uri = Target
        BY <2>1, <2>3, <2>4 DEF ToSet
    <2>5. CASE \A x \in ToSet(list) : x.uri = Target => x.type = "collection"
        <3>1. list[j].type = "collection"
            BY <2>1, <2>2, <2>5 DEF ToSet
        <3>2. CASE j = 1
            BY <2>2, <3>2
        <3>3. CASE j # 1
            <4>1. Cat!Before(list[1], list[j])
                BY <2>2, <3>3 DEF LInv, Sorted
            <4>2. list[1].uri \in Uris
                BY <2>3 DEF Resource, Cat!Resource
            <4>6. Target <= list[1].uri /\ Target \in Nat /\ list[1].uri \in Nat
                BY <4>2, ListAssumption
            <4>3. ~(list[1].uri < Target)
                BY <4>6
            <4>4. Cat!TierOf(list[1].type) \in {1, 2}
                  /\ Cat!TierOf(list[j].type) = 1
                BY <2>3, <3>1 DEF Cat!TierOf, Resource, Cat!Resource, Cat!Types
            <4>5. QED
                BY <2>2, <4>1, <4>3, <4>4 DEF Cat!Before
        <3>4. QED
            BY <3>2, <3>3
    <2>6. QED
        BY <2>1, <2>4, <2>5 DEF LInv, TargetKind
<1>2. QED
    BY <1>1, LInvHolds, PTL
-----------------------------------------------------------------------------
(* The refinement.  The catalog's collected set is the set of the list's *)
(* resources, and its remaining set the list from currResource on.        *)
Rest == IF stage = "listed" THEN {list[i] : i \in cur..Len(list)} ELSE {}

(* The context _opendir() and _stat() set up is an empty catalog. *)
LEMMA InitRefines == Init => Cat!Init
BY DEF Init, Cat!Init, ToSet, NoRes

(* A splice of results() is the catalog receiving the resource. *)
LEMMA ResultsRefines ==
    ASSUME LInv, NEW r \in Response, Results(r)
    PROVE  [Cat!Next]_Cat!cvars
<1>0. /\ stage = "fetching" /\ r \in pending /\ stage' = "fetching"
      /\ UNCHANGED <<include, cur, yielded>>
    BY DEF Results
<1>1. CASE r.href = Target /\ ~include /\ UNCHANGED list
    BY <1>0, <1>1 DEF Cat!cvars
<1>2. CASE /\ r.href # Target \/ include
           /\ list' = InsertAt(list, InsertPos(list, ToResource(r)),
                               ToResource(r))
    <2> DEFINE e == ToResource(r)
    <2>1. e \in Resource /\ e.type # "error" /\ e.uri = r.href
        BY ToResourceFacts
    <2>2. \A i \in 1..Len(list) : list[i].uri # e.uri
        BY <1>0, <2>1 DEF LInv, Fresh, ToSet, TypeOK
    <2> HIDE DEF e
    <2>3. ToSet(list') = ToSet(list) \cup {e}
        BY <1>2, <2>1, <2>2, InsertSorted DEF LInv, TypeOK, e
    <2>4. Cat!Receive(e)
        BY <1>0, <1>2, <2>1, <2>3 DEF Cat!Receive
    <2>5. QED
        BY <2>1, <2>4 DEF Cat!Next, Resource
<1>3. QED
    BY <1>1, <1>2 DEF Results

(* ne_simple_propfind() returning NE_OK is the catalog being listed: the *)
(* list from its head is everything collected.                            *)
LEMMA PropfindDoneRefines ==
    ASSUME LInv, PropfindDone
    PROVE  Cat!Finish
<1>1. list \in Seq(Resource)
    BY DEF LInv, TypeOK
<1>2. {list[i] : i \in 1..Len(list)} = ToSet(list)
    BY <1>1 DEF ToSet
<1>3. QED
    BY <1>2 DEF PropfindDone, Cat!Finish

LEMMA PropfindFailsRefines ==
    ASSUME PropfindFails
    PROVE  Cat!Fail
BY DEF PropfindFails, Cat!Fail

(* _readdir() is the catalog handing out its least remaining resource,   *)
(* or reporting that none is left: the list from currResource on is       *)
(* sorted, so its head is the least and never reappears behind it.        *)
LEMMA ReaddirRefines ==
    ASSUME LInv, Readdir
    PROVE  [Cat!Next]_Cat!cvars
<1>0. /\ stage = "listed" /\ stage' = "listed" /\ list \in Seq(Resource)
      /\ cur \in 1..Len(list) + 1 /\ NoError(list) /\ Sorted(list)
      /\ UNCHANGED <<include, list>>
    BY DEF Readdir, LInv, TypeOK, Staged
<1>1. CASE cur <= Len(list) /\ yielded' = list[cur] /\ cur' = cur + 1
    <2>1. cur \in 1..Len(list) /\ list[cur] \in Resource
        BY <1>0, <1>1
    <2>2. ASSUME NEW i \in cur + 1..Len(list)
          PROVE  Cat!Before(list[cur], list[i]) /\ list[i] \in Resource
        BY <1>0, <2>1 DEF Sorted
    <2>3. Cat!Least(list[cur], Rest)
        <3>1. list[cur] \in Rest
            BY <1>0, <2>1 DEF Rest
        <3>2. ASSUME NEW i \in cur..Len(list)
              PROVE  ~Cat!Before(list[i], list[cur])
            <4>1. CASE i = cur
                BY <2>1, <4>1, BeforeOrder
            <4>2. CASE i # cur
                <5>1. i \in cur + 1..Len(list)
                    BY <2>1, <4>2
                <5>2. QED
                    BY <2>1, <2>2, <5>1, BeforeOrder
            <4>3. QED
                BY <4>1, <4>2
        <3>3. QED
            BY <1>0, <3>1, <3>2 DEF Cat!Least, Rest
    <2>4. Rest' = Rest \ {list[cur]}
        <3>1. Rest' = {list[i] : i \in cur + 1..Len(list)}
            BY <1>0, <1>1 DEF Rest
        <3>2. ASSUME NEW i \in cur + 1..Len(list) PROVE list[i] # list[cur]
            BY <2>1, <2>2, BeforeOrder
        <3>3. ASSUME NEW i \in cur..Len(list), i # cur
              PROVE  i \in cur + 1..Len(list)
            BY <2>1, <3>3
        <3>5. Rest = {list[i] : i \in cur..Len(list)}
            BY <1>0 DEF Rest
        <3>6. \A x \in {list[i] : i \in cur + 1..Len(list)} :
                 x \in {list[i] : i \in cur..Len(list)} /\ x # list[cur]
            BY <2>1, <3>2
        <3>7. \A x \in {list[i] : i \in cur..Len(list)} :
                 x # list[cur] => x \in {list[i] : i \in cur + 1..Len(list)}
            BY <3>3
        <3>4. QED
            <4> HIDE DEF Rest
            <4>1. QED
                BY <3>1, <3>5, <3>6, <3>7
    <2>5. Cat!HandOut(list[cur])
        BY <1>0, <1>1, <2>3, <2>4 DEF Cat!HandOut, Rest, Readdir
    <2>6. \E x \in Cat!Resource : Cat!HandOut(x)
        <3> DEFINE h == list[cur]
        <3>1. h \in Cat!Resource /\ Cat!HandOut(h)
            BY <2>1, <2>5 DEF Resource
        <3> HIDE DEF h
        <3>2. QED
            BY <3>1 DEF Cat!HandOut
    <2>7. QED
        BY <2>6 DEF Cat!Next
<1>2. CASE cur > Len(list) /\ yielded' = NoRes /\ UNCHANGED cur
    <2>1. Rest = {}
        BY <1>0, <1>2 DEF Rest
    <2>2. Cat!Exhausted
        BY <1>0, <1>2, <2>1 DEF Cat!Exhausted, Rest, Readdir, NoRes
    <2>3. QED
        BY <2>2 DEF Cat!Next
<1>3. QED
    BY <1>1, <1>2 DEF Readdir

(* Every step of the listing is a step of the catalog, or leaves the      *)
(* catalog as it was.                                                      *)
LEMMA NextRefines ==
    ASSUME LInv, [Next]_vars
    PROVE  [Cat!Next]_Cat!cvars
<1>1. CASE \E r \in Response : Results(r)
    BY <1>1, ResultsRefines
<1>2. CASE PropfindDone
    BY <1>2, PropfindDoneRefines DEF Cat!Next
<1>3. CASE PropfindFails
    BY <1>3, PropfindFailsRefines DEF Cat!Next
<1>4. CASE Readdir
    BY <1>4, ReaddirRefines
<1>5. CASE UNCHANGED vars
    BY <1>5 DEF vars, Cat!cvars
<1>6. QED
    BY <1>1, <1>2, <1>3, <1>4, <1>5 DEF Next

(* _readdir() hands out what results() collected in the catalog's order, *)
(* each resource once, the target left out unless asked for: the listing *)
(* implements the catalog.                                                 *)
THEOREM Refinement == Spec => CatalogRefined
<1>1. Init => Cat!Init
    BY InitRefines
<1>2. LInv /\ [Next]_vars => [Cat!Next]_Cat!cvars
    BY NextRefines
<1>3. QED
    BY <1>1, <1>2, LInvHolds, PTL DEF Spec, Cat!Spec, CatalogRefined
=============================================================================
