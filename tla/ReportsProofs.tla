---------------------------- MODULE ReportsProofs ----------------------------
(***************************************************************************)
(* Proofs about Reports: the comparisons of diff, for process trees of any    *)
(* shape and any number of items, and whatever order the runtime ranges in;   *)
(* and that a run of Reports is a run of each of its components, so what is    *)
(* proved of these holds in it.                                              *)
(***************************************************************************)
EXTENDS Reports, FiniteSetTheorems, SequenceTheorems, TLAPS

-----------------------------------------------------------------------------
(***************************************************************************)
(* What is in a list that grows or shrinks                                 *)
(***************************************************************************)

LEMMA RangeAppended ==
  ASSUME NEW S, NEW list \in Seq(S), NEW x \in S
  PROVE  Range(Append(list, x)) = Range(list) \union {x}
<1> DEFINE more == Append(list, x)
<1>1. /\ Len(list) \in Nat /\ DOMAIN list = 1..Len(list)
      /\ DOMAIN more = 1..(Len(list) + 1)
      /\ more[Len(list) + 1] = x /\ \A i \in 1..Len(list) : more[i] = list[i]
  OBVIOUS
<1> HIDE DEF more
<1>2. ASSUME NEW y \in Range(more) PROVE y \in Range(list) \union {x}
  <2>1. PICK i \in 1..(Len(list) + 1) : y = more[i]
    BY <1>1 DEF Range
  <2>2. CASE i = Len(list) + 1
    BY <1>1, <2>1, <2>2
  <2>3. CASE i # Len(list) + 1
    BY <1>1, <2>1, <2>3 DEF Range
  <2> QED BY <2>2, <2>3
<1>3. ASSUME NEW y \in Range(list) PROVE y \in Range(more)
  BY <1>1 DEF Range
<1>4. x \in Range(more)
  BY <1>1 DEF Range
<1> QED BY <1>2, <1>3, <1>4 DEF more

LEMMA RangeJoined ==
  ASSUME NEW S, NEW a \in Seq(S), NEW b \in Seq(S)
  PROVE  Range(a \o b) = Range(a) \union Range(b)
<1> DEFINE c == a \o b
<1>1. /\ Len(a) \in Nat /\ Len(b) \in Nat
      /\ DOMAIN a = 1..Len(a) /\ DOMAIN b = 1..Len(b) /\ DOMAIN c = 1..(Len(a) + Len(b))
      /\ \A i \in 1..Len(a) : c[i] = a[i]
      /\ \A i \in 1..Len(b) : c[i + Len(a)] = b[i]
  OBVIOUS
<1> HIDE DEF c
<1>2. ASSUME NEW y \in Range(c) PROVE y \in Range(a) \union Range(b)
  <2>1. PICK i \in 1..(Len(a) + Len(b)) : y = c[i]
    BY <1>1 DEF Range
  <2>2. CASE i <= Len(a)
    BY <1>1, <2>1, <2>2 DEF Range
  <2>3. CASE ~(i <= Len(a))
    <3>1. i - Len(a) \in 1..Len(b) /\ (i - Len(a)) + Len(a) = i
      BY <1>1, <2>3
    <3>2. y = b[i - Len(a)]
      BY <1>1, <2>1, <3>1
    <3> QED BY <1>1, <3>1, <3>2 DEF Range
  <2> QED BY <2>2, <2>3
<1>3. Range(a) \subseteq Range(c)
  BY <1>1 DEF Range
<1>4. ASSUME NEW y \in Range(b) PROVE y \in Range(c)
  <2>1. PICK i \in 1..Len(b) : y = b[i]
    BY <1>1 DEF Range
  <2>2. i + Len(a) \in DOMAIN c
    BY <1>1
  <2> QED BY <1>1, <2>1, <2>2 DEF Range
<1> QED BY <1>2, <1>3, <1>4 DEF c

LEMMA RangeAtHead ==
  ASSUME NEW S, NEW list \in Seq(S), list # <<>>
  PROVE  Range(list) = {Head(list)} \union Range(Tail(list))
<1>1. Head(list) \in S /\ Tail(list) \in Seq(S) /\ list = <<Head(list)>> \o Tail(list)
  OBVIOUS
<1>2. <<Head(list)>> \in Seq(S)
  BY <1>1
<1>3. Range(<<Head(list)>>) = {Head(list)}
  BY DEF Range
<1>4. Range(<<Head(list)>> \o Tail(list)) = Range(<<Head(list)>>) \union Range(Tail(list))
  BY <1>1, <1>2, RangeJoined
<1> QED BY <1>1, <1>3, <1>4

-----------------------------------------------------------------------------
(***************************************************************************)
(* Types                                                                   *)
(***************************************************************************)

(* A map files every item under its key.                                    *)
FiledWell(m) ==
  /\ DOMAIN m \subseteq Keys
  /\ \A k \in DOMAIN m : m[k] \in Item /\ m[k].key = k

InputTyped ==
  /\ kind \in Kinds /\ psTreeCmd \in BOOLEAN
  /\ kind = "processes" =>
       trees \in [Sides -> Trees \union {NoTree}] /\ cmdline \in [Sides -> [Keys -> Details]]

WorkTyped ==
  /\ items \in [Sides -> Seq(Item)]
  /\ stack \in [Sides -> Seq(Keys)]
  /\ \A s \in Sides : ~HasTree(s) => stack[s] = <<>>
  /\ comparePc \in {"collect", "find", "done", "refused"}
  /\ index \in [Sides -> Nat] /\ \A s \in Sides : index[s] <= Len(items[s])

MapsTyped ==
  /\ DOMAIN map = Sides /\ \A s \in Sides : FiledWell(map[s])
  /\ DOMAIN todo = Sides /\ \A s \in Sides : todo[s] \subseteq DOMAIN map[s]

ListsTyped ==
  /\ result \in [Lists -> Seq(Item)]
  /\ kind \in {"files", "sockets"} => result["modified"] = <<>>

TypeInv == InputTyped /\ WorkTyped /\ MapsTyped /\ ListsTyped

LEMMA TypesImply == TypeInv => CompareTypeOK
<1> SUFFICES ASSUME TypeInv PROVE CompareTypeOK
  OBVIOUS
<1> USE DEF TypeInv
<1>1. \A s \in Sides : index[s] \in 0..Len(items[s])
  <2> SUFFICES ASSUME NEW s \in Sides PROVE index[s] \in 0..Len(items[s])
    OBVIOUS
  <2>1. index[s] \in Nat /\ items[s] \in Seq(Item) /\ index[s] <= Len(items[s])
    BY DEF WorkTyped
  <2> QED BY <2>1
<1>2. \A s \in Sides : Range(map[s]) \subseteq Item
  BY DEF MapsTyped, FiledWell, Range
<1> QED BY <1>1, <1>2 DEF CompareTypeOK, InputTyped, WorkTyped, MapsTyped, ListsTyped, FiledWell

LEMMA ItemListsAreLists == ItemLists \subseteq Seq(Item)
<1> SUFFICES ASSUME NEW list \in ItemLists PROVE list \in Seq(Item)
  OBVIOUS
<1>1. PICK n \in 0..MaxItems : list \in [1..n -> Item]
  BY DEF ItemLists
<1>2. n \in Nat
  BY CompareAssumption
<1> QED BY <1>1, <1>2, IsASeq

LEMMA TypeInit == CompareInit => TypeInv
<1> SUFFICES ASSUME CompareInit PROVE TypeInv
  OBVIOUS
<1> USE DEF CompareInit
<1>1. InputTyped
  <2>1. kind \in Kinds /\ psTreeCmd \in BOOLEAN
    BY DEF CompareInput
  <2>2. CASE kind = "processes"
    BY <2>1, <2>2 DEF CompareInput, InputTyped
  <2>3. CASE kind # "processes"
    BY <2>1, <2>3 DEF InputTyped
  <2> QED BY <2>2, <2>3
<1>2. items \in [Sides -> Seq(Item)]
  <2>1. CASE kind = "processes"
    <3>1. items = [s \in Sides |-> <<>>]
      BY <2>1 DEF CompareInput
    <3> QED BY <3>1
  <2>2. CASE kind # "processes"
    <3>1. items \in [Sides -> ItemLists]
      BY <2>2 DEF CompareInput
    <3> QED BY <3>1, ItemListsAreLists
  <2> QED BY <2>1, <2>2
<1>3. stack \in [Sides -> Seq(Keys)] /\ \A s \in Sides : ~HasTree(s) => stack[s] = <<>>
  <2>1. stack = [s \in Sides |-> IF HasTree(s) THEN <<trees[s].root>> ELSE <<>>]
    BY DEF CompareStart
  <2>2. \A s \in Sides : HasTree(s) => trees[s].root \in Keys
    BY <1>1, CompareAssumption DEF InputTyped, HasTree, TreeType
  <2>3. \A s \in Sides : HasTree(s) => <<trees[s].root>> \in Seq(Keys)
    BY <2>2
  <2>4. <<>> \in Seq(Keys)
    OBVIOUS
  <2> QED BY <2>1, <2>3, <2>4
<1>4. /\ comparePc = "collect" /\ index = [s \in Sides |-> 0]
      /\ map = [s \in Sides |-> EmptyMap] /\ todo = [s \in Sides |-> {}]
      /\ result = [l \in Lists |-> <<>>]
  BY DEF CompareStart
<1>5. WorkTyped
  <2>1. \A s \in Sides : Len(items[s]) \in Nat
    BY <1>2
  <2> QED BY <1>2, <1>3, <1>4, <2>1 DEF WorkTyped
<1>6. MapsTyped
  BY <1>4 DEF MapsTyped, FiledWell, EmptyMap
<1>7. ListsTyped
  BY <1>4 DEF ListsTyped, Lists
<1> QED BY <1>1, <1>5, <1>6, <1>7 DEF TypeInv

(* Filing an item under its key keeps a map well filed.                      *)
LEMMA FiledStaysWell ==
  ASSUME NEW m, FiledWell(m), NEW item \in Item
  PROVE  FiledWell(Filed(m, item)) /\ DOMAIN Filed(m, item) = DOMAIN m \union {item.key}
<1>1. item.key \in Keys
  BY DEF Item
<1> QED BY <1>1 DEF FiledWell, Filed

LEMMA TypeFlatten ==
  ASSUME TypeInv, NEW s \in Sides, Flatten(s)
  PROVE  TypeInv'
<1> DEFINE pid == Head(stack[s])
           new == [key |-> pid, detail |-> cmdline[s][pid]]
           rest == trees[s].children[pid] \o Tail(stack[s])
<1>1. stack[s] \in Seq(Keys) /\ stack[s] # <<>> /\ items[s] \in Seq(Item)
  BY DEF Flatten, TypeInv, WorkTyped
<1>2. pid \in Keys /\ Tail(stack[s]) \in Seq(Keys)
  BY ONLY <1>1, HeadTailProperties
<1>3. HasTree(s)
  BY <1>1 DEF TypeInv, WorkTyped
<1>4. trees[s] \in TreeType /\ cmdline[s] \in [Keys -> Details]
  BY <1>3, CompareAssumption DEF TypeInv, InputTyped, HasTree
<1>5. new \in Item
  BY <1>2, <1>4 DEF Item
<1>6. rest \in Seq(Keys)
  <2>1. trees[s].children[pid] \in Seq(Keys)
    BY <1>2, <1>4 DEF TreeType
  <2> HIDE DEF pid
  <2> QED BY <1>2, <2>1
<1>7. items' = [items EXCEPT ![s] = Append(@, new)] /\ stack' = [stack EXCEPT ![s] = rest]
      /\ UNCHANGED <<kind, psTreeCmd, trees, cmdline, comparePc, index, map, todo, result>>
  BY DEF Flatten, compared
<1> HIDE DEF new, rest, pid
<1>8. Append(items[s], new) \in Seq(Item) /\ Len(Append(items[s], new)) = Len(items[s]) + 1
  BY <1>1, <1>5
<1>9. WorkTyped'
  <2>1. items' \in [Sides -> Seq(Item)] /\ stack' \in [Sides -> Seq(Keys)]
    BY <1>6, <1>7, <1>8 DEF TypeInv, WorkTyped
  <2>2. \A x \in Sides : index'[x] <= Len(items'[x])
    <3> SUFFICES ASSUME NEW x \in Sides PROVE index'[x] <= Len(items'[x])
      OBVIOUS
    <3>1. index[x] \in Nat /\ Len(items[x]) \in Nat /\ index[x] <= Len(items[x])
      BY DEF TypeInv, WorkTyped
    <3>2. CASE x = s
      <4>1. items'[x] = Append(items[s], new)
        BY <1>7, <3>2 DEF TypeInv, WorkTyped
      <4> QED BY <1>7, <1>8, <3>1, <3>2, <4>1
    <3>3. CASE x # s
      <4>1. items'[x] = items[x]
        BY <1>7, <3>3 DEF TypeInv, WorkTyped
      <4> QED BY <1>7, <3>1, <4>1
    <3> QED BY <3>2, <3>3
  <2>3. \A x \in Sides : ~HasTree(x)' => stack'[x] = <<>>
    BY <1>3, <1>7 DEF TypeInv, WorkTyped, HasTree
  <2> QED BY <1>7, <2>1, <2>2, <2>3 DEF TypeInv, WorkTyped
<1> QED BY <1>7, <1>9 DEF TypeInv, InputTyped, MapsTyped, ListsTyped

LEMMA TypeFileItem ==
  ASSUME TypeInv, NEW s \in Sides, FileItem(s)
  PROVE  TypeInv'
<1> DEFINE item == items[s][index[s] + 1]
<1>1. /\ index[s] < Len(items[s])
      /\ index' = [index EXCEPT ![s] = @ + 1]
      /\ map' = [map EXCEPT ![s] = Filed(@, item)]
      /\ UNCHANGED <<kind, psTreeCmd, trees, cmdline, items, stack, comparePc, todo, result>>
  BY DEF FileItem, compared
<1>2. item \in Item /\ index[s] \in Nat
  <2>1. items[s] \in Seq(Item) /\ index[s] \in Nat
    BY DEF TypeInv, WorkTyped
  <2> QED BY <1>1, <2>1
<1> HIDE DEF item
<1>3. WorkTyped'
  <2>1. \A x \in Sides : index[x] \in Nat /\ Len(items[x]) \in Nat /\ index[x] <= Len(items[x])
    BY DEF TypeInv, WorkTyped
  <2>2. index \in [Sides -> Nat]
    BY DEF TypeInv, WorkTyped
  <2>3. index' \in [Sides -> Nat] /\ \A x \in Sides : index'[x] <= Len(items[x])
    BY <1>1, <1>2, <2>1, <2>2
  <2> QED BY <1>1, <2>3 DEF TypeInv, WorkTyped, HasTree
<1>4. MapsTyped'
  <2>1. FiledWell(Filed(map[s], item)) /\ DOMAIN map[s] \subseteq DOMAIN Filed(map[s], item)
    <3>1. FiledWell(map[s])
      BY DEF TypeInv, MapsTyped
    <3> PICK m : m = map[s]
      OBVIOUS
    <3>2. FiledWell(Filed(m, item)) /\ DOMAIN Filed(m, item) = DOMAIN m \union {item.key}
      BY <1>2, <3>1, FiledStaysWell
    <3> QED BY <3>2
  <2>2. \A x \in Sides : map'[x] = IF x = s THEN Filed(map[s], item) ELSE map[x]
    BY <1>1 DEF TypeInv, MapsTyped
  <2>3. \A x \in Sides : FiledWell(map'[x])
    BY <2>1, <2>2 DEF TypeInv, MapsTyped
  <2>4. \A x \in Sides : todo'[x] \subseteq DOMAIN map'[x]
    BY <1>1, <2>1, <2>2 DEF TypeInv, MapsTyped
  <2> QED BY <1>1, <2>3, <2>4 DEF TypeInv, MapsTyped
<1> QED BY <1>1, <1>3, <1>4 DEF TypeInv, InputTyped, ListsTyped

(* What a round of a range does to the lists.                                *)
LEMMA FindLists ==
  ASSUME TypeInv, NEW s \in Sides, NEW k \in todo[s],
         IF k \notin DOMAIN map[Other[s]] THEN Report(OnlyIn[s], map[s][k])
         ELSE IF s # FirstSide THEN UNCHANGED result
         ELSE Report(IF Changed(map["A"][k], map["B"][k]) THEN "modified" ELSE "unchanged",
                     map["B"][k])
  PROVE  \/ UNCHANGED result
         \/ \E l \in Lists, x \in Sides :
              /\ k \in DOMAIN map[x] /\ Report(l, map[x][k]) /\ map[x][k] \in Item
              /\ l = "modified" => kind \notin {"files", "sockets"}
<1> USE DEF TypeInv
<1>1. k \in DOMAIN map[s] /\ \A x \in Sides : \A j \in DOMAIN map[x] : map[x][j] \in Item
  BY DEF MapsTyped, FiledWell
<1>2. CASE k \notin DOMAIN map[Other[s]]
  BY <1>1, <1>2 DEF OnlyIn, Lists, Sides
<1>3. CASE k \in DOMAIN map[Other[s]] /\ s = FirstSide
  <2>1. k \in DOMAIN map["B"]
    BY <1>1, <1>3 DEF Other, Sides
  <2>2. Changed(map["A"][k], map["B"][k]) => kind \notin {"files", "sockets"}
    BY DEF Changed
  <2>3. CASE Changed(map["A"][k], map["B"][k])
    <3>1. Report("modified", map["B"][k])
      BY <1>3, <2>3
    <3> QED BY <1>1, <2>1, <2>2, <2>3, <3>1 DEF Sides, Lists
  <2>4. CASE ~Changed(map["A"][k], map["B"][k])
    <3>1. Report("unchanged", map["B"][k])
      BY <1>3, <2>4
    <3> QED BY <1>1, <2>1, <3>1 DEF Sides, Lists
  <2> QED BY <2>3, <2>4
<1>4. CASE k \in DOMAIN map[Other[s]] /\ s # FirstSide
  BY <1>4
<1> QED BY <1>2, <1>3, <1>4

LEMMA TypeFind ==
  ASSUME TypeInv, NEW s \in Sides, Find(s)
  PROVE  TypeInv'
<1>1. PICK k \in todo[s] :
        /\ todo' = [todo EXCEPT ![s] = @ \ {k}]
        /\ IF k \notin DOMAIN map[Other[s]] THEN Report(OnlyIn[s], map[s][k])
           ELSE IF s # FirstSide THEN UNCHANGED result
           ELSE Report(IF Changed(map["A"][k], map["B"][k]) THEN "modified" ELSE "unchanged",
                       map["B"][k])
  BY DEF Find
<1>2. UNCHANGED <<kind, psTreeCmd, trees, cmdline, items, stack, comparePc, index, map>>
  BY DEF Find, compared
<1>3. ListsTyped'
  <2>1. CASE UNCHANGED result
    BY <1>2, <2>1 DEF TypeInv, ListsTyped
  <2>2. ASSUME NEW l \in Lists, NEW item \in Item, Report(l, item),
               l = "modified" => kind \notin {"files", "sockets"}
        PROVE  ListsTyped'
    <3>1. result[l] \in Seq(Item) /\ result \in [Lists -> Seq(Item)]
      BY DEF TypeInv, ListsTyped
    <3>2. Append(result[l], item) \in Seq(Item)
      BY <3>1
    <3>3. result' = [result EXCEPT ![l] = Append(result[l], item)]
      BY <2>2 DEF Report
    <3>4. result' \in [Lists -> Seq(Item)]
      BY <3>1, <3>2, <3>3
    <3>5. kind \in {"files", "sockets"} => result'["modified"] = result["modified"]
      BY <2>2, <3>1, <3>3 DEF Lists
    <3> QED BY <1>2, <3>4, <3>5 DEF TypeInv, ListsTyped
  <2> QED BY <1>1, <2>1, <2>2, FindLists
<1>4. MapsTyped'
  BY <1>1, <1>2 DEF TypeInv, MapsTyped
<1> QED BY <1>2, <1>3, <1>4 DEF TypeInv, InputTyped, WorkTyped, HasTree

LEMMA TypeStep == TypeInv /\ [CompareNext]_compareVars => TypeInv'
<1> SUFFICES ASSUME TypeInv, [CompareNext]_compareVars PROVE TypeInv'
  OBVIOUS
<1>1. CASE RefuseNil
  BY <1>1 DEF RefuseNil, compared, TypeInv, InputTyped, WorkTyped, HasTree, MapsTyped, ListsTyped
<1>2. CASE Collected
  <2>1. todo' = [s \in Sides |-> DOMAIN map[s]] /\ comparePc' = "find"
        /\ UNCHANGED <<kind, psTreeCmd, trees, cmdline, items, stack, index, map, result>>
    BY <1>2 DEF Collected, compared
  <2>2. MapsTyped'
    BY <2>1 DEF TypeInv, MapsTyped
  <2> QED BY <2>1, <2>2 DEF TypeInv, InputTyped, WorkTyped, HasTree, ListsTyped
<1>3. CASE Return
  BY <1>3 DEF Return, compared, TypeInv, InputTyped, WorkTyped, HasTree, MapsTyped, ListsTyped
<1>4. CASE UNCHANGED compareVars
  BY <1>4 DEF compareVars, compared, TypeInv, InputTyped, WorkTyped, HasTree, MapsTyped, ListsTyped
<1> QED BY <1>1, <1>2, <1>3, <1>4, TypeFlatten, TypeFileItem, TypeFind DEF CompareNext

(* For any trees and any number of items: the maps file every item under its   *)
(* key, no index leaves its list, and neither files nor sockets are ever       *)
(* reported as modified.                                                     *)
THEOREM CompareTyped == CompareSpec => []CompareTypeOK
<1> QED BY TypeInit, TypeStep, TypesImply, PTL DEF CompareSpec

-----------------------------------------------------------------------------
(***************************************************************************)
(* Exactness                                                               *)
(***************************************************************************)

(* The map has the items so far, of two with one key one of them.            *)
Filing(s) ==
  /\ DOMAIN map[s] = {items[s][i].key : i \in 1..index[s]}
  /\ \A k \in DOMAIN map[s] : \E i \in 1..index[s] : map[s][k] = items[s][i]
  /\ comparePc \in {"find", "done"} => index[s] = Len(items[s])

(* The list has the items that the map files under the keys K, once each.     *)
Has(list, m, K) ==
  /\ Range(list) = {m[k] : k \in K}
  /\ IsFiniteSet(Range(list)) /\ Len(list) = Cardinality(Range(list))

(* The keys that the range over the map of s has come to.                    *)
Seen(s) == DOMAIN map[s] \ todo[s]
Alone(s) == {k \in Seen(s) : k \notin DOMAIN map[Other[s]]}
Shared == {k \in Seen(FirstSide) : k \in DOMAIN map[Other[FirstSide]]}
Differing == {k \in Shared : Changed(map["A"][k], map["B"][k])}

Finding ==
  /\ Has(result["added"], map["B"], Alone("B"))
  /\ Has(result["removed"], map["A"], Alone("A"))
  /\ Has(result["modified"], map["B"], Differing)
  /\ Has(result["unchanged"], map["B"], Shared \ Differing)

(* Before the ranges nothing is reported.                                    *)
Collecting ==
  comparePc \in {"collect", "refused"} => \A l \in Lists : result[l] = <<>>

ExactInv ==
  /\ \A s \in Sides : Filing(s)
  /\ Collecting
  /\ comparePc \in {"find", "done"} => Finding
  /\ comparePc = "done" => \A s \in Sides : todo[s] = {}

LEMMA ExactInit == CompareInit => ExactInv
<1> SUFFICES ASSUME CompareInit PROVE ExactInv
  OBVIOUS
<1>1. /\ comparePc = "collect" /\ index = [s \in Sides |-> 0]
      /\ map = [s \in Sides |-> EmptyMap] /\ result = [l \in Lists |-> <<>>]
  BY DEF CompareInit, CompareStart
<1>2. \A s \in Sides : index[s] = 0 /\ DOMAIN map[s] = {} /\ 1..0 = {}
  BY <1>1 DEF EmptyMap
<1> QED BY <1>1, <1>2 DEF ExactInv, Filing, Collecting

LEMMA HasNone == \A m : Has(<<>>, m, {})
<1>1. Range(<<>>) = {} /\ Len(<<>>) = 0
  BY DEF Range
<1> QED BY <1>1, FS_EmptySet DEF Has

(* One more item, filed under a key that the list does not have.             *)
LEMMA HasMore ==
  ASSUME NEW list \in Seq(Item), NEW m, FiledWell(m),
         NEW K \in SUBSET DOMAIN m, NEW k \in DOMAIN m \ K, Has(list, m, K)
  PROVE  Has(Append(list, m[k]), m, K \union {k})
<1> DEFINE more == Append(list, m[k])
           S == Range(list)
<1>1. m[k] \in Item /\ \A j \in K : m[j] # m[k]
  BY DEF FiledWell
<1>2. Len(more) = Len(list) + 1 /\ Len(list) \in Nat
  BY <1>1
<1>3. Range(more) = S \union {m[k]}
  BY <1>1, RangeAppended
<1> HIDE DEF more
<1>4. S = {m[j] : j \in K} /\ IsFiniteSet(S) /\ Len(list) = Cardinality(S)
  BY DEF Has
<1> HIDE DEF S
<1>5. m[k] \notin S
  BY <1>1, <1>4
<1>6. IsFiniteSet(S \union {m[k]}) /\ Cardinality(S \union {m[k]}) = Cardinality(S) + 1
  BY <1>4, <1>5, FS_AddElement
<1>7. S \union {m[k]} = {m[j] : j \in K \union {k}}
  BY <1>4
<1>8. Has(more, m, K \union {k})
  BY <1>2, <1>3, <1>4, <1>6, <1>7 DEF Has
<1> QED BY <1>8 DEF more

LEMMA ExactFlatten ==
  ASSUME TypeInv, ExactInv, NEW s \in Sides, Flatten(s)
  PROVE  ExactInv'
<1>1. PICK new : items' = [items EXCEPT ![s] = Append(@, new)]
  BY DEF Flatten
<1>2. comparePc = "collect" /\ UNCHANGED <<comparePc, index, map, todo, result>>
  BY DEF Flatten
<1>3. ASSUME NEW x \in Sides PROVE Filing(x)'
  <2>1. index[x] \in Nat /\ items[x] \in Seq(Item) /\ index[x] <= Len(items[x])
    BY DEF TypeInv, WorkTyped
  <2>2. \A i \in 1..index[x] : items'[x][i] = items[x][i]
    <3>1. CASE x = s
      <4>1. items'[x] = Append(items[x], new)
        BY <1>1, <3>1 DEF TypeInv, WorkTyped
      <4>2. \A i \in 1..Len(items[x]) : Append(items[x], new)[i] = items[x][i]
        BY <2>1
      <4> QED BY <2>1, <4>1, <4>2
    <3>2. CASE x # s
      BY <1>1, <3>2 DEF TypeInv, WorkTyped
    <3> QED BY <3>1, <3>2
  <2>3. /\ DOMAIN map[x] = {items[x][i].key : i \in 1..index[x]}
        /\ \A k \in DOMAIN map[x] : \E i \in 1..index[x] : map[x][k] = items[x][i]
    BY DEF ExactInv, Filing
  <2>4. DOMAIN map[x] = {items'[x][i].key : i \in 1..index[x]}
    BY <2>2, <2>3
  <2>5. \A k \in DOMAIN map[x] : \E i \in 1..index[x] : map[x][k] = items'[x][i]
    BY <2>2, <2>3
  <2> QED BY <1>2, <2>4, <2>5 DEF Filing
<1> QED BY <1>2, <1>3 DEF ExactInv, Collecting

LEMMA ExactFileItem ==
  ASSUME TypeInv, ExactInv, NEW s \in Sides, FileItem(s)
  PROVE  ExactInv'
<1> DEFINE item == items[s][index[s] + 1]
<1>1. /\ comparePc = "collect"
      /\ index' = [index EXCEPT ![s] = @ + 1]
      /\ map' = [map EXCEPT ![s] = Filed(@, item)]
      /\ UNCHANGED <<items, comparePc, todo, result>>
  BY DEF FileItem
<1>2. index \in [Sides -> Nat] /\ DOMAIN map = Sides
  BY DEF TypeInv, WorkTyped, MapsTyped
<1>3. ASSUME NEW x \in Sides PROVE Filing(x)'
  <2>1. /\ DOMAIN map[x] = {items[x][i].key : i \in 1..index[x]}
        /\ \A k \in DOMAIN map[x] : \E i \in 1..index[x] : map[x][k] = items[x][i]
    BY DEF ExactInv, Filing
  <2>2. CASE x = s
    <3>1. index'[s] = index[s] + 1 /\ map'[s] = Filed(map[s], item)
      BY <1>1, <1>2
    <3>2. 1..(index[s] + 1) = 1..index[s] \union {index[s] + 1}
      BY <1>2
    <3>3. DOMAIN Filed(map[s], item) = DOMAIN map[s] \union {item.key}
      BY DEF Filed
    <3>4. DOMAIN Filed(map[s], item) = {items[s][i].key : i \in 1..(index[s] + 1)}
      BY <2>1, <2>2, <3>2, <3>3
    <3>5. ASSUME NEW k \in DOMAIN Filed(map[s], item)
          PROVE  \E i \in 1..(index[s] + 1) : Filed(map[s], item)[k] = items[s][i]
      <4>1. CASE k = item.key
        <5>1. Filed(map[s], item)[k] = item
          BY <3>5, <4>1 DEF Filed
        <5> QED BY <3>2, <5>1
      <4>2. CASE k # item.key
        <5>1. k \in DOMAIN map[s] /\ Filed(map[s], item)[k] = map[s][k]
          BY <3>3, <3>5, <4>2 DEF Filed
        <5> QED BY <2>1, <2>2, <3>2, <5>1
      <4> QED BY <4>1, <4>2
    <3> QED BY <1>1, <2>2, <3>1, <3>4, <3>5 DEF Filing
  <2>3. CASE x # s
    <3>1. index'[x] = index[x] /\ map'[x] = map[x]
      BY <1>1, <1>2, <2>3
    <3> QED BY <1>1, <2>1, <3>1 DEF Filing
  <2> QED BY <2>2, <2>3
<1> QED BY <1>1, <1>3 DEF ExactInv, Collecting

LEMMA ExactCollected ==
  ASSUME TypeInv, ExactInv, Collected
  PROVE  ExactInv'
<1>1. /\ comparePc = "collect" /\ comparePc' = "find"
      /\ \A s \in Sides : index[s] = Len(items[s])
      /\ todo' = [s \in Sides |-> DOMAIN map[s]]
      /\ UNCHANGED <<kind, psTreeCmd, items, index, map, result>>
  BY DEF Collected, compared
<1>2. \A s \in Sides : Filing(s)'
  BY <1>1 DEF ExactInv, Filing
<1>3. \A s \in Sides : Seen(s)' = {}
  BY <1>1 DEF Seen
<1>4. FirstSide' \in Sides
  BY DEF FirstSide, Sides
<1>5. Alone("A")' = {} /\ Alone("B")' = {} /\ Shared' = {}
  BY <1>3, <1>4 DEF Alone, Shared, Sides
<1>6. Differing' = {}
  BY <1>5 DEF Differing
<1>7. \A l \in Lists : result'[l] = <<>>
  BY <1>1 DEF ExactInv, Collecting
<1>8. Finding'
  BY <1>5, <1>6, <1>7, HasNone DEF Finding, Lists
<1> QED BY <1>1, <1>2, <1>8 DEF ExactInv, Collecting

(* One key that the range over the map of s comes to.                        *)
LEMMA SeenMore ==
  ASSUME TypeInv, NEW s \in Sides, NEW k \in todo[s],
         todo' = [todo EXCEPT ![s] = @ \ {k}], UNCHANGED <<kind, map>>
  PROVE  /\ k \in DOMAIN map[s] /\ k \notin Seen(s)
         /\ Seen(s)' = Seen(s) \union {k}
         /\ \A x \in Sides : x # s => Seen(x)' = Seen(x)
         /\ FirstSide' = FirstSide
<1>1. DOMAIN todo = Sides /\ todo[s] \subseteq DOMAIN map[s]
  BY DEF TypeInv, MapsTyped
<1>2. todo'[s] = todo[s] \ {k} /\ \A x \in Sides : x # s => todo'[x] = todo[x]
  BY <1>1
<1> QED BY <1>1, <1>2 DEF Seen, FirstSide

LEMMA FindAlone ==
  ASSUME TypeInv, Finding, NEW s \in Sides, NEW k \in todo[s],
         todo' = [todo EXCEPT ![s] = @ \ {k}], UNCHANGED <<kind, psTreeCmd, map>>,
         k \notin DOMAIN map[Other[s]], Report(OnlyIn[s], map[s][k])
  PROVE  Finding'
<1>1. /\ k \in DOMAIN map[s] /\ k \notin Seen(s)
      /\ Seen(s)' = Seen(s) \union {k}
      /\ \A x \in Sides : x # s => Seen(x)' = Seen(x)
      /\ FirstSide' = FirstSide
  BY SeenMore
<1>2. Alone(s)' = Alone(s) \union {k} /\ \A x \in Sides : x # s => Alone(x)' = Alone(x)
  BY <1>1 DEF Alone
<1>3. Shared' = Shared
  BY <1>1 DEF Shared, FirstSide, Sides
<1>4. Differing' = Differing
  <2>1. \A j : Changed(map["A"][j], map["B"][j])' <=> Changed(map["A"][j], map["B"][j])
    BY DEF Changed
  <2> QED BY <1>3, <2>1 DEF Differing
<1>5. FiledWell(map[s]) /\ Alone(s) \subseteq DOMAIN map[s] /\ k \notin Alone(s)
  BY <1>1 DEF TypeInv, MapsTyped, Alone, Seen
<1>6. result \in [Lists -> Seq(Item)]
  BY DEF TypeInv, ListsTyped
<1>7. ASSUME NEW l, l = OnlyIn[s], l \in Lists, Has(result[l], map[s], Alone(s))
      PROVE  Has(result'[l], map'[s], Alone(s)')
  <2> PICK m, K, list : m = map[s] /\ K = Alone(s) /\ list = result[l]
    OBVIOUS
  <2>1. Has(Append(list, m[k]), m, K \union {k})
    BY <1>1, <1>5, <1>6, <1>7, HasMore
  <2>2. result'[l] = Append(list, m[k])
    BY <1>6, <1>7 DEF Report
  <2> QED BY <1>2, <2>1, <2>2
<1>8. \A l \in Lists : l # OnlyIn[s] => result'[l] = result[l]
  BY <1>6 DEF Report
<1>9. CASE s = "A"
  <2>1. OnlyIn[s] = "removed"
    BY <1>9 DEF OnlyIn
  <2>2. Has(result'["removed"], map'["A"], Alone("A")')
    BY <1>7, <1>9, <2>1 DEF Finding, Lists
  <2>3. Has(result'["added"], map'["B"], Alone("B")')
    BY <1>2, <1>8, <1>9, <2>1 DEF Finding, Lists, Sides
  <2> QED BY <1>3, <1>4, <1>8, <2>1, <2>2, <2>3 DEF Finding, Lists
<1>10. CASE s = "B"
  <2>1. OnlyIn[s] = "added"
    BY <1>10 DEF OnlyIn
  <2>2. Has(result'["added"], map'["B"], Alone("B")')
    BY <1>7, <1>10, <2>1 DEF Finding, Lists
  <2>3. Has(result'["removed"], map'["A"], Alone("A")')
    BY <1>2, <1>8, <1>10, <2>1 DEF Finding, Lists, Sides
  <2> QED BY <1>3, <1>4, <1>8, <2>1, <2>2, <2>3 DEF Finding, Lists
<1> QED BY <1>9, <1>10 DEF Sides

LEMMA FindShared ==
  ASSUME TypeInv, Finding, NEW s \in Sides, NEW k \in todo[s],
         todo' = [todo EXCEPT ![s] = @ \ {k}], UNCHANGED <<kind, psTreeCmd, map>>,
         k \in DOMAIN map[Other[s]], s = FirstSide,
         Report(IF Changed(map["A"][k], map["B"][k]) THEN "modified" ELSE "unchanged",
                map["B"][k])
  PROVE  Finding'
<1>1. /\ k \in DOMAIN map[s] /\ k \notin Seen(s)
      /\ Seen(s)' = Seen(s) \union {k}
      /\ \A x \in Sides : x # s => Seen(x)' = Seen(x)
      /\ FirstSide' = FirstSide
  BY SeenMore
<1>2. \A x \in Sides : Alone(x)' = Alone(x)
  BY <1>1 DEF Alone
<1>3. Shared' = Shared \union {k} /\ k \notin Shared
  BY <1>1 DEF Shared
<1>4. \A j : Changed(map["A"][j], map["B"][j])' <=> Changed(map["A"][j], map["B"][j])
  BY DEF Changed
<1>5. FiledWell(map["B"]) /\ k \in DOMAIN map["B"] /\ Shared \subseteq DOMAIN map["B"]
  BY <1>1 DEF TypeInv, MapsTyped, Shared, Seen, Other, Sides, FirstSide
<1>6. result \in [Lists -> Seq(Item)]
  BY DEF TypeInv, ListsTyped
<1>7. ASSUME NEW l \in Lists, NEW K, K \subseteq Shared, Has(result[l], map["B"], K),
             Report(l, map["B"][k])
      PROVE  Has(result'[l], map'["B"], K \union {k})
  <2> PICK m, list : m = map["B"] /\ list = result[l]
    OBVIOUS
  <2>1. Has(Append(list, m[k]), m, K \union {k})
    BY <1>3, <1>5, <1>6, <1>7, HasMore
  <2>2. result'[l] = Append(list, m[k])
    BY <1>6, <1>7 DEF Report
  <2> QED BY <2>1, <2>2
<1>8. Differing \subseteq Shared /\ Shared \ Differing \subseteq Shared
  BY DEF Differing
<1>9. CASE Changed(map["A"][k], map["B"][k])
  <2>1. Report("modified", map["B"][k])
    BY <1>9
  <2>2. Differing' = Differing \union {k}
    BY <1>3, <1>4, <1>9 DEF Differing
  <2>3. Shared' \ Differing' = Shared \ Differing
    BY <1>3, <2>2
  <2>4. Has(result'["modified"], map'["B"], Differing')
    BY <1>7, <1>8, <2>1, <2>2 DEF Finding, Lists
  <2>5. \A l \in Lists : l # "modified" => result'[l] = result[l]
    BY <1>6, <2>1 DEF Report
  <2> QED BY <1>2, <2>3, <2>4, <2>5 DEF Finding, Lists, Sides
<1>10. CASE ~Changed(map["A"][k], map["B"][k])
  <2>1. Report("unchanged", map["B"][k])
    BY <1>10
  <2>2. Differing' = Differing
    BY <1>3, <1>4, <1>10 DEF Differing
  <2>3. Shared' \ Differing' = (Shared \ Differing) \union {k}
    BY <1>3, <1>8, <2>2
  <2>4. Has(result'["unchanged"], map'["B"], Shared' \ Differing')
    BY <1>7, <1>8, <2>1, <2>3 DEF Finding, Lists
  <2>5. \A l \in Lists : l # "unchanged" => result'[l] = result[l]
    BY <1>6, <2>1 DEF Report
  <2> QED BY <1>2, <2>2, <2>4, <2>5 DEF Finding, Lists, Sides
<1> QED BY <1>9, <1>10

(* The second range leaves alone what the first found in both maps.           *)
LEMMA FindAgain ==
  ASSUME TypeInv, Finding, NEW s \in Sides, NEW k \in todo[s],
         todo' = [todo EXCEPT ![s] = @ \ {k}], UNCHANGED <<kind, psTreeCmd, map, result>>,
         k \in DOMAIN map[Other[s]], s # FirstSide
  PROVE  Finding'
<1>1. /\ Seen(s)' = Seen(s) \union {k}
      /\ \A x \in Sides : x # s => Seen(x)' = Seen(x)
      /\ FirstSide' = FirstSide /\ FirstSide \in Sides
  BY SeenMore DEF FirstSide, Sides
<1>2. \A x \in Sides : Alone(x)' = Alone(x)
  BY <1>1 DEF Alone
<1>3. Shared' = Shared
  BY <1>1 DEF Shared
<1>4. \A j : Changed(map["A"][j], map["B"][j])' <=> Changed(map["A"][j], map["B"][j])
  BY DEF Changed
<1>5. Differing' = Differing
  BY <1>3, <1>4 DEF Differing
<1> QED BY <1>2, <1>3, <1>5 DEF Finding, Sides

LEMMA ExactFind ==
  ASSUME TypeInv, ExactInv, NEW s \in Sides, Find(s)
  PROVE  ExactInv'
<1>1. PICK k \in todo[s] :
        /\ todo' = [todo EXCEPT ![s] = @ \ {k}]
        /\ IF k \notin DOMAIN map[Other[s]] THEN Report(OnlyIn[s], map[s][k])
           ELSE IF s # FirstSide THEN UNCHANGED result
           ELSE Report(IF Changed(map["A"][k], map["B"][k]) THEN "modified" ELSE "unchanged",
                       map["B"][k])
  BY DEF Find
<1>2. comparePc = "find" /\ UNCHANGED <<kind, psTreeCmd, items, comparePc, index, map>>
  BY DEF Find, compared
<1>3. Finding
  BY <1>2 DEF ExactInv
<1>4. Finding'
  <2>1. CASE k \notin DOMAIN map[Other[s]]
    BY <1>1, <1>2, <1>3, <2>1, FindAlone
  <2>2. CASE k \in DOMAIN map[Other[s]] /\ s = FirstSide
    <3>1. Report(IF Changed(map["A"][k], map["B"][k]) THEN "modified" ELSE "unchanged",
                 map["B"][k])
      BY <1>1, <2>2
    <3> QED BY <1>1, <1>2, <1>3, <2>2, <3>1, FindShared
  <2>3. CASE k \in DOMAIN map[Other[s]] /\ s # FirstSide
    BY <1>1, <1>2, <1>3, <2>3, FindAgain
  <2> QED BY <2>1, <2>2, <2>3
<1> QED BY <1>2, <1>4 DEF ExactInv, Filing, Collecting

LEMMA ExactStep == TypeInv /\ ExactInv /\ [CompareNext]_compareVars => ExactInv'
<1> SUFFICES ASSUME TypeInv, ExactInv, [CompareNext]_compareVars PROVE ExactInv'
  OBVIOUS
<1>1. CASE RefuseNil
  <2>1. /\ comparePc = "collect" /\ comparePc' = "refused"
        /\ UNCHANGED <<items, index, map, todo, result>>
    BY <1>1 DEF RefuseNil
  <2> QED BY <2>1 DEF ExactInv, Filing, Collecting
<1>2. CASE Return
  <2>1. /\ comparePc = "find" /\ comparePc' = "done" /\ \A s \in Sides : todo[s] = {}
        /\ UNCHANGED <<kind, psTreeCmd, items, index, map, todo, result>>
    BY <1>2 DEF Return, compared
  <2>2. \A s \in Sides : Filing(s)'
    BY <2>1 DEF ExactInv, Filing
  <2>3. Finding'
    BY <2>1 DEF ExactInv, Finding, Alone, Shared, Differing, Seen, FirstSide, Changed
  <2> QED BY <2>1, <2>2, <2>3 DEF ExactInv, Collecting
<1>3. CASE UNCHANGED compareVars
  <2>1. UNCHANGED <<kind, psTreeCmd, items, comparePc, index, map, todo, result>>
    BY <1>3 DEF compareVars, compared
  <2>2. Finding' <=> Finding
    BY <2>1 DEF Finding, Alone, Shared, Differing, Seen, FirstSide, Changed
  <2> QED BY <2>1, <2>2 DEF ExactInv, Filing, Collecting
<1> QED BY <1>1, <1>2, <1>3, ExactFlatten, ExactFileItem, ExactCollected, ExactFind DEF CompareNext

-----------------------------------------------------------------------------
(***************************************************************************)
(* What the lists have in the end                                          *)
(***************************************************************************)

(* Where no two items share a key, the map is the list.                      *)
LEMMA MapIsList ==
  ASSUME TypeInv, ExactInv, comparePc = "done", NEW s \in Sides, Distinct(items[s])
  PROVE  /\ KeysOf(s) = DOMAIN map[s]
         /\ \A k \in DOMAIN map[s] :
              map[s][k] \in Range(items[s]) /\ map[s][k].key = k
         /\ \A x \in Range(items[s]) : x.key \in DOMAIN map[s] /\ x = map[s][x.key]
<1>1. DOMAIN items[s] = 1..Len(items[s])
  <2>1. items[s] \in Seq(Item)
    BY DEF TypeInv, WorkTyped
  <2> QED BY <2>1
<1>2. /\ index[s] = Len(items[s])
      /\ DOMAIN map[s] = {items[s][i].key : i \in 1..index[s]}
      /\ \A k \in DOMAIN map[s] : \E i \in 1..index[s] : map[s][k] = items[s][i]
  BY DEF ExactInv, Filing
<1>3. \A k \in DOMAIN map[s] : map[s][k].key = k
  BY DEF TypeInv, MapsTyped, FiledWell
<1>4. KeysOf(s) = DOMAIN map[s]
  BY <1>1, <1>2 DEF KeysOf
<1>5. \A k \in DOMAIN map[s] : map[s][k] \in Range(items[s])
  BY <1>1, <1>2 DEF Range
<1>6. ASSUME NEW x \in Range(items[s])
      PROVE  x.key \in DOMAIN map[s] /\ x = map[s][x.key]
  <2>1. PICK i \in DOMAIN items[s] : x = items[s][i]
    BY DEF Range
  <2>2. x.key \in DOMAIN map[s]
    BY <1>1, <1>2, <2>1
  <2>3. PICK j \in DOMAIN items[s] : map[s][x.key] = items[s][j]
    BY <1>1, <1>2, <2>2
  <2>4. items[s][i].key = items[s][j].key
    BY <1>3, <2>1, <2>2, <2>3
  <2>5. i = j
    BY <2>4 DEF Distinct
  <2> QED BY <2>1, <2>2, <2>3, <2>5
<1> QED BY <1>3, <1>4, <1>5, <1>6

LEMMA ListsExact ==
  ASSUME TypeInv, ExactInv, comparePc = "done", \A s \in Sides : Distinct(items[s])
  PROVE  LET new == {b \in Range(items["B"]) : b.key \notin KeysOf("A")}
             gone == {a \in Range(items["A"]) : a.key \notin KeysOf("B")}
             differs(b) == \E a \in Range(items["A"]) : a.key = b.key /\ a.detail # b.detail
             matters == kind = "tasks" \/ (kind = "processes" /\ psTreeCmd)
             modified == {b \in Range(items["B"]) : matters /\ differs(b)}
         IN /\ ReportedAs("added", new)
            /\ ReportedAs("removed", gone)
            /\ ReportedAs("modified", modified)
            /\ ReportedAs("unchanged", Range(items["B"]) \ (new \union modified))
            /\ IsFiniteSet(new) /\ IsFiniteSet(gone) /\ IsFiniteSet(modified)
<1> DEFINE RA == Range(items["A"])
           RB == Range(items["B"])
           a == map["A"]
           b == map["B"]
           new == {y \in RB : y.key \notin KeysOf("A")}
           gone == {x \in RA : x.key \notin KeysOf("B")}
           differs(y) == \E x \in RA : x.key = y.key /\ x.detail # y.detail
           matters == kind = "tasks" \/ (kind = "processes" /\ psTreeCmd)
           modified == {y \in RB : matters /\ differs(y)}
<1>1. "A" \in Sides /\ "B" \in Sides /\ Other["A"] = "B" /\ Other["B"] = "A"
  BY DEF Sides, Other
<1>2. /\ KeysOf("A") = DOMAIN a
      /\ \A k \in DOMAIN a : a[k] \in RA /\ a[k].key = k
      /\ \A x \in RA : x.key \in DOMAIN a /\ x = a[x.key]
  BY <1>1, MapIsList
<1>3. /\ KeysOf("B") = DOMAIN b
      /\ \A k \in DOMAIN b : b[k] \in RB /\ b[k].key = k
      /\ \A y \in RB : y.key \in DOMAIN b /\ y = b[y.key]
  BY <1>1, MapIsList
<1>4. Seen("A") = DOMAIN a /\ Seen("B") = DOMAIN b
  BY <1>1 DEF ExactInv, Seen
<1>5. /\ Alone("A") = {k \in DOMAIN a : k \notin DOMAIN b}
      /\ Alone("B") = {k \in DOMAIN b : k \notin DOMAIN a}
      /\ Shared = DOMAIN a \intersect DOMAIN b
  BY <1>1, <1>4 DEF Alone, Shared, FirstSide
<1>6. Differing = {k \in Shared : matters /\ a[k].detail # b[k].detail}
  BY DEF Differing, Changed
<1>7. /\ Has(result["added"], b, Alone("B"))
      /\ Has(result["removed"], a, Alone("A"))
      /\ Has(result["modified"], b, Differing)
      /\ Has(result["unchanged"], b, Shared \ Differing)
  BY DEF ExactInv, Finding
<1> HIDE DEF RA, RB, a, b, matters
<1>8. new = {b[k] : k \in Alone("B")}
  BY <1>2, <1>3, <1>5
<1>9. gone = {a[k] : k \in Alone("A")}
  BY <1>2, <1>3, <1>5
<1>10. modified = {b[k] : k \in Differing}
  <2>1. ASSUME NEW y \in modified PROVE y.key \in Differing /\ y = b[y.key]
    <3>1. PICK x \in RA : x.key = y.key /\ x.detail # y.detail
      OBVIOUS
    <3>2. y.key \in DOMAIN a /\ y.key \in DOMAIN b /\ x = a[y.key] /\ y = b[y.key]
      BY <1>2, <1>3, <3>1
    <3> QED BY <1>5, <1>6, <3>1, <3>2
  <2>2. ASSUME NEW k \in Differing PROVE b[k] \in modified
    <3>1. /\ k \in DOMAIN a /\ k \in DOMAIN b /\ matters /\ a[k].detail # b[k].detail
      BY <1>5, <1>6
    <3>2. a[k] \in RA /\ b[k] \in RB /\ a[k].key = b[k].key
      BY <1>2, <1>3, <3>1
    <3> QED BY <3>1, <3>2
  <2> QED BY <2>1, <2>2
<1>11. RB \ (new \union modified) = {b[k] : k \in Shared \ Differing}
  <2>1. ASSUME NEW y \in RB \ (new \union modified)
        PROVE  y.key \in Shared \ Differing /\ y = b[y.key]
    <3>1. y.key \in DOMAIN b /\ y = b[y.key] /\ y.key \in DOMAIN a
      BY <1>2, <1>3
    <3>2. y.key \notin Differing
      BY <1>10, <3>1
    <3> QED BY <1>5, <3>1, <3>2
  <2>2. ASSUME NEW k \in Shared \ Differing
        PROVE  b[k] \in RB \ (new \union modified)
    <3>1. k \in DOMAIN a /\ k \in DOMAIN b /\ b[k] \in RB /\ b[k].key = k
      BY <1>3, <1>5
    <3>2. b[k] \notin new
      BY <1>2, <3>1
    <3>3. b[k] \notin modified
      <4>1. \A j \in Differing : b[j].key = j
        BY <1>3, <1>5, <1>6
      <4> QED BY <1>10, <3>1, <4>1
    <3> QED BY <3>1, <3>2, <3>3
  <2> QED BY <2>1, <2>2
<1> HIDE DEF new, gone, modified
<1>12. /\ ReportedAs("added", new) /\ IsFiniteSet(new)
       /\ ReportedAs("removed", gone) /\ IsFiniteSet(gone)
       /\ ReportedAs("modified", modified) /\ IsFiniteSet(modified)
       /\ ReportedAs("unchanged", RB \ (new \union modified))
  BY <1>7, <1>8, <1>9, <1>10, <1>11 DEF Has, ReportedAs
<1> QED BY <1>12 DEF RA, RB, matters, new, gone, modified

(* The summary is empty if all its numbers are zero.                         *)
LEMMA SummaryEmpty ==
  (Summary = <<>>) <=> \A l \in Counted : ~(Len(result[l]) > 0)
<1> DEFINE counts == [l \in Counted |-> Len(result[l])]
<1>1. counts # <<>>
  <2>1. "added" \in DOMAIN counts
    BY DEF Counted
  <2>2. DOMAIN <<>> = {}
    OBVIOUS
  <2> QED BY <2>1, <2>2
<1>2. Summary = IF \E l \in Counted : Len(result[l]) > 0 THEN counts ELSE <<>>
  BY DEF Summary
<1> HIDE DEF counts
<1> QED BY <1>1, <1>2

LEMMA ExactImplies ==
  ASSUME TypeInv, ExactInv
  PROVE  DiffIsExact
<1> SUFFICES ASSUME comparePc = "done", \A s \in Sides : Distinct(items[s])
             PROVE  LET new == {b \in Range(items["B"]) : b.key \notin KeysOf("A")}
                        gone == {a \in Range(items["A"]) : a.key \notin KeysOf("B")}
                        differs(b) == \E a \in Range(items["A"]) :
                                        a.key = b.key /\ a.detail # b.detail
                        matters == kind = "tasks" \/ (kind = "processes" /\ psTreeCmd)
                        modified == {b \in Range(items["B"]) : matters /\ differs(b)}
                    IN /\ ReportedAs("added", new)
                       /\ ReportedAs("removed", gone)
                       /\ ReportedAs("modified", modified)
                       /\ ReportedAs("unchanged", Range(items["B"]) \ (new \union modified))
                       /\ kind # "tasks" =>
                            (Summary = <<>> <=> new \union gone \union modified = {})
  BY DEF DiffIsExact
<1> DEFINE new == {b \in Range(items["B"]) : b.key \notin KeysOf("A")}
           gone == {a \in Range(items["A"]) : a.key \notin KeysOf("B")}
           differs(b) == \E a \in Range(items["A"]) : a.key = b.key /\ a.detail # b.detail
           matters == kind = "tasks" \/ (kind = "processes" /\ psTreeCmd)
           modified == {b \in Range(items["B"]) : matters /\ differs(b)}
<1>1. /\ ReportedAs("added", new) /\ IsFiniteSet(new)
      /\ ReportedAs("removed", gone) /\ IsFiniteSet(gone)
      /\ ReportedAs("modified", modified) /\ IsFiniteSet(modified)
      /\ ReportedAs("unchanged", Range(items["B"]) \ (new \union modified))
  BY ListsExact
<1>2. ~(kind = "processes" \/ kind = "tasks") => modified = {}
  OBVIOUS
<1> HIDE DEF new, gone, modified
<1>3. /\ (Len(result["added"]) > 0) <=> new # {}
      /\ (Len(result["removed"]) > 0) <=> gone # {}
      /\ (Len(result["modified"]) > 0) <=> modified # {}
  <2>1. ASSUME NEW l, NEW is, ReportedAs(l, is), IsFiniteSet(is)
        PROVE  (Len(result[l]) > 0) <=> is # {}
    <3>1. Cardinality(is) \in Nat /\ (Cardinality(is) = 0 <=> is = {})
      BY <2>1, FS_EmptySet, FS_CardinalityType
    <3> QED BY <2>1, <3>1 DEF ReportedAs
  <2> QED BY <1>1, <2>1
<1>4. kind # "tasks" => (Summary = <<>> <=> new \union gone \union modified = {})
  <2>1. CASE kind = "processes"
    <3>1. Counted = {"added", "removed", "modified"}
      BY <2>1 DEF Counted
    <3>2. Summary = <<>> <=> new = {} /\ gone = {} /\ modified = {}
      BY <1>3, <3>1, SummaryEmpty
    <3> QED BY <3>2
  <2>2. CASE kind # "processes" /\ kind # "tasks"
    <3>1. Counted = {"added", "removed"} /\ modified = {}
      BY <1>2, <2>2 DEF Counted
    <3>2. Summary = <<>> <=> new = {} /\ gone = {}
      BY <1>3, <3>1, SummaryEmpty
    <3> QED BY <3>1, <3>2
  <2> QED BY <2>1, <2>2
<1> QED BY <1>1, <1>4 DEF new, gone, modified

(* For any trees, any number of items and any order of the ranges: where no   *)
(* two items of a checkpoint share a key, the lists of a diff are exact, and   *)
(* its summary is empty only if nothing came, went or changed.               *)
THEOREM DiffExact == CompareSpec => []DiffIsExact
<1>1. CompareInit => TypeInv /\ ExactInv
  BY TypeInit, ExactInit
<1>2. (TypeInv /\ ExactInv) /\ [CompareNext]_compareVars => (TypeInv /\ ExactInv)'
  BY TypeStep, ExactStep
<1>3. TypeInv /\ ExactInv => DiffIsExact
  BY ExactImplies
<1> QED BY <1>1, <1>2, <1>3, PTL DEF CompareSpec

-----------------------------------------------------------------------------
(***************************************************************************)
(* The annotated tree                                                      *)
(***************************************************************************)

(* What flatten has come to, and what it is yet to come to; nothing if there is *)
(* no tree.                                                                  *)
Known(s) == KeysOf(s) \union Range(stack[s])

(* The flattened list has the processes of the tree when nothing is pending.  *)
Covers(s) ==
  /\ trees[s].root \in Known(s)
  /\ \A pid \in KeysOf(s) : Range(trees[s].children[pid]) \subseteq Known(s)

Within(s) == \A ps \in Branches(trees[s]) : Known(s) \subseteq ps

TreeInv ==
  /\ \A s \in Sides : HasTree(s) => Covers(s) /\ Within(s)
  /\ \A s \in Sides : kind = "processes" /\ ~HasTree(s) => items[s] = <<>>
  /\ kind = "processes" /\ comparePc # "collect" => \A s \in Sides : stack[s] = <<>>

LEMMA TreeInit == CompareInit => TreeInv
<1> SUFFICES ASSUME CompareInit, kind = "processes" PROVE TreeInv
  BY DEF TreeInv, HasTree
<1>1. items = [s \in Sides |-> <<>>] /\ comparePc = "collect"
      /\ stack = [s \in Sides |-> IF HasTree(s) THEN <<trees[s].root>> ELSE <<>>]
  BY DEF CompareInit, CompareInput, CompareStart
<1>2. \A s \in Sides : HasTree(s) => KeysOf(s) = {} /\ Range(stack[s]) = {trees[s].root}
  BY <1>1 DEF KeysOf, Range
<1> QED BY <1>1, <1>2 DEF TreeInv, Covers, Within, Known, Branches

LEMMA TreeFlatten ==
  ASSUME TypeInv, TreeInv, NEW s \in Sides, Flatten(s)
  PROVE  TreeInv'
<1> DEFINE pid == Head(stack[s])
           new == [key |-> pid, detail |-> cmdline[s][pid]]
           list == items[s]
           children == trees[s].children[pid]
<1>1. stack[s] \in Seq(Keys) /\ stack[s] # <<>> /\ list \in Seq(Item)
  BY DEF Flatten, TypeInv, WorkTyped
<1>2. pid \in Keys /\ Tail(stack[s]) \in Seq(Keys)
  BY ONLY <1>1, HeadTailProperties
<1>3. HasTree(s)
  BY <1>1 DEF TypeInv, WorkTyped
<1>4. trees[s] \in TreeType /\ cmdline[s] \in [Keys -> Details]
  BY <1>3, CompareAssumption DEF TypeInv, InputTyped, HasTree
<1>5. new \in Item /\ new.key = pid
  BY <1>2, <1>4 DEF Item
<1>6. children \in Seq(Keys)
  BY <1>2, <1>4 DEF TreeType
<1>7. /\ items' = [items EXCEPT ![s] = Append(@, new)]
      /\ stack' = [stack EXCEPT ![s] = children \o Tail(@)]
      /\ comparePc = "collect" /\ UNCHANGED <<kind, trees, comparePc>>
  BY DEF Flatten, compared
<1>8. items'[s] = Append(list, new) /\ stack'[s] = children \o Tail(stack[s])
  BY <1>7 DEF TypeInv, WorkTyped
<1> HIDE DEF new, list, children, pid
<1>9. KeysOf(s)' = KeysOf(s) \union {pid}
  <2>1. KeysOf(s) = {x.key : x \in Range(list)}
    BY DEF KeysOf, Range, list
  <2>2. KeysOf(s)' = {x.key : x \in Range(Append(list, new))}
    BY <1>8 DEF KeysOf, Range
  <2>3. Range(Append(list, new)) = Range(list) \union {new}
    BY <1>1, <1>5, RangeAppended
  <2> QED BY <1>5, <2>1, <2>2, <2>3
<1>10. Range(stack'[s]) = Range(children) \union Range(Tail(stack[s]))
  BY <1>2, <1>6, <1>8, RangeJoined
<1>11. Range(stack[s]) = {pid} \union Range(Tail(stack[s]))
  BY <1>1, RangeAtHead DEF pid
<1>12. Known(s)' = Known(s) \union Range(children) /\ pid \in Known(s)
  BY <1>9, <1>10, <1>11 DEF Known
<1>13. Covers(s) /\ Within(s)
  BY <1>3 DEF TreeInv
<1>14. Covers(s)'
  BY <1>7, <1>9, <1>12, <1>13 DEF Covers, children
<1>15. Within(s)'
  <2>1. ASSUME NEW ps \in Branches(trees[s]) PROVE Known(s)' \subseteq ps
    <3>1. Known(s) \subseteq ps
      BY <1>13 DEF Within
    <3>2. Range(children) \subseteq ps
      BY <1>12, <3>1 DEF Branches, children
    <3> QED BY <1>12, <3>1, <3>2
  <2> QED BY <1>7, <2>1 DEF Within
<1>16. ASSUME NEW x \in Sides, x # s, HasTree(x)' PROVE Covers(x)' /\ Within(x)'
  <2>1. items'[x] = items[x] /\ stack'[x] = stack[x]
    BY <1>7, <1>16 DEF TypeInv, WorkTyped
  <2>2. HasTree(x) => Covers(x) /\ Within(x)
    BY DEF TreeInv
  <2> QED BY <1>7, <1>16, <2>1, <2>2 DEF Covers, Within, Known, KeysOf, HasTree
<1>17. ASSUME NEW x \in Sides, kind' = "processes", ~HasTree(x)' PROVE items'[x] = <<>>
  <2>1. x # s /\ kind = "processes" /\ ~HasTree(x)
    BY <1>3, <1>7, <1>17 DEF HasTree
  <2>2. items'[x] = items[x]
    BY <1>7, <2>1 DEF TypeInv, WorkTyped
  <2> QED BY <2>1, <2>2 DEF TreeInv
<1> QED BY <1>7, <1>14, <1>15, <1>16, <1>17 DEF TreeInv

LEMMA TreeStep == TypeInv /\ TreeInv /\ [CompareNext]_compareVars => TreeInv'
<1> SUFFICES ASSUME TypeInv, TreeInv, [CompareNext]_compareVars PROVE TreeInv'
  OBVIOUS
<1>1. CASE \E s \in Sides : Flatten(s)
  BY <1>1, TreeFlatten
<1>2. CASE ~\E s \in Sides : Flatten(s)
  <2>1. UNCHANGED <<kind, trees, items, stack>>
    BY <1>2 DEF CompareNext, RefuseNil, FileItem, Find, Collected, Return, compareVars, compared
  <2>2. \A s \in Sides : /\ Covers(s)' <=> Covers(s)
                         /\ Within(s)' <=> Within(s)
                         /\ HasTree(s)' <=> HasTree(s)
    BY <2>1 DEF Covers, Within, Known, KeysOf, HasTree
  <2>3. kind = "processes" /\ comparePc' # "collect" =>
          comparePc # "collect" \/ \A s \in Sides : stack[s] = <<>>
    BY <1>2 DEF CompareNext, RefuseNil, FileItem, Find, Collected, Return, compareVars
  <2> QED BY <2>1, <2>2, <2>3 DEF TreeInv
<1> QED BY <1>1, <1>2

LEMMA TreeFlattened ==
  ASSUME TypeInv, TreeInv, kind = "processes", comparePc = "done", NEW s \in Sides
  PROVE  ProcessesOf(s) = KeysOf(s)
<1>1. Known(s) = KeysOf(s)
  BY DEF TreeInv, Known, Range
<1>2. KeysOf(s) \subseteq Keys
  <2>1. items[s] \in Seq(Item)
    BY DEF TypeInv, WorkTyped
  <2>2. \A i \in DOMAIN items[s] : items[s][i] \in Item
    BY <2>1
  <2> QED BY <2>2 DEF KeysOf, Item
<1>3. CASE HasTree(s)
  <2>1. Covers(s) /\ Within(s)
    BY <1>3 DEF TreeInv
  <2>2. KeysOf(s) \in Branches(trees[s])
    BY <1>1, <1>2, <2>1 DEF Covers, Branches
  <2>3. \A ps \in Branches(trees[s]) : KeysOf(s) \subseteq ps
    BY <1>1, <2>1 DEF Within
  <2> QED BY <1>2, <1>3, <2>2, <2>3 DEF ProcessesOf
<1>4. CASE ~HasTree(s)
  <2>1. ProcessesOf(s) = {}
    BY <1>4 DEF ProcessesOf
  <2>2. items[s] = <<>>
    BY <1>4 DEF TreeInv
  <2> QED BY <2>1, <2>2 DEF KeysOf
<1> QED BY <1>3, <1>4

-----------------------------------------------------------------------------
(***************************************************************************)
(* The lines                                                               *)
(***************************************************************************)

(* The keys that a list reports.                                             *)
Told(l) == {result[l][i].key : i \in DOMAIN result[l]}

LEMMA HasKeys ==
  ASSUME NEW list, NEW m, FiledWell(m), NEW K \in SUBSET DOMAIN m, Has(list, m, K)
  PROVE  {list[i].key : i \in DOMAIN list} = K
<1>1. {list[i].key : i \in DOMAIN list} = {x.key : x \in Range(list)}
  BY DEF Range
<1>2. Range(list) = {m[k] : k \in K} /\ \A k \in K : m[k].key = k
  BY DEF Has, FiledWell
<1> QED BY <1>1, <1>2

(* What the lists of B report of its keys.                                   *)
LEMMA EachToldOnce ==
  ASSUME TypeInv, ExactInv, comparePc = "done"
  PROVE  /\ Told("added") \union Told("modified") \union Told("unchanged") = KeysOf("B")
         /\ Told("added") \intersect Told("modified") = {}
         /\ Told("added") \intersect Told("unchanged") = {}
         /\ Told("modified") \intersect Told("unchanged") = {}
<1>1. "A" \in Sides /\ "B" \in Sides /\ Other["A"] = "B" /\ Other["B"] = "A"
  BY DEF Sides, Other
<1>2. KeysOf("B") = DOMAIN map["B"]
  <2>1. DOMAIN items["B"] = 1..Len(items["B"])
    BY <1>1 DEF TypeInv, WorkTyped
  <2> QED BY <1>1, <2>1 DEF ExactInv, Filing, KeysOf
<1>3. Seen("A") = DOMAIN map["A"] /\ Seen("B") = DOMAIN map["B"]
  BY <1>1 DEF ExactInv, Seen
<1>4. /\ Alone("B") = {k \in DOMAIN map["B"] : k \notin DOMAIN map["A"]}
      /\ Shared = DOMAIN map["A"] \intersect DOMAIN map["B"]
      /\ Differing \subseteq Shared
  BY <1>1, <1>3 DEF Alone, Shared, FirstSide, Differing
<1>5. FiledWell(map["B"])
  BY <1>1 DEF TypeInv, MapsTyped
<1>6. /\ Has(result["added"], map["B"], Alone("B"))
      /\ Has(result["modified"], map["B"], Differing)
      /\ Has(result["unchanged"], map["B"], Shared \ Differing)
  BY DEF ExactInv, Finding
<1>7. Told("added") = Alone("B")
  BY <1>4, <1>5, <1>6, HasKeys DEF Told
<1>8. Told("modified") = Differing
  BY <1>4, <1>5, <1>6, HasKeys DEF Told
<1>9. Told("unchanged") = Shared \ Differing
  <2> PICK K : K = Shared \ Differing
    OBVIOUS
  <2>1. K \subseteq DOMAIN map["B"] /\ Has(result["unchanged"], map["B"], K)
    BY <1>4, <1>6
  <2>2. Told("unchanged") = K
    BY <1>5, <2>1, HasKeys DEF Told
  <2> QED BY <2>2
<1> QED BY <1>2, <1>4, <1>7, <1>8, <1>9

LEMMA ListedTold ==
  \A l \in Lists : Listed(l) = {[mark |-> MarkOf[l], key |-> k] : k \in Told(l)}
BY DEF Listed, Told

LEMMA Marking ==
  /\ MarkOf["added"] = "+" /\ MarkOf["removed"] = "-"
  /\ MarkOf["modified"] = "~" /\ MarkOf["unchanged"] = "="
BY DEF MarkOf

(* The status of a process is the mark of the list that has it.               *)
LEMMA StatusTold ==
  ASSUME TypeInv, ExactInv, comparePc = "done", NEW pid \in KeysOf("B")
  PROVE  /\ Status(pid) = "+" <=> pid \in Told("added")
         /\ Status(pid) = "~" <=> pid \in Told("modified")
         /\ Status(pid) \in {"+", "~", "="}
<1>1. \A l \in {"added", "modified", "unchanged"} : l \in Marks(pid) <=> pid \in Told(l)
  BY DEF Marks, Told
<1>2. Marks(pid) \subseteq {"added", "modified", "unchanged"}
  BY DEF Marks
<1> QED BY <1>1, <1>2, EachToldOnce, Marking DEF Status

LEMMA ViewImplies ==
  ASSUME TypeInv, ExactInv, TreeInv
  PROVE  ViewTellsDiff
<1> SUFFICES ASSUME comparePc = "done", NEW showUnchanged \in BOOLEAN
             PROVE  LET view == View(showUnchanged)
                        marked(l) == {x \in view : x.mark = MarkOf[l]}
                    IN /\ \A l \in Lists \ {"unchanged"} : marked(l) = Listed(l)
                       /\ showUnchanged => {x.key : x \in view \ marked("removed")} =
                            IF kind = "processes" THEN ProcessesOf("B") ELSE KeysOf("B")
                       /\ \A x \in view : x.mark # " "
  BY DEF ViewTellsDiff
<1> DEFINE view == View(showUnchanged)
           marked(l) == {x \in view : x.mark = MarkOf[l]}
<1>0. kind = "processes" => ProcessesOf("B") = KeysOf("B")
  BY TreeFlattened DEF Sides
<1>1. CASE showUnchanged /\ HasTree("B")
  <2>1. kind = "processes" /\ ProcessesOf("B") = KeysOf("B")
    BY <1>0, <1>1 DEF HasTree
  <2> DEFINE tree == {[mark |-> Status(pid), key |-> pid] : pid \in KeysOf("B")}
  <2>2. view = tree \union Listed("removed")
    BY <1>1, <2>1 DEF View
  <2>3. Listed("removed") = {[mark |-> "-", key |-> k] : k \in Told("removed")}
    BY ListedTold, Marking DEF Lists
  <2>4. \A x \in tree : x.key \in KeysOf("B") /\ x.mark = Status(x.key) /\ x.mark \in {"+", "~", "="}
    BY StatusTold
  <2>5. \A k \in KeysOf("B") : [mark |-> Status(k), key |-> k] \in tree
    OBVIOUS
  <2>6. \A x \in tree : x = [mark |-> x.mark, key |-> x.key]
    OBVIOUS
  <2>7. Told("added") \subseteq KeysOf("B") /\ Told("modified") \subseteq KeysOf("B")
    BY EachToldOnce
  <2> HIDE DEF tree, view
  <2>8. marked("removed") = Listed("removed")
    BY <2>2, <2>3, <2>4, Marking
  <2>9. marked("added") = {[mark |-> "+", key |-> k] : k \in Told("added")}
    BY <2>2, <2>3, <2>4, <2>5, <2>6, <2>7, Marking, StatusTold
  <2>10. marked("modified") = {[mark |-> "~", key |-> k] : k \in Told("modified")}
    BY <2>2, <2>3, <2>4, <2>5, <2>6, <2>7, Marking, StatusTold
  <2>11. \A l \in Lists \ {"unchanged"} : marked(l) = Listed(l)
    BY <2>8, <2>9, <2>10, ListedTold, Marking DEF Lists
  <2>12. view \ marked("removed") = tree
    BY <2>2, <2>3, <2>4, Marking
  <2>13. {x.key : x \in tree} = KeysOf("B")
    <3>1. \A k \in KeysOf("B") : \E x \in tree : x.key = k
      BY <2>5
    <3> QED BY <2>4, <3>1
  <2>14. \A x \in view : x.mark # " "
    <3>1. \A x \in Listed("removed") : x.mark = "-"
      BY <2>3
    <3> QED BY <2>2, <2>4, <3>1
  <2> QED BY <1>1, <2>1, <2>11, <2>12, <2>13, <2>14 DEF view
<1>2. CASE ~(showUnchanged /\ HasTree("B"))
  <2> DEFINE seen == Printed(showUnchanged)
  <2>1. view = UNION {Listed(l) : l \in seen}
    BY <1>2 DEF View
  <2>2. Lists \ {"unchanged"} \subseteq seen /\ seen \subseteq Lists
        /\ (showUnchanged /\ kind # "processes" => seen = Lists)
    BY DEF Printed
  <2> HIDE DEF view, seen
  <2>3. \A l \in Lists : Listed(l) = {[mark |-> MarkOf[l], key |-> k] : k \in Told(l)}
    BY ListedTold
  <2>4. \A l, m \in Lists : MarkOf[l] = MarkOf[m] => l = m
    BY Marking DEF Lists
  <2>5. \A x \in view : \E l \in seen : x.mark = MarkOf[l] /\ x \in Listed(l)
    BY <2>1, <2>2, <2>3
  <2>6. ASSUME NEW l \in Lists, l \in seen PROVE marked(l) = Listed(l)
    <3>1. Listed(l) \subseteq view
      BY <2>1, <2>6
    <3>2. \A x \in Listed(l) : x.mark = MarkOf[l]
      BY <2>3
    <3>3. ASSUME NEW x \in marked(l) PROVE x \in Listed(l)
      BY <2>2, <2>4, <2>5
    <3> QED BY <3>1, <3>2, <3>3
  <2>7. \A l \in Lists \ {"unchanged"} : marked(l) = Listed(l)
    BY <2>2, <2>6
  <2>8. ASSUME showUnchanged, kind = "processes" PROVE Told("unchanged") = {}
    <3>1. items["B"] = <<>>
      BY <1>2, <2>8 DEF TreeInv, Sides
    <3>2. KeysOf("B") = {}
      BY <3>1 DEF KeysOf
    <3> QED BY <3>2, EachToldOnce
  <2>9. ASSUME showUnchanged PROVE {x.key : x \in view \ marked("removed")} = KeysOf("B")
    <3>1. marked("removed") = Listed("removed")
      BY <2>7 DEF Lists
    <3>2. view \ marked("removed") = Listed("added") \union Listed("modified") \union Listed("unchanged")
      <4>0. kind = "processes" => Listed("unchanged") = {}
        BY <1>2, <2>3, <2>8, <2>9 DEF Lists
      <4>1. view = Listed("added") \union Listed("removed")
                     \union Listed("modified") \union Listed("unchanged")
        BY <2>1, <2>2, <2>9, <4>0 DEF Lists
      <4>2. \A x \in Listed("removed") : x.mark = "-"
        BY <2>3, Marking DEF Lists
      <4>3. \A x \in Listed("added") \union Listed("modified") \union Listed("unchanged") :
              x.mark # "-"
        BY <2>3, Marking DEF Lists
      <4> QED BY <3>1, <4>1, <4>2, <4>3
    <3>3. ASSUME NEW l \in Lists PROVE {x.key : x \in Listed(l)} = Told(l)
      <4>1. Listed(l) = {[mark |-> MarkOf[l], key |-> k] : k \in Told(l)}
        BY <2>3
      <4>2. \A x \in Listed(l) : x.key \in Told(l)
        BY <4>1
      <4>3. \A k \in Told(l) : [mark |-> MarkOf[l], key |-> k] \in Listed(l)
        BY <4>1
      <4>4. \A k \in Told(l) : \E x \in Listed(l) : x.key = k
        BY <4>3
      <4> QED BY <4>2, <4>4
    <3> QED BY <3>2, <3>3, EachToldOnce DEF Lists
  <2>10. \A x \in view : x.mark # " "
    BY <2>2, <2>5, Marking DEF Lists
  <2> QED BY <1>0, <2>7, <2>9, <2>10 DEF view
<1> QED BY <1>1, <1>2

(* For any trees, or none, any number of items and any order of the ranges: the *)
(* view shows each change of the diff under its mark and nothing else, with     *)
(* --show-unchanged it has every item of B, and flattening a process tree       *)
(* leaves out none of its processes, so none is shown without its mark.       *)
THEOREM ViewFaithful == CompareSpec => []ViewTellsDiff
<1>1. CompareInit => TypeInv /\ ExactInv /\ TreeInv
  BY TypeInit, ExactInit, TreeInit
<1>2. (TypeInv /\ ExactInv /\ TreeInv) /\ [CompareNext]_compareVars
        => (TypeInv /\ ExactInv /\ TreeInv)'
  BY TypeStep, ExactStep, TreeStep
<1>3. TypeInv /\ ExactInv /\ TreeInv => ViewTellsDiff
  BY ViewImplies
<1> QED BY <1>1, <1>2, <1>3, PTL DEF CompareSpec

-----------------------------------------------------------------------------
(***************************************************************************)
(* Composition                                                             *)
(***************************************************************************)

LEMMA DumpAtRest == DumpRests => DumpInit
<1>1. SomeMemory \in {m \in Memories : HasMemory(m.root)}
  BY ReportsAssumption, Zenon DEF SomeMemory
<1>2. SomeRequest \in Requests
  BY ReportsAssumption DEF SomeRequest
<1> QED BY <1>1, <1>2 DEF DumpRests, DumpInit, DumpInput

LEMMA ReportAtRest == ReportRests => ReportInit
<1>1. SomeCall \in Calls /\ SomeCheckpoint \in Checkpoints
  BY ReportsAssumption DEF SomeCall, SomeCheckpoint
<1> QED BY <1>1 DEF ReportRests, ReportInit

LEMMA ListAtRest == ListRests => ListInit
<1>1. SomeArguments \in Arguments /\ SomeContent \in Contents /\ SomeLeftover \in Leftovers
  BY ReportsAssumption DEF SomeArguments, SomeContent, SomeLeftover
<1> QED BY <1>1 DEF ListRests, ListInit, ListInput

LEMMA CompareAtRest == CompareRests => CompareInit
<1>1. <<>> \in ItemLists
  <2>1. <<>> \in [1..0 -> Item] /\ 0 \in 0..MaxItems
    BY CompareAssumption
  <2> QED BY <2>1 DEF ItemLists
<1>2. Distinct(<<>>)
  BY DEF Distinct
<1> QED BY <1>1, <1>2 DEF CompareRests, CompareInit, CompareInput, Kinds

LEMMA NumbersAtRest == NumbersRest => NumbersInit
<1>1. SomeSize \in Sizes
  BY ReportsAssumption DEF SomeSize
<1> QED BY <1>1 DEF NumbersRest, NumbersInit

LEMMA StartOfEach ==
  Init => DumpInit /\ ReportInit /\ ListInit /\ CompareInit /\ NumbersInit
  BY DumpAtRest, ReportAtRest, ListAtRest, CompareAtRest, NumbersAtRest DEF Init

LEMMA StepOfEach ==
  [Next]_reportsVars =>
    /\ [DumpNext]_dumpVars /\ [ReportNext]_reportVars /\ [ListNext]_listVars
    /\ [CompareNext]_compareVars /\ [NumbersNext]_numberVars
<1> SUFFICES ASSUME [Next]_reportsVars
             PROVE  /\ [DumpNext]_dumpVars /\ [ReportNext]_reportVars /\ [ListNext]_listVars
                    /\ [CompareNext]_compareVars /\ [NumbersNext]_numberVars
  OBVIOUS
<1>1. \/ DumpNext /\ UNCHANGED <<reportVars, listVars, compareVars, numberVars>>
      \/ ReportNext /\ UNCHANGED <<dumpVars, listVars, compareVars, numberVars>>
      \/ ListNext /\ UNCHANGED <<dumpVars, reportVars, compareVars, numberVars>>
      \/ CompareNext /\ UNCHANGED <<dumpVars, reportVars, listVars, numberVars>>
      \/ NumbersNext /\ UNCHANGED <<dumpVars, reportVars, listVars, compareVars>>
      \/ UNCHANGED <<dumpVars, reportVars, listVars, compareVars, numberVars>>
  BY DEF Next, Work, Meanwhile, ListNext, reportsVars
<1> QED BY <1>1

(* A run of a command is, seen by each of the components, a run of that          *)
(* component: the one that works does what its module says, the others rest in *)
(* an initial state.  What their modules prove holds here.                   *)
THEOREM RunsOfEach ==
  Spec => DumpSpec /\ ReportSpec /\ ListSpec /\ CompareSpec /\ NumbersSpec
<1> QED BY StartOfEach, StepOfEach, PTL
        DEF Spec, DumpSpec, ReportSpec, ListSpec, CompareSpec, NumbersSpec
=============================================================================
