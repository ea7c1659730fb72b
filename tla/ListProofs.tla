----------------------------- MODULE ListProofs ------------------------------
(***************************************************************************)
(* Proofs about the lists of the console, for any number of whatever they  *)
(* are of: the filters and the saved queries (ListFilters), the deletions  *)
(* that can be undone with their notices (NoticeQueue), the pages a reader *)
(* goes through while rows are inserted (ListQueries), the items in a form *)
(* (ArrayForm), the columns of a table (ListColumns), the links of the     *)
(* pages (ListPagination) and the choices an input holds (ChoiceInputs).   *)
(***************************************************************************)
EXTENDS ListFilters, NoticeQueue, ListQueries, ArrayForm, ListColumns, ListPagination, ChoiceInputs,
        FiniteSetTheorems, SequenceTheorems, WellFoundedInduction, TLAPS

-----------------------------------------------------------------------------
(* Every set of naturals that is not empty has a least member.             *)
LEMMA LeastNatural ==
    ASSUME NEW T \in SUBSET Nat, T # {} PROVE \E x \in T : \A y \in T : x <= y
<1>1. PICK x \in T : \A y \in T : ~ (<<y, x>> \in OpToRel(<, Nat))
  <2>1. IsWellFoundedOn(OpToRel(<, Nat), Nat)
    BY NatLessThanWellFounded
  <2>2. QED
    BY <2>1, WFMin
<1>2. \A y \in T : ~ (y < x)
  BY <1>1 DEF OpToRel
<1>3. \A y \in T : x <= y
  BY <1>2
<1>4. QED
  BY <1>3

LEMMA MinIsLeast ==
    ASSUME NEW T \in SUBSET Nat, T # {} PROVE Min(T) \in T /\ \A y \in T : Min(T) <= y
BY LeastNatural DEF Min

(* ListFilters                                                             *)

(* The place of a query among the saved ones: the first it has, or 0.      *)
LEMMA PlaceOfQuery ==
    ASSUME NEW saved \in Seq(Queries), NEW q
    PROVE  LET i == QueryPlace(saved, q)
           IN  /\ q \in ToSet(saved) => i \in 1..Len(saved) /\ saved[i] = q
               /\ q \notin ToSet(saved) => i = 0
<1> DEFINE I == {i \in 1..Len(saved) : saved[i] = q}
<1>1. QueryPlace(saved, q) = IF I # {} THEN Min(I) ELSE 0
  BY DEF QueryPlace, SelectInSeq
<1>2. q \in ToSet(saved) <=> I # {}
  BY DEF ToSet
<1>3. I # {} => Min(I) \in I
  <2>1. I \in SUBSET Nat
    BY LenProperties
  <2> HIDE DEF I
  <2>2. QED
    BY <2>1, MinIsLeast
<1>4. QED
  BY <1>1, <1>2, <1>3

(* What is left of the saved queries is of them, and only the query itself *)
(* may be missing; if it is saved, it is gone from one place.              *)
LEMMA WithoutQuery ==
    ASSUME NEW saved \in Seq(Queries), NEW q
    PROVE  /\ Without(saved, q) \in Seq(Queries)
           /\ ToSet(Without(saved, q)) \subseteq ToSet(saved)
           /\ ToSet(saved) \ {q} \subseteq ToSet(Without(saved, q))
           /\ q \in ToSet(saved) =>
                 \E i \in DOMAIN saved : saved[i] = q /\ Without(saved, q) = RemoveAt(saved, i)
<1> DEFINE i == QueryPlace(saved, q)
           n == Len(saved)
<1>1. /\ Without(saved, q) =
             IF i > 0 THEN SubSeq(saved, 1, i - 1) \o SubSeq(saved, i + 1, n)
             ELSE IF saved = <<>> THEN <<>> ELSE SubSeq(saved, 1, n - 1) \o saved
      /\ q \in ToSet(saved) => i \in 1..n /\ saved[i] = q
      /\ q \notin ToSet(saved) => i = 0
  <2>1. Without(saved, q) =
             IF i > 0 THEN SubSeq(saved, 1, i - 1) \o SubSeq(saved, i + 1, n)
             ELSE IF saved = <<>> THEN <<>> ELSE SubSeq(saved, 1, n - 1) \o saved
    BY DEF Without
  <2>2. /\ q \in ToSet(saved) => i \in 1..n /\ saved[i] = q
        /\ q \notin ToSet(saved) => i = 0
    BY PlaceOfQuery
  <2>3. QED
    BY <2>1, <2>2
<1> HIDE DEF i
<1>2. /\ n \in Nat /\ DOMAIN saved = 1..n
      /\ \A j \in 1..n : saved[j] \in Queries /\ saved[j] \in ToSet(saved)
  BY LenProperties DEF ToSet
<1>3. ASSUME NEW a \in 1..(n + 1), NEW b \in 0..n
      PROVE  /\ SubSeq(saved, a, b) \in Seq(Queries)
             /\ SubSeq(saved, a, b) \in Seq(ToSet(saved))
             /\ Len(SubSeq(saved, a, b)) = IF a <= b THEN b - a + 1 ELSE 0
  <2>1. a \in Int /\ b \in Int /\ \A j \in a..b : j \in 1..n
    BY <1>2
  <2>2. \A j \in a..b : saved[j] \in Queries /\ saved[j] \in ToSet(saved)
    BY <1>2, <2>1
  <2>3. QED
    BY <2>1, <2>2, SubSeqProperties
<1>4. saved \in Seq(ToSet(saved))
  BY <1>2
<1>5. ASSUME NEW s \in Seq(ToSet(saved)) PROVE ToSet(s) \subseteq ToSet(saved)
  BY DEF ToSet
<1>6. CASE q \in ToSet(saved)
  <2>1. /\ i \in 1..n /\ saved[i] = q
        /\ Without(saved, q) = SubSeq(saved, 1, i - 1) \o SubSeq(saved, i + 1, n)
    <3>1. i \in 1..n /\ saved[i] = q
      BY <1>1, <1>6
    <3>2. i > 0
      BY <1>2, <3>1
    <3>3. QED
      BY <1>1, <3>1, <3>2
  <2>2. i - 1 \in 0..n /\ i + 1 \in 1..(n + 1) /\ 1 \in 1..(n + 1) /\ n \in 0..n
    BY <1>2, <2>1
  <2> DEFINE before == SubSeq(saved, 1, i - 1)  after == SubSeq(saved, i + 1, n)
  <2>3. /\ before \in Seq(Queries) /\ before \in Seq(ToSet(saved)) /\ Len(before) = i - 1
        /\ after \in Seq(Queries) /\ after \in Seq(ToSet(saved)) /\ Len(after) = n - i
    <3>1. Len(before) = IF 1 <= i - 1 THEN (i - 1) - 1 + 1 ELSE 0
      BY <1>3, <2>2
    <3>2. Len(after) = IF i + 1 <= n THEN n - (i + 1) + 1 ELSE 0
      BY <1>3, <2>2
    <3>3. Len(before) = i - 1 /\ Len(after) = n - i
      <4>1. i \in 1..n /\ n \in Nat
        BY <1>2, <2>1
      <4> HIDE DEF before, after, n
      <4>2. QED
        BY <3>1, <3>2, <4>1
    <3>4. QED
      BY <1>3, <2>2, <3>3
  <2>4. Without(saved, q) = RemoveAt(saved, i)
    BY <2>1 DEF RemoveAt
  <2> HIDE DEF before, after
  <2>5. /\ before \o after \in Seq(Queries) /\ before \o after \in Seq(ToSet(saved))
        /\ Len(before \o after) = Len(before) + Len(after)
    BY <2>3, ConcatProperties
  <2>6. Without(saved, q) = before \o after
    BY <2>1 DEF before, after
  <2>7. ToSet(saved) \ {q} \subseteq ToSet(Without(saved, q))
    <3>0. DOMAIN (before \o after) = 1..Len(before \o after)
      BY <2>5, LenProperties
    <3> SUFFICES ASSUME NEW j \in 1..n, saved[j] # q
                 PROVE  \E k \in 1..Len(before \o after) : (before \o after)[k] = saved[j]
      <4>1. ToSet(saved) = {saved[j] : j \in 1..n}
        BY <1>2 DEF ToSet
      <4>2. ToSet(before \o after) = {(before \o after)[k] : k \in 1..Len(before \o after)}
        BY <3>0 DEF ToSet
      <4>3. QED
        BY <2>6, <4>1, <4>2
    <3>1. j < i \/ j > i
      BY <1>2, <2>1
    <3>2. i \in Nat /\ n \in Nat /\ j \in Nat /\ i <= n /\ 1 <= j /\ j <= n
      BY <1>2, <2>1
    <3> HIDE DEF n
    <3>3. Len(before \o after) = n - 1
      BY <2>3, <2>5, <3>2
    <3>4. CASE j < i
      <4>1. j \in 1..Len(before) /\ j \in 1..(n - 1)
        BY <2>3, <3>2, <3>4
      <4>2. before[j] = saved[j]
        BY <1>2, <2>2, <4>1, SubSeqProperties, <2>3, <3>2, <3>4 DEF before, n
      <4>3. (before \o after)[j] = before[j]
        BY <2>3, <4>1, ConcatProperties
      <4>4. QED
        BY <3>3, <4>1, <4>2, <4>3
    <3>5. CASE j > i
      <4>1. j - i \in 1..Len(after) /\ j - 1 \in 1..(n - 1)
        BY <2>3, <3>2, <3>5
      <4>2. after[j - i] = saved[j]
        <5>1. after[j - i] = saved[(i + 1) + (j - i) - 1]
          <6>1. \A k \in (i + 1)..n : saved[k] \in Queries
            BY <1>2, <2>2
          <6>2. (i + 1) \in Int /\ n \in Int
            BY <3>2
          <6>3. j - i \in 1..(1 + n - (i + 1))
            BY <3>2, <3>5
          <6>4. QED
            BY <6>1, <6>2, <6>3, SubSeqProperties DEF after, n
        <5>2. (i + 1) + (j - i) - 1 = j
          BY <3>2
        <5>3. QED
          BY <5>1, <5>2
      <4>3. (before \o after)[j - 1] = after[j - i]
        BY <2>3, <3>2, <3>3, <3>5, <4>1, <2>5, ConcatProperties
      <4>4. QED
        BY <3>3, <4>1, <4>2, <4>3
    <3>6. QED
      BY <3>1, <3>4, <3>5
  <2>8. QED
    BY <1>2, <1>5, <2>1, <2>4, <2>5, <2>6, <2>7
<1>7. CASE q \notin ToSet(saved)
  <2>1. Without(saved, q) = IF saved = <<>> THEN <<>> ELSE SubSeq(saved, 1, n - 1) \o saved
    BY <1>1, <1>7
  <2>2. CASE saved = <<>>
    BY <1>7, <2>1, <2>2
  <2>3. CASE saved # <<>>
    <3>1. n - 1 \in 0..n /\ 1 \in 1..(n + 1)
      BY <1>2, <2>3
    <3> DEFINE most == SubSeq(saved, 1, n - 1)
    <3>2. most \in Seq(Queries) /\ most \in Seq(ToSet(saved))
      BY <1>3, <3>1
    <3>3. Without(saved, q) = most \o saved
      BY <2>1, <2>3
    <3> HIDE DEF most
    <3>4. most \o saved \in Seq(Queries) /\ most \o saved \in Seq(ToSet(saved))
      BY <1>4, <3>2, ConcatProperties
    <3>5. ToSet(saved) \subseteq ToSet(most \o saved)
      <4> SUFFICES ASSUME NEW j \in 1..n
                   PROVE  \E k \in 1..Len(most \o saved) : (most \o saved)[k] = saved[j]
        <5>1. ToSet(saved) = {saved[j] : j \in 1..n}
          BY <1>2 DEF ToSet
        <5>2. DOMAIN (most \o saved) = 1..Len(most \o saved)
          BY <3>4, LenProperties
        <5>3. ToSet(most \o saved) = {(most \o saved)[k] : k \in 1..Len(most \o saved)}
          BY <5>2 DEF ToSet
        <5>4. QED
          BY <5>1, <5>3
      <4>1. Len(most) \in Nat /\ Len(most \o saved) = Len(most) + n
        BY <3>2, ConcatProperties, LenProperties
      <4>2. Len(most) + j \in 1..Len(most \o saved)
        <5>1. n \in Nat /\ j \in 1..n
          BY <1>2
        <5> HIDE DEF n
        <5>2. QED
          BY <4>1, <5>1
      <4>3. (most \o saved)[Len(most) + j] = saved[j]
        BY <1>2, <3>2, <4>1, <4>2, ConcatProperties
      <4>4. QED
        BY <4>2, <4>3
    <3>6. QED
      BY <1>5, <1>7, <3>3, <3>4, <3>5
  <2>4. QED
    BY <2>2, <2>3
<1>8. QED
  BY <1>6, <1>7

(* The invariant, by the queries and by the dialog.                        *)
InOrder(q) == q \in Queries /\ ListsItsInputs(q)

SavedInOrder == /\ lfSaved \in Seq(Queries) /\ Len(lfSaved) <= MaxSaved
                /\ \A q \in ToSet(lfSaved) : ListsItsInputs(q)

DialogInOrder == lfDialog \in {"closed", "menu", "add", "remove"}

FiltersInOrder == InOrder(lfQuery) /\ InOrder(lfBack) /\ SavedInOrder /\ DialogInOrder

LEMMA LFInvHolds == FiltersInOrder => LFInv
<1> SUFFICES ASSUME FiltersInOrder PROVE LFInv
  OBVIOUS
<1>1. lfSaved \in BoundedSeq(Queries, MaxSaved)
  <2>1. Len(lfSaved) \in 0..MaxSaved /\ lfSaved \in [1..Len(lfSaved) -> Queries]
    BY MaxSavedAssumption, LenProperties DEF FiltersInOrder, SavedInOrder
  <2>2. QED
    BY <2>1 DEF BoundedSeq, SeqOf
<1>2. Shown(lfQuery) \ AlwaysOn = lfQuery.displayed
  BY DEF FiltersInOrder, InOrder, ListsItsInputs, Shown, AlwaysOn, OnDemand, Queries
<1>3. QED
  BY <1>1, <1>2 DEF FiltersInOrder, InOrder, SavedInOrder, DialogInOrder, LFInv, LFTypeOK

LEMMA SavedQuery == ASSUME FiltersInOrder, NEW q \in ToSet(lfSaved) PROVE InOrder(q)
<1>1. q \in Queries
  <2>1. lfSaved \in Seq(Queries)
    BY DEF FiltersInOrder, SavedInOrder
  <2>2. QED
    BY <2>1, LenProperties DEF ToSet
<1>2. QED
  BY <1>1 DEF FiltersInOrder, SavedInOrder, InOrder

(* A step that navigates, leaves what is saved alone, and closes what is   *)
(* open or leaves it.                                                      *)
LEMMA NavigateStep ==
    ASSUME FiltersInOrder, NEW q, InOrder(q), Navigate(q),
           UNCHANGED lfSaved, lfDialog' \in {"closed", lfDialog}
    PROVE  FiltersInOrder'
<1>1. lfQuery' = q /\ lfBack' = lfQuery
  BY DEF Navigate
<1>2. InOrder(lfQuery)' /\ InOrder(lfBack)'
  BY <1>1 DEF FiltersInOrder, InOrder, ListsItsInputs
<1>3. SavedInOrder'
  BY DEF FiltersInOrder, SavedInOrder
<1>4. DialogInOrder'
  BY DEF FiltersInOrder, DialogInOrder
<1>5. QED
  BY <1>2, <1>3, <1>4 DEF FiltersInOrder

(* A query saved, and one removed, here or in another tab.                 *)
LEMMA AppendStep ==
    ASSUME FiltersInOrder, NEW q, InOrder(q),
           lfSaved' = Append(lfSaved, q), Len(lfSaved') <= MaxSaved
    PROVE  SavedInOrder'
<1>1. lfSaved \in Seq(Queries) /\ q \in Queries
  BY DEF FiltersInOrder, SavedInOrder, InOrder
<1>2. /\ lfSaved' \in Seq(Queries)
      /\ \A i \in 1..Len(lfSaved') : lfSaved'[i] \in ToSet(lfSaved) \cup {q}
  BY <1>1 DEF ToSet
<1>3. ToSet(lfSaved') \subseteq ToSet(lfSaved) \cup {q}
  BY <1>2 DEF ToSet
<1>4. \A s \in ToSet(lfSaved') : ListsItsInputs(s)
  BY <1>3 DEF FiltersInOrder, SavedInOrder, InOrder
<1>5. QED
  BY <1>2, <1>4 DEF SavedInOrder, ListsItsInputs

LEMMA WithoutStep ==
    ASSUME FiltersInOrder, NEW q, lfSaved' = Without(lfSaved, q), Len(lfSaved') <= MaxSaved
    PROVE  SavedInOrder'
<1>1. lfSaved' \in Seq(Queries) /\ ToSet(lfSaved') \subseteq ToSet(lfSaved)
  BY WithoutQuery DEF FiltersInOrder, SavedInOrder
<1>2. QED
  BY <1>1 DEF FiltersInOrder, SavedInOrder, ListsItsInputs

LEMMA FiltersStep == FiltersInOrder /\ [LFNext]_lfVars => FiltersInOrder'
<1> SUFFICES ASSUME FiltersInOrder, [LFNext]_lfVars PROVE FiltersInOrder'
  OBVIOUS
<1>1. InOrder(lfQuery) /\ InOrder(lfBack)
  BY DEF FiltersInOrder
<1>2. ASSUME NEW source \in Sources, TypeFilter(source) PROVE FiltersInOrder'
  <2> DEFINE q == [lfQuery EXCEPT !.filter =
                      IF source \in lfQuery.filter THEN lfQuery.filter \ {source}
                      ELSE lfQuery.filter \cup {source}]
  <2>1. /\ source \in Shown(lfQuery) /\ Navigate(q)
        /\ UNCHANGED <<lfSaved, lfDialog>>
    BY <1>2 DEF TypeFilter
  <2>2. /\ q \in Queries /\ q.displayed = lfQuery.displayed
        /\ q.filter = IF source \in lfQuery.filter THEN lfQuery.filter \ {source}
                      ELSE lfQuery.filter \cup {source}
    BY <1>1 DEF InOrder, Queries
  <2> HIDE DEF q
  <2>3. ListsItsInputs(q)
    BY <1>1, <2>1, <2>2 DEF InOrder, ListsItsInputs, Shown, AlwaysOn, OnDemand
  <2>4. QED
    BY <2>1, <2>2, <2>3, NavigateStep DEF InOrder
<1>3. ASSUME NEW source \in Sources, ShowFilter(source) PROVE FiltersInOrder'
  <2> DEFINE q == [filter |-> lfQuery.filter \cup {source},
                   displayed |-> lfQuery.displayed \cup {source}]
  <2>1. /\ source \in OnDemand /\ Navigate(q) /\ lfDialog' = "closed"
        /\ UNCHANGED lfSaved
    BY <1>3 DEF ShowFilter
  <2>2. InOrder(q)
    BY <1>1, <1>3, <2>1 DEF InOrder, ListsItsInputs, Queries
  <2>3. QED
    BY <2>1, <2>2, NavigateStep
<1>4. ASSUME NEW source \in Sources, HideFilter(source) PROVE FiltersInOrder'
  <2>1. /\ Navigate(Hidden(lfQuery, source)) /\ lfDialog' = "closed"
        /\ UNCHANGED lfSaved
    BY <1>4 DEF HideFilter
  <2>2. InOrder(Hidden(lfQuery, source))
    BY <1>1 DEF InOrder, ListsItsInputs, Queries, Hidden
  <2>3. QED
    BY <2>1, <2>2, NavigateStep
<1>5. CASE GoBack
  BY <1>1, <1>5, NavigateStep DEF GoBack
<1>6. CASE RemoveAllFilters
  <2>1. InOrder(Empty)
    BY DEF InOrder, ListsItsInputs, Queries, Empty
  <2>2. QED
    BY <1>6, <2>1, NavigateStep DEF RemoveAllFilters
<1>7. ASSUME NEW q \in ToSet(lfSaved), ApplySaved(q) PROVE FiltersInOrder'
  BY <1>7, SavedQuery, NavigateStep DEF ApplySaved
<1>8. CASE OpenMenu \/ CloseDialog
  BY <1>8 DEF OpenMenu, CloseDialog, FiltersInOrder, InOrder, ListsItsInputs, SavedInOrder,
              DialogInOrder
<1>9. CASE OpenDialog
  <2>1. /\ UNCHANGED <<lfQuery, lfBack, lfSaved>> /\ lfDialog' \in {"remove", "add"}
    BY <1>9 DEF OpenDialog
  <2>2. QED
    BY <2>1 DEF FiltersInOrder, InOrder, ListsItsInputs, SavedInOrder, DialogInOrder
<1>10. CASE AddQuery
  <2>1. /\ UNCHANGED <<lfQuery, lfBack>> /\ lfDialog' = "closed"
        /\ lfSaved' = Append(lfSaved, lfQuery) /\ Len(lfSaved) < MaxSaved
    BY <1>10 DEF AddQuery
  <2>2. Len(Append(lfSaved, lfQuery)) = Len(lfSaved) + 1 /\ Len(lfSaved) \in Nat
    BY <1>1, LenProperties DEF FiltersInOrder, SavedInOrder, InOrder
  <2>3. SavedInOrder'
    BY <1>1, <2>1, <2>2, MaxSavedAssumption, AppendStep
  <2>4. QED
    BY <2>1, <2>3 DEF FiltersInOrder, InOrder, ListsItsInputs, DialogInOrder
<1>11. CASE RemoveQuery
  <2>1. /\ UNCHANGED <<lfQuery, lfBack>> /\ lfDialog' = "closed"
        /\ lfSaved' = Without(lfSaved, lfQuery) /\ Len(lfSaved') <= MaxSaved
    BY <1>11 DEF RemoveQuery
  <2>2. SavedInOrder'
    BY <2>1, WithoutStep
  <2>3. QED
    BY <2>1, <2>2 DEF FiltersInOrder, InOrder, ListsItsInputs, DialogInOrder
<1>12. ASSUME NEW q \in Queries, OtherTabChanges(q) PROVE FiltersInOrder'
  <2>1. /\ UNCHANGED <<lfQuery, lfBack, lfDialog>> /\ InOrder(q)
        /\ lfSaved' \in {Append(lfSaved, q), Without(lfSaved, q)} /\ Len(lfSaved') <= MaxSaved
    BY <1>12 DEF OtherTabChanges, InOrder
  <2>2. SavedInOrder'
    BY <2>1, AppendStep, WithoutStep
  <2>3. QED
    BY <2>1, <2>2 DEF FiltersInOrder, InOrder, ListsItsInputs, DialogInOrder
<1>13. CASE UNCHANGED lfVars
  BY <1>13 DEF lfVars, FiltersInOrder, InOrder, ListsItsInputs, SavedInOrder, DialogInOrder
<1>14. QED
  BY <1>2, <1>3, <1>4, <1>5, <1>6, <1>7, <1>8, <1>9, <1>10, <1>11, <1>12, <1>13 DEF LFNext

LEMMA FiltersHold == LFSpec => []FiltersInOrder
<1>1. LFInit => FiltersInOrder
  <2> SUFFICES ASSUME LFInit PROVE FiltersInOrder
    OBVIOUS
  <2>1. Empty \in Queries /\ ListsItsInputs(Empty)
    BY DEF Empty, Queries, ListsItsInputs
  <2>2. lfSaved = <<>> /\ <<>> \in Seq(Queries) /\ Len(<<>>) = 0 /\ ToSet(<<>>) = {}
    BY DEF LFInit, ToSet
  <2>3. SavedInOrder
    BY <2>2, MaxSavedAssumption DEF SavedInOrder
  <2>4. QED
    BY <2>1, <2>3 DEF LFInit, FiltersInOrder, InOrder, DialogInOrder
<1>2. QED
  BY <1>1, FiltersStep, PTL DEF LFSpec

(* The filters and the saved queries, for any number of them.              *)
THEOREM FiltersInvariance == LFSpec => []LFInv
<1>1. QED
  BY FiltersHold, LFInvHolds, PTL

(* Confirming the removal of a saved query loses no other one, and takes   *)
(* away one entry of it where it is saved still: for any number of saved   *)
(* queries, whatever other tabs and the back button did under the dialog   *)
(* (saved-queries.tsx).                                                    *)
THEOREM RemovalSafe == LFSpec => RemovalSparesOthers
<1> DEFINE A == RemoveQuery =>
                  /\ ToSet(lfSaved') \subseteq ToSet(lfSaved)
                  /\ ToSet(lfSaved) \ {lfQuery} \subseteq ToSet(lfSaved')
                  /\ IsSaved(lfQuery) => \E i \in DOMAIN lfSaved :
                        lfSaved[i] = lfQuery /\ lfSaved' = RemoveAt(lfSaved, i)
<1>1. FiltersInOrder /\ [LFNext]_lfVars => [A]_lfVars
  <2> SUFFICES ASSUME FiltersInOrder, RemoveQuery
               PROVE  /\ ToSet(lfSaved') \subseteq ToSet(lfSaved)
                      /\ ToSet(lfSaved) \ {lfQuery} \subseteq ToSet(lfSaved')
                      /\ lfQuery \in ToSet(lfSaved) => \E i \in DOMAIN lfSaved :
                            lfSaved[i] = lfQuery /\ lfSaved' = RemoveAt(lfSaved, i)
    BY DEF IsSaved
  <2>1. lfSaved \in Seq(Queries)
    BY DEF FiltersInOrder, SavedInOrder
  <2>2. lfSaved' = Without(lfSaved, lfQuery)
    BY DEF RemoveQuery
  <2>3. QED
    BY <2>1, <2>2, WithoutQuery
<1>2. QED
  BY <1>1, FiltersHold, PTL DEF LFSpec, RemovalSparesOthers

-----------------------------------------------------------------------------
(* NoticeQueue                                                             *)

Batches == SUBSET TableRows

(* The rows on the screen and selected, and the counters.                  *)
RowsInOrder ==
    /\ nqShown \subseteq TableRows /\ nqDone \subseteq TableRows \ nqShown
    /\ nqSelected \subseteq TableRows
    /\ nqPlain \in 0..MaxNotices /\ nqMade \in 0..MaxDeletions
    /\ \A t \in nqToasts : t.tells \in Batches /\ t.holds \in Batches
                           /\ t = [tells |-> t.tells, holds |-> t.holds]

(* The queues, whatever is in them.                                        *)
QueuesTyped ==
    /\ nqMutations \in Seq(Batches) /\ nqRaising \in Seq(Batches) /\ nqNotices \in Seq(Batches)
    /\ \A i \in 1..Len(nqMutations) : nqMutations[i] # {}
    /\ nqMixed \in BOOLEAN

(* What a deletion, its notice and its toast have to do with each other.   *)
QueuesMatch == (nqMixed \/ QueuesAgree \/ PlainTakesOne) /\ ToastHoldsItsOwn

LEMMA SequenceRange == ASSUME NEW S, NEW q \in Seq(S) PROVE ToSet(q) \subseteq S
BY DEF ToSet

LEMMA NQInvParts == RowsInOrder /\ QueuesTyped /\ QueuesMatch => NQInv
<1> SUFFICES ASSUME RowsInOrder, QueuesTyped, QueuesMatch PROVE NQInv
  OBVIOUS
<1>1. \A queue \in {nqMutations, nqRaising, nqNotices} : queue \in Seq(SUBSET TableRows)
  BY DEF QueuesTyped, Batches
<1>2. \A queue \in {nqMutations, nqRaising, nqNotices} : ToSet(queue) \subseteq SUBSET TableRows
  BY <1>1, SequenceRange
<1>3. NQTypeOK
  BY <1>2 DEF NQTypeOK, RowsInOrder, QueuesTyped, Batches
<1>4. QED
  BY <1>1, <1>3 DEF NQInv, QueuesTyped, QueuesMatch

LEMMA NoticeRowsStep == RowsInOrder /\ QueuesTyped /\ [NQNext]_nqVars => RowsInOrder'
<1> SUFFICES ASSUME RowsInOrder, QueuesTyped, [NQNext]_nqVars PROVE RowsInOrder'
  OBVIOUS
<1> USE NoticesAssumption DEF RowsInOrder, Batches
<1>1. ASSUME NEW row \in TableRows, ToggleRow(row) PROVE RowsInOrder'
  BY <1>1 DEF ToggleRow
<1>2. ASSUME NEW rows \in Batches, Deletion(rows) PROVE RowsInOrder'
  BY <1>2 DEF Deletion
<1>3. ASSUME NEW row \in TableRows, DeleteOne(row) PROVE RowsInOrder'
  BY <1>2, <1>3 DEF DeleteOne
<1>4. CASE DeleteSelected
  BY <1>2, <1>4 DEF DeleteSelected
<1>5. CASE ToggleAll \/ UnselectAll \/ RefetchRows
  BY <1>5 DEF ToggleAll, UnselectAll, RefetchRows
<1>6. CASE RaiseUndoable
  BY <1>6 DEF RaiseUndoable
<1>7. CASE RaisePlain
  BY <1>7 DEF RaisePlain
<1>8. CASE ShowNotice
  <2> DEFINE notice == Head(nqNotices)
  <2>1. /\ nqToasts' = IF notice = {} THEN nqToasts
                       ELSE nqToasts \cup {[tells |-> notice, holds |-> NextDeletion]}
        /\ nqNotices # <<>>
        /\ UNCHANGED <<nqShown, nqSelected, nqPlain, nqMade, nqDone>>
    BY <1>8 DEF ShowNotice
  <2>2. notice \in Batches
    BY <2>1 DEF QueuesTyped
  <2>3. NextDeletion \in Batches
    BY DEF NextDeletion, QueuesTyped
  <2> HIDE DEF notice
  <2>4. QED
    BY <2>1, <2>2, <2>3
<1>9. ASSUME NEW t \in nqToasts, ToastGoes(t) \/ Undo(t) PROVE RowsInOrder'
  BY <1>9 DEF ToastGoes, Undo
<1>10. CASE UNCHANGED nqVars
  BY <1>10 DEF nqVars
<1>11. QED
  BY <1>1, <1>3, <1>4, <1>5, <1>6, <1>7, <1>8, <1>9, <1>10 DEF NQNext

(* Most steps leave the queues alone.                                      *)
LEMMA QueuesLeft ==
    ASSUME [NQNext]_nqVars,
           ~ \E rows \in Batches : rows # {} /\ Deletion(rows),
           ~ RaiseUndoable, ~ RaisePlain, ~ ShowNotice, RowsInOrder
    PROVE  /\ UNCHANGED <<nqMutations, nqRaising, nqNotices, nqMixed>>
           /\ nqToasts' \subseteq nqToasts
<1>1. ASSUME NEW row \in TableRows, DeleteOne(row) PROVE FALSE
  BY <1>1 DEF DeleteOne, Batches
<1>2. ASSUME DeleteSelected PROVE FALSE
  BY <1>2 DEF DeleteSelected, Batches, RowsInOrder
<1>3. QED
  BY <1>1, <1>2 DEF NQNext, nqVars, ToggleRow, ToggleAll, UnselectAll, RefetchRows, ToastGoes, Undo

LEMMA TypedStep == RowsInOrder /\ QueuesTyped /\ [NQNext]_nqVars => QueuesTyped'
<1> SUFFICES ASSUME RowsInOrder, QueuesTyped, [NQNext]_nqVars PROVE QueuesTyped'
  OBVIOUS
<1> USE DEF QueuesTyped
<1>1. ASSUME NEW rows \in Batches, rows # {}, Deletion(rows) PROVE QueuesTyped'
  BY <1>1 DEF Deletion
<1>2. CASE RaiseUndoable
  <2>1. /\ nqRaising # <<>> /\ nqRaising' = Tail(nqRaising)
        /\ nqNotices' = Append(nqNotices, Head(nqRaising))
        /\ UNCHANGED <<nqMutations, nqMixed>>
    BY <1>2 DEF RaiseUndoable
  <2>2. Head(nqRaising) \in Batches /\ Tail(nqRaising) \in Seq(Batches)
    BY <2>1
  <2>3. QED
    BY <2>1, <2>2
<1>3. CASE RaisePlain
  <2>1. {} \in Batches
    BY DEF Batches
  <2>2. QED
    BY <1>3, <2>1 DEF RaisePlain
<1>4. CASE ShowNotice
  BY <1>4 DEF ShowNotice
<1>5. QED
  BY <1>1, <1>2, <1>3, <1>4, QueuesLeft

(* What the steps make of the agreement of the queues, by itself.          *)
LEMMA AgreeDeletion ==
    ASSUME QueuesTyped, QueuesAgree, NEW rows \in Batches, Deletion(rows)
    PROVE  QueuesAgree' \/ PlainTakesOne'
<1> DEFINE m == Len(nqMutations)  n == Len(nqNotices)
<1>1. /\ m \in Nat /\ n \in Nat /\ Len(nqRaising) \in Nat
      /\ nqMutations' = Append(nqMutations, rows) /\ Len(nqMutations') = m + 1
      /\ \A i \in 1..m : nqMutations'[i] = nqMutations[i]
      /\ nqMutations'[m + 1] = rows
      /\ nqNotices' = nqNotices
  BY DEF Deletion, QueuesTyped
<1>2. /\ nqRaising' = Append(nqRaising, rows) /\ Len(nqRaising') = Len(nqRaising) + 1
      /\ \A i \in 1..Len(nqRaising) : nqRaising'[i] = nqRaising[i]
      /\ nqRaising'[Len(nqRaising) + 1] = rows
  BY DEF Deletion, QueuesTyped
<1>3. /\ Len(nqRaising) = IF m > n THEN m - n ELSE 0
      /\ \A i \in 1..n : nqNotices[i] = IF i <= m THEN nqMutations[i] ELSE {}
      /\ \A i \in 1..Len(nqRaising) : nqRaising[i] = nqMutations[n + i]
  BY DEF QueuesAgree
<1>4. CASE n > m
  <2>1. m + 1 \in 1..n /\ nqNotices'[m + 1] = {}
    BY <1>1, <1>3, <1>4
  <2>2. \A i \in 1..m : i \in 1..n /\ nqNotices'[i] = nqMutations'[i]
    BY <1>1, <1>3, <1>4
  <2>3. PlainTakesOne'
    BY <1>1, <2>1, <2>2 DEF PlainTakesOne
  <2>4. QED
    BY <2>3
<1>5. CASE n <= m
  <2>1. Len(nqRaising) = m - n
    BY <1>1, <1>3, <1>5
  <2>2. \A i \in 1..n : nqNotices'[i] = nqMutations'[i]
    BY <1>1, <1>3, <1>5
  <2>3. \A i \in 1..(m + 1 - n) : nqRaising'[i] = nqMutations'[n + i]
    <3> SUFFICES ASSUME NEW i \in 1..(m + 1 - n) PROVE nqRaising'[i] = nqMutations'[n + i]
      OBVIOUS
    <3>1. CASE i = m + 1 - n
      BY <1>1, <1>2, <1>5, <2>1, <3>1
    <3>2. CASE i # m + 1 - n
      <4>1. i \in 1..Len(nqRaising) /\ n + i \in 1..m
        BY <1>1, <1>5, <2>1, <3>2
      <4>2. QED
        BY <1>1, <1>2, <1>3, <4>1
    <3>3. QED
      BY <3>1, <3>2
  <2>4. Len(nqRaising') = m + 1 - n /\ m + 1 > n /\ \A i \in 1..n : i <= m + 1
    BY <1>1, <1>2, <1>5, <2>1
  <2>5. QueuesAgree'
    <3>1. Len(nqRaising') = IF Len(nqMutations') > Len(nqNotices')
                            THEN Len(nqMutations') - Len(nqNotices') ELSE 0
      BY <1>1, <2>4
    <3>2. \A i \in 1..Len(nqNotices') :
              nqNotices'[i] = IF i <= Len(nqMutations') THEN nqMutations'[i] ELSE {}
      BY <1>1, <2>2, <2>4
    <3>3. \A i \in 1..Len(nqRaising') : nqRaising'[i] = nqMutations'[Len(nqNotices') + i]
      BY <1>1, <2>3, <2>4
    <3>4. QED
      BY <3>1, <3>2, <3>3 DEF QueuesAgree
  <2>6. QED
    BY <2>5
<1>6. QED
  BY <1>1, <1>4, <1>5

LEMMA AgreeRaise ==
    ASSUME QueuesTyped, QueuesAgree, RaiseUndoable PROVE QueuesAgree'
<1> DEFINE m == Len(nqMutations)  n == Len(nqNotices)
<1>1. /\ m \in Nat /\ n \in Nat /\ Len(nqRaising) \in Nat \ {0}
      /\ nqMutations' = nqMutations
      /\ nqNotices' = Append(nqNotices, Head(nqRaising)) /\ Len(nqNotices') = n + 1
      /\ \A i \in 1..n : nqNotices'[i] = nqNotices[i]
      /\ nqNotices'[n + 1] = nqRaising[1]
  BY DEF RaiseUndoable, QueuesTyped
<1>2. /\ nqRaising' = Tail(nqRaising) /\ Len(nqRaising') = Len(nqRaising) - 1
      /\ \A i \in 1..(Len(nqRaising) - 1) : nqRaising'[i] = nqRaising[i + 1]
  BY <1>1 DEF RaiseUndoable, QueuesTyped
<1>3. /\ Len(nqRaising) = IF m > n THEN m - n ELSE 0
      /\ \A i \in 1..n : nqNotices[i] = IF i <= m THEN nqMutations[i] ELSE {}
      /\ \A i \in 1..Len(nqRaising) : nqRaising[i] = nqMutations[n + i]
  BY DEF QueuesAgree
<1>4. m > n /\ Len(nqRaising) = m - n /\ nqRaising[1] = nqMutations[n + 1]
  BY <1>1, <1>3
<1>5. Len(nqRaising') = IF m > n + 1 THEN m - (n + 1) ELSE 0
  BY <1>1, <1>2, <1>4
<1>6. \A i \in 1..(n + 1) : nqNotices'[i] = IF i <= m THEN nqMutations[i] ELSE {}
  BY <1>1, <1>3, <1>4
<1>7. \A i \in 1..Len(nqRaising') : nqRaising'[i] = nqMutations[n + 1 + i]
  <2> SUFFICES ASSUME NEW i \in 1..Len(nqRaising') PROVE nqRaising'[i] = nqMutations[n + 1 + i]
    OBVIOUS
  <2>1. i + 1 \in 1..Len(nqRaising) /\ nqRaising'[i] = nqRaising[i + 1] /\ n + 1 + i = n + (i + 1)
    BY <1>1, <1>2
  <2>2. QED
    BY <1>3, <2>1
<1>8. QED
  BY <1>1, <1>5, <1>6, <1>7 DEF QueuesAgree

LEMMA AgreePlain ==
    ASSUME QueuesTyped, QueuesAgree, RaisePlain PROVE QueuesAgree' \/ PlainTakesOne'
<1> DEFINE m == Len(nqMutations)  n == Len(nqNotices)
<1>1. /\ m \in Nat /\ n \in Nat /\ Len(nqRaising) \in Nat
      /\ nqMutations' = nqMutations /\ nqRaising' = nqRaising
      /\ nqNotices' = Append(nqNotices, {}) /\ Len(nqNotices') = n + 1
      /\ \A i \in 1..n : nqNotices'[i] = nqNotices[i]
      /\ nqNotices'[n + 1] = {}
  <2>1. {} \in Batches
    BY DEF Batches
  <2>2. QED
    BY <2>1 DEF RaisePlain, QueuesTyped
<1>2. /\ Len(nqRaising) = IF m > n THEN m - n ELSE 0
      /\ \A i \in 1..n : nqNotices[i] = IF i <= m THEN nqMutations[i] ELSE {}
  BY DEF QueuesAgree
<1>3. CASE m > n
  <2>1. n + 1 \in 1..Len(nqNotices') /\ n + 1 <= m
    BY <1>1, <1>3
  <2>2. \A i \in 1..n : nqNotices'[i] = nqMutations'[i]
    BY <1>1, <1>2, <1>3
  <2>3. PlainTakesOne'
    BY <1>1, <2>1, <2>2 DEF PlainTakesOne
  <2>4. QED
    BY <2>3
<1>4. CASE m <= n
  <2>1. Len(nqRaising') = 0 /\ ~ m > n + 1
    BY <1>1, <1>2, <1>4
  <2>2. \A i \in 1..(n + 1) : nqNotices'[i] = IF i <= m THEN nqMutations[i] ELSE {}
    BY <1>1, <1>2, <1>4
  <2>3. QueuesAgree'
    BY <1>1, <2>1, <2>2 DEF QueuesAgree
  <2>4. QED
    BY <2>3
<1>5. QED
  BY <1>1, <1>3, <1>4

(* A deletion that a plain notice will take stays behind it, whatever is   *)
(* added to the queues.                                                    *)
LEMMA DoomStays ==
    ASSUME QueuesTyped, PlainTakesOne,
           RaiseUndoable \/ RaisePlain \/ \E rows \in Batches : Deletion(rows)
    PROVE  PlainTakesOne'
<1>1. PICK k \in 1..Len(nqNotices) :
          /\ k <= Len(nqMutations) /\ nqNotices[k] = {}
          /\ \A i \in 1..(k - 1) : nqNotices[i] = nqMutations[i]
  BY DEF PlainTakesOne
<1>2. {} \in Batches
  BY DEF Batches
<1>3. /\ Len(nqNotices) <= Len(nqNotices') /\ Len(nqNotices') \in Nat /\ Len(nqNotices) \in Nat
      /\ \A i \in 1..Len(nqNotices) : nqNotices'[i] = nqNotices[i]
  <2>1. CASE RaiseUndoable
    <3>1. Head(nqRaising) \in Batches /\ nqNotices' = Append(nqNotices, Head(nqRaising))
      BY <2>1 DEF RaiseUndoable, QueuesTyped
    <3>2. QED
      BY <3>1 DEF QueuesTyped
  <2>2. CASE RaisePlain
    BY <1>2, <2>2 DEF RaisePlain, QueuesTyped
  <2>3. ASSUME NEW rows \in Batches, Deletion(rows)
        PROVE  nqNotices' = nqNotices /\ Len(nqNotices) \in Nat
    BY <2>3 DEF Deletion, QueuesTyped
  <2>4. QED
    BY <2>1, <2>2, <2>3
<1>4. /\ Len(nqMutations) <= Len(nqMutations') /\ Len(nqMutations') \in Nat /\ Len(nqMutations) \in Nat
      /\ \A i \in 1..Len(nqMutations) : nqMutations'[i] = nqMutations[i]
  <2>1. CASE RaiseUndoable \/ RaisePlain
    BY <2>1 DEF RaiseUndoable, RaisePlain, QueuesTyped
  <2>2. ASSUME NEW rows \in Batches, Deletion(rows)
        PROVE  /\ Len(nqMutations) <= Len(nqMutations') /\ Len(nqMutations') \in Nat /\ Len(nqMutations) \in Nat
               /\ \A i \in 1..Len(nqMutations) : nqMutations'[i] = nqMutations[i]
    BY <2>2 DEF Deletion, QueuesTyped
  <2>3. QED
    BY <2>1, <2>2
<1>5. k \in 1..Len(nqNotices') /\ k <= Len(nqMutations') /\ nqNotices'[k] = {}
  BY <1>1, <1>3, <1>4
<1>6. \A i \in 1..(k - 1) : nqNotices'[i] = nqMutations'[i]
  <2> SUFFICES ASSUME NEW i \in 1..(k - 1) PROVE nqNotices'[i] = nqMutations'[i]
    OBVIOUS
  <2>1. i \in 1..Len(nqNotices) /\ i \in 1..Len(nqMutations)
    BY <1>1, <1>3, <1>4
  <2>2. QED
    BY <1>1, <1>3, <1>4, <2>1
<1>7. QED
  BY <1>5, <1>6 DEF PlainTakesOne

(* A notice that is shown takes its own deletion, or the plain one that    *)
(* takes another's is first and the mixing is recorded.                    *)
LEMMA ShowMatches ==
    ASSUME QueuesTyped, QueuesMatch, ShowNotice PROVE QueuesMatch'
<1> DEFINE m == Len(nqMutations)  n == Len(nqNotices)  notice == Head(nqNotices)
<1>1. /\ m \in Nat /\ n \in Nat \ {0} /\ notice = nqNotices[1]
      /\ nqNotices' = Tail(nqNotices) /\ Len(nqNotices') = n - 1
      /\ \A i \in 1..(n - 1) : nqNotices'[i] = nqNotices[i + 1]
  BY DEF ShowNotice, QueuesTyped
<1>2. /\ nqMutations' = IF nqMutations = <<>> THEN <<>> ELSE Tail(nqMutations)
      /\ Len(nqMutations') = IF m = 0 THEN 0 ELSE m - 1
      /\ m > 0 => \A i \in 1..(m - 1) : nqMutations'[i] = nqMutations[i + 1]
      /\ m > 0 => NextDeletion = nqMutations[1] /\ nqMutations # <<>> /\ nqMutations[1] # {}
  BY DEF ShowNotice, QueuesTyped, NextDeletion
<1>3. /\ nqToasts' = IF notice = {} THEN nqToasts
                     ELSE nqToasts \cup {[tells |-> notice, holds |-> NextDeletion]}
      /\ nqMixed' = (nqMixed \/ (notice = {} /\ nqMutations # <<>>))
      /\ nqRaising' = nqRaising
  BY DEF ShowNotice
<1> HIDE DEF notice, m, n
<1>4. CASE nqMixed
  <2>1. nqMixed'
    BY <1>3, <1>4
  <2>2. QED
    BY <2>1 DEF QueuesMatch, ToastHoldsItsOwn
<1>5. CASE ~ nqMixed /\ m > 0 /\ notice = {}
  <2>1. nqMixed'
    BY <1>2, <1>3, <1>5
  <2>2. QED
    BY <2>1 DEF QueuesMatch, ToastHoldsItsOwn
<1>6. CASE ~ nqMixed /\ ~ (m > 0 /\ notice = {}) /\ QueuesAgree
  <2>1. /\ Len(nqRaising) = IF m > n THEN m - n ELSE 0
        /\ \A i \in 1..n : nqNotices[i] = IF i <= m THEN nqMutations[i] ELSE {}
        /\ \A i \in 1..Len(nqRaising) : nqRaising[i] = nqMutations[n + i]
    BY <1>6 DEF QueuesAgree, m, n
  <2>2. notice = {} \/ notice = NextDeletion
    BY <1>1, <1>2, <1>6, <2>1
  <2>3. ToastHoldsItsOwn'
    BY <1>3, <1>6, <2>2 DEF QueuesMatch, ToastHoldsItsOwn
  <2>4. Len(nqRaising') = IF Len(nqMutations') > Len(nqNotices')
                          THEN Len(nqMutations') - Len(nqNotices') ELSE 0
    <3>1. CASE m > n
      <4>1. Len(nqRaising') = m - n
        BY <1>3, <2>1, <3>1
      <4>2. Len(nqMutations') = m - 1 /\ Len(nqNotices') = n - 1
        BY <1>1, <1>2, <3>1
      <4>3. m - n = (m - 1) - (n - 1) /\ m - 1 > n - 1
        BY <1>1, <3>1
      <4>4. QED
        BY <4>1, <4>2, <4>3
    <3>2. CASE m <= n
      <4>1. Len(nqRaising') = 0 /\ ~ (Len(nqMutations') > Len(nqNotices'))
        BY <1>1, <1>2, <1>3, <2>1, <3>2
      <4>2. QED
        BY <4>1
    <3>3. QED
      BY <1>1, <3>1, <3>2
  <2>5. \A i \in 1..Len(nqNotices') :
            nqNotices'[i] = IF i <= Len(nqMutations') THEN nqMutations'[i] ELSE {}
    <3> SUFFICES ASSUME NEW i \in 1..(n - 1)
                 PROVE  nqNotices'[i] = IF i <= Len(nqMutations') THEN nqMutations'[i] ELSE {}
      BY <1>1
    <3>1. i + 1 \in 1..n /\ nqNotices'[i] = nqNotices[i + 1]
      BY <1>1
    <3>2. nqNotices[i + 1] = IF i + 1 <= m THEN nqMutations[i + 1] ELSE {}
      BY <2>1, <3>1
    <3>3. CASE i + 1 <= m
      <4>1. i \in 1..(m - 1) /\ m > 0 /\ i <= Len(nqMutations')
        BY <1>1, <1>2, <3>3
      <4>2. QED
        BY <1>2, <3>1, <3>2, <3>3, <4>1
    <3>4. CASE ~ (i + 1 <= m)
      <4>1. ~ (i <= Len(nqMutations'))
        BY <1>1, <1>2, <3>4
      <4>2. QED
        BY <3>1, <3>2, <3>4, <4>1
    <3>5. QED
      BY <3>3, <3>4
  <2>6. \A i \in 1..Len(nqRaising') : nqRaising'[i] = nqMutations'[Len(nqNotices') + i]
    <3> SUFFICES ASSUME NEW i \in 1..Len(nqRaising)
                 PROVE  nqRaising[i] = nqMutations'[n - 1 + i]
      BY <1>1, <1>3
    <3>1. m > n /\ Len(nqRaising) = m - n
      BY <1>1, <2>1
    <3>2. n - 1 + i \in 1..(m - 1) /\ (n - 1 + i) + 1 = n + i
      BY <1>1, <3>1
    <3>3. nqMutations'[n - 1 + i] = nqMutations[(n - 1 + i) + 1]
      BY <1>1, <1>2, <3>1, <3>2
    <3>4. QED
      BY <2>1, <3>2, <3>3
  <2>7. QED
    BY <2>3, <2>4, <2>5, <2>6 DEF QueuesMatch, QueuesAgree
<1>7. CASE ~ nqMixed /\ ~ (m > 0 /\ notice = {}) /\ PlainTakesOne
  <2>1. PICK k \in 1..n : /\ k <= m /\ nqNotices[k] = {}
                          /\ \A i \in 1..(k - 1) : nqNotices[i] = nqMutations[i]
    BY <1>7 DEF PlainTakesOne, m, n
  <2>2. k > 1 /\ m > 0 /\ 1 \in 1..(k - 1)
    BY <1>1, <1>7, <2>1
  <2>3. notice = NextDeletion
    BY <1>1, <1>2, <2>1, <2>2
  <2>4. ToastHoldsItsOwn'
    BY <1>3, <1>7, <2>3 DEF QueuesMatch, ToastHoldsItsOwn
  <2>5. k - 1 \in 1..Len(nqNotices') /\ k - 1 <= Len(nqMutations') /\ nqNotices'[k - 1] = {}
    <3>1. k - 1 \in 1..(n - 1) /\ k - 1 <= m - 1 /\ (k - 1) + 1 = k
      BY <1>1, <2>1, <2>2
    <3>2. nqNotices'[k - 1] = nqNotices[(k - 1) + 1]
      BY <1>1, <3>1
    <3>3. QED
      BY <1>1, <1>2, <2>1, <2>2, <3>1, <3>2
  <2>6. \A i \in 1..((k - 1) - 1) : nqNotices'[i] = nqMutations'[i]
    <3> SUFFICES ASSUME NEW i \in 1..((k - 1) - 1) PROVE nqNotices'[i] = nqMutations'[i]
      OBVIOUS
    <3>1. i + 1 \in 1..(k - 1) /\ i \in 1..(n - 1) /\ i \in 1..(m - 1)
      BY <1>1, <2>1
    <3>2. QED
      BY <1>1, <1>2, <2>1, <2>2, <3>1
  <2>7. PlainTakesOne'
    BY <2>5, <2>6 DEF PlainTakesOne
  <2>8. QED
    BY <2>4, <2>7 DEF QueuesMatch
<1>8. QED
  BY <1>4, <1>5, <1>6, <1>7 DEF QueuesMatch

LEMMA MatchStep == RowsInOrder /\ QueuesTyped /\ QueuesMatch /\ [NQNext]_nqVars => QueuesMatch'
<1> SUFFICES ASSUME RowsInOrder, QueuesTyped, QueuesMatch, [NQNext]_nqVars PROVE QueuesMatch'
  OBVIOUS
<1>1. CASE RaiseUndoable \/ RaisePlain \/ \E rows \in Batches : Deletion(rows)
  <2>1. UNCHANGED <<nqToasts, nqMixed>>
    BY <1>1 DEF RaiseUndoable, RaisePlain, Deletion
  <2>2. ToastHoldsItsOwn'
    BY <2>1 DEF QueuesMatch, ToastHoldsItsOwn
  <2>3. nqMixed \/ QueuesAgree \/ PlainTakesOne
    BY DEF QueuesMatch
  <2>4. nqMixed' \/ QueuesAgree' \/ PlainTakesOne'
    BY <1>1, <2>1, <2>3, AgreeDeletion, AgreeRaise, AgreePlain, DoomStays
  <2>5. QED
    BY <2>2, <2>4 DEF QueuesMatch
<1>2. CASE ShowNotice
  BY <1>2, ShowMatches
<1>3. CASE UNCHANGED <<nqMutations, nqRaising, nqNotices, nqMixed>> /\ nqToasts' \subseteq nqToasts
  BY <1>3 DEF QueuesMatch, QueuesAgree, PlainTakesOne, ToastHoldsItsOwn
<1>4. QED
  BY <1>1, <1>2, <1>3, QueuesLeft

(* The queues of deletions and notices, for any number of rows.            *)
THEOREM NoticesInvariance == NQSpec => []NQInv
<1>1. NQInit => RowsInOrder /\ QueuesTyped /\ QueuesMatch
  <2> SUFFICES ASSUME NQInit PROVE RowsInOrder /\ QueuesTyped /\ QueuesMatch
    OBVIOUS
  <2> USE DEF NQInit
  <2>1. RowsInOrder
    BY NoticesAssumption DEF RowsInOrder, Batches
  <2>2. QueuesTyped
    <3>1. nqMutations = <<>> /\ nqRaising = <<>> /\ nqNotices = <<>> /\ nqMixed = FALSE
      OBVIOUS
    <3>2. <<>> \in Seq(Batches)
      OBVIOUS
    <3>3. \A i \in 1..Len(nqMutations) : FALSE
      BY <3>1
    <3>4. QED
      BY <3>1, <3>2, <3>3 DEF QueuesTyped
  <2>3. QueuesMatch
    BY DEF QueuesMatch, QueuesAgree, ToastHoldsItsOwn
  <2>4. QED
    BY <2>1, <2>2, <2>3
<1>2. QED
  BY <1>1, NoticeRowsStep, TypedStep, MatchStep, NQInvParts, PTL DEF NQSpec

(* The undo button of a toast undoes the deletion the toast tells of, as   *)
(* long as no plain notice was shown while a deletion waited for its own   *)
(* (notification.tsx).                                                     *)
THEOREM ToastsSafe == NQSpec => []ToastHoldsItsOwn
<1>1. NQInv => ToastHoldsItsOwn
  BY DEF NQInv
<1>2. QED
  BY <1>1, NoticesInvariance, PTL

-----------------------------------------------------------------------------
(* ListQueries                                                             *)

(* Page n exists exactly if there are more rows than n - 1 pages hold.     *)
LEMMA PagesBefore ==
    ASSUME NEW page \in Nat, NEW total \in Nat, NEW limit \in Nat \ {0}
    PROVE  /\ TotalPages(total, limit) \in Nat
           /\ HasNextPage(page, total, limit) <=> page * limit < total
<1> DEFINE d == (total + limit - 1) \div limit
<1>1. d \in Nat /\ limit * d <= total + limit - 1 /\ total + limit - 1 < limit * d + limit
  OBVIOUS
<1> HIDE DEF d
<1>2. CASE page < d
  <2>1. PICK k \in Nat : d = page + 1 + k
    <3>1. d - page - 1 \in Nat /\ d = page + 1 + (d - page - 1)
      BY <1>1, <1>2
    <3>2. QED
      BY <3>1
  <2>2. limit * d = limit * page + limit + limit * k /\ limit * k \in Nat
    BY <2>1
  <2>3. limit * page = page * limit /\ page * limit \in Nat
    OBVIOUS
  <2>4. page * limit < total
    BY <1>1, <2>2, <2>3
  <2>5. QED
    BY <1>2, <2>4 DEF HasNextPage, TotalPages, d
<1>3. CASE d <= page
  <2>1. PICK k \in Nat : page = d + k
    <3>1. page - d \in Nat /\ page = d + (page - d)
      BY <1>1, <1>3
    <3>2. QED
      BY <3>1
  <2>2. page * limit = limit * d + limit * k /\ limit * k \in Nat
    BY <1>1, <2>1
  <2>3. ~ (page * limit < total)
    BY <1>1, <2>2
  <2>4. QED
    BY <1>1, <1>3, <2>3 DEF HasNextPage, TotalPages, d
<1>4. QED
  BY <1>1, <1>2, <1>3 DEF TotalPages, d

(* A query the console asks, and what the API makes of it.                 *)
Queried == [resource : Resources, page : 1..(MaxRows + 1),
            perPage : PageSizes \cup {DefaultLimit}, search : BOOLEAN, sort : Sorts]

LEMMA AnsweredQuery ==
    ASSUME lqRows \in Seq({1, 2}), NEW p \in Queried
    PROVE  LET q == GetList(p)
           IN  /\ q \in [hits : SUBSET Rows, sort : Sorts, page : Nat \ {0},
                         limit : Nat \ {0}, fails : BOOLEAN]
               /\ p.resource = "providers" => q.page = 1
               /\ p.resource # "providers" => q.page = p.page /\ q.limit = p.perPage
<1>1. MaxRows \in Nat /\ PageSizes \subseteq Nat \ {0} /\ DefaultLimit \in Nat \ {0}
  BY PagesAssumption
<1>2. p.page \in Nat \ {0} /\ p.perPage \in Nat \ {0} /\ p.sort \in Sorts /\ p.search \in BOOLEAN
  <2>1. /\ p.page \in 1..(MaxRows + 1) /\ p.perPage \in PageSizes \cup {DefaultLimit}
        /\ p.search \in BOOLEAN /\ p.sort \in Sorts
    BY DEF Queried
  <2>2. p.page \in Nat \ {0}
    BY <1>1, <2>1
  <2>3. p.perPage \in Nat \ {0}
    BY <1>1, <2>1
  <2>4. QED
    BY <2>1, <2>2, <2>3
<1>3. OfKind1 \subseteq Rows /\ Searched(p) \subseteq Rows
  BY DEF OfKind1, Searched
<1>4. Unsortable(p) \in BOOLEAN /\ "none" \in Sorts
  BY DEF Unsortable, Sorts
<1>5. CASE p.resource = "accounts"
  BY <1>1, <1>2, <1>3, <1>4, <1>5 DEF GetList, ListAllAccounts, ListAccountsInternal
<1>6. CASE p.resource = "workspaces"
  BY <1>1, <1>2, <1>3, <1>4, <1>6 DEF GetList, ListWorkspaces
<1>7. CASE p.resource = "principals"
  BY <1>1, <1>2, <1>3, <1>4, <1>7 DEF GetList, ListPrincipals
<1>8. CASE p.resource = "regions"
  BY <1>1, <1>2, <1>3, <1>4, <1>8 DEF GetList, ListPlatformProviderRegions
<1>9. CASE p.resource = "providers"
  BY <1>1, <1>2, <1>3, <1>4, <1>9 DEF GetList, ListPlatformProviders
<1>10. QED
  BY <1>5, <1>6, <1>7, <1>8, <1>9 DEF Queried, Resources

(* The hits of a query are finitely many, at most one for every row.       *)
LEMMA HitsFinite ==
    ASSUME lqRows \in Seq({1, 2}), NEW p \in Queried
    PROVE  LET hits == GetList(p).hits
           IN  /\ IsFiniteSet(hits) /\ hits \subseteq Nat
               /\ Cardinality(hits) \in 0..Len(lqRows)
<1> DEFINE n == Len(lqRows)
<1>1. GetList(p).hits \subseteq 1..n /\ n \in Nat
  BY AnsweredQuery DEF Rows
<1> HIDE DEF n
<1>2. IsFiniteSet(1..n) /\ Cardinality(1..n) = n
  BY <1>1, FS_Interval
<1>3. QED
  BY <1>1, <1>2, FS_Subset, FS_CardinalityType DEF n

(* An insert only adds hits.                                               *)
LEMMA HitsGrow ==
    ASSUME lqRows \in Seq({1, 2}), NEW kind \in {1, 2}, lqRows' = Append(lqRows, kind),
           NEW p \in Queried
    PROVE  LET q == GetList(p)
               r == GetList(p)'
           IN  /\ q.hits \subseteq r.hits /\ r.hits \subseteq 1..(Len(lqRows) + 1)
               /\ r.sort = q.sort /\ r.page = q.page /\ r.limit = q.limit
<1>1. /\ Rows \subseteq Rows' /\ OfKind1 \subseteq OfKind1'
      /\ Rows' \subseteq 1..(Len(lqRows) + 1) /\ OfKind1' \subseteq 1..(Len(lqRows) + 1)
  BY DEF Rows, OfKind1
<1>2. Searched(p) \subseteq Searched(p)' /\ Searched(p)' \subseteq 1..(Len(lqRows) + 1)
  BY <1>1 DEF Searched
<1>3. CASE p.resource = "accounts"
  BY <1>1, <1>2, <1>3 DEF GetList, ListAllAccounts, ListAccountsInternal
<1>4. CASE p.resource = "workspaces"
  BY <1>1, <1>2, <1>4 DEF GetList, ListWorkspaces
<1>5. CASE p.resource = "principals"
  BY <1>1, <1>2, <1>5 DEF GetList, ListPrincipals
<1>6. CASE p.resource = "regions"
  BY <1>1, <1>2, <1>6 DEF GetList, ListPlatformProviderRegions
<1>7. CASE p.resource = "providers"
  BY <1>1, <1>2, <1>7 DEF GetList, ListPlatformProviders
<1>8. QED
  BY <1>3, <1>4, <1>5, <1>6, <1>7 DEF Queried, Resources

(* The place of a row is at least 1 and at most the number of hits.        *)
LEMMA PlaceBounds ==
    ASSUME NEW hits \in SUBSET Nat, IsFiniteSet(hits), NEW sort, NEW r \in hits
    PROVE  Place(hits, sort, r) \in 1..Cardinality(hits)
<1> DEFINE H == {h \in hits : IF sort = "oldest" THEN h <= r ELSE h >= r}
<1>1. IsFiniteSet(H) /\ Cardinality(H) <= Cardinality(hits)
  BY FS_Subset
<1>2. r \in H
  OBVIOUS
<1>3. Cardinality(H) # 0
  BY <1>1, <1>2, FS_EmptySet
<1>4. Cardinality(H) \in Nat /\ Cardinality(hits) \in Nat
  BY <1>1, FS_CardinalityType
<1>5. QED
  BY <1>1, <1>3, <1>4 DEF Place

(* A place only grows with the hits.                                       *)
LEMMA PlaceGrows ==
    ASSUME NEW less, NEW more, less \subseteq more, IsFiniteSet(more), NEW sort, NEW r
    PROVE  /\ Place(less, sort, r) \in Nat /\ Place(more, sort, r) \in Nat
           /\ Place(less, sort, r) <= Place(more, sort, r)
<1> DEFINE H(hits) == {h \in hits : IF sort = "oldest" THEN h <= r ELSE h >= r}
<1>1. H(less) \subseteq H(more) /\ H(more) \subseteq more
  OBVIOUS
<1>2. IsFiniteSet(H(more))
  BY <1>1, FS_Subset
<1>3. IsFiniteSet(H(less)) /\ Cardinality(H(less)) <= Cardinality(H(more))
  BY <1>1, <1>2, FS_Subset
<1>4. QED
  BY <1>2, <1>3, FS_CardinalityType DEF Place

(* In an order without ties, the row of a place is at it.                  *)
LEMMA RowAtItsPlace ==
    ASSUME NEW hits \in SUBSET Nat, IsFiniteSet(hits), NEW sort \in {"oldest", "newest"},
           NEW o \in Orders(hits, sort), NEW r \in hits
    PROVE  o[Place(hits, sort, r)] = r
<1> DEFINE n == Cardinality(hits)
           H == {h \in hits : IF sort = "oldest" THEN h <= r ELSE h >= r}
<1>1. n \in Nat /\ o \in [1..n -> hits]
  BY FS_CardinalityType DEF Orders
<1>2. \A i, j \in 1..n : i < j => IF sort = "oldest" THEN o[i] < o[j] ELSE o[i] > o[j]
  BY <1>1 DEF Orders, Admitted
<1>3. o \in Surjection(1..n, hits)
  <2>1. \A i, j \in 1..n : o[i] = o[j] => i = j
    <3>1. \A i \in 1..n : o[i] \in Nat
      BY <1>1
    <3>2. QED
      BY <1>1, <1>2, <3>1
  <2>2. o \in Injection(1..n, hits)
    BY <1>1, <2>1 DEF Injection, IsInjective
  <2>3. Cardinality(1..n) = n
    BY <1>1, FS_Interval
  <2>4. QED
    BY <2>2, <2>3, FS_Injection
<1>4. PICK k \in 1..n : o[k] = r
  BY <1>3 DEF Surjection
<1>5. \A i \in 1..n : o[i] \in H <=> i <= k
  <2>1. \A i \in 1..n : o[i] \in Nat
    BY <1>1
  <2>2. \A i \in 1..n : i <= k => IF sort = "oldest" THEN o[i] <= r ELSE o[i] >= r
    BY <1>1, <1>2, <1>4, <2>1
  <2>3. \A i \in 1..n : k < i => IF sort = "oldest" THEN o[i] > r ELSE o[i] < r
    BY <1>1, <1>2, <1>4, <2>1
  <2>4. QED
    BY <1>1, <1>4, <2>1, <2>2, <2>3
<1>6. H \subseteq hits
  OBVIOUS
<1> HIDE DEF H
<1>7. Cardinality(H) = k
  <2> DEFINE f == [i \in 1..k |-> o[i]]
  <2>1. f \in Bijection(1..k, H)
    <3>1. f \in [1..k -> H]
      BY <1>1, <1>4, <1>5
    <3>2. \A i, j \in 1..k : f[i] = f[j] => i = j
      <4>1. \A i \in 1..n : o[i] \in Nat
        BY <1>1
      <4>2. QED
        BY <1>1, <1>2, <1>4, <4>1
    <3>3. \A h \in H : \E i \in 1..k : f[i] = h
      BY <1>1, <1>3, <1>4, <1>5, <1>6 DEF Surjection
    <3>4. QED
      BY <3>1, <3>2, <3>3 DEF Bijection, Injection, IsInjective, Surjection
  <2>2. IsFiniteSet(1..k) /\ Cardinality(1..k) = k
    BY <1>1, <1>4, FS_Interval
  <2>3. ExistsBijection(1..k, H)
    BY <2>1 DEF ExistsBijection
  <2>4. QED
    BY <2>2, <2>3, FS_Bijection
<1>8. QED
  BY <1>4, <1>7 DEF Place, H

(* A page holds the rows of its places.                                    *)
HoldsPlaces(page, o, hits, offset, limit) ==
    LET n == Cardinality(hits)
    IN  /\ page \in Seq(hits)
        /\ Len(page) = IF offset + limit <= n THEN limit ELSE n - offset
        /\ \A i \in 1..n : offset < i /\ i <= offset + limit
              => \E j \in DOMAIN page : page[j] = o[i]

LEMMA PageHoldsPlaces ==
    ASSUME NEW hits \in SUBSET Nat, IsFiniteSet(hits), NEW sort, NEW o \in Orders(hits, sort),
           NEW offset \in 0..Cardinality(hits), NEW limit \in Nat
    PROVE  HoldsPlaces(PageOf(o, offset, limit), o, hits, offset, limit)
<1> DEFINE n == Cardinality(hits)
           last == Min({offset + limit, Len(o)})
           page == PageOf(o, offset, limit)
<1>1. n \in Nat /\ o \in [1..n -> hits] /\ Len(o) = n /\ o \in Seq(hits)
  <2>1. n \in Nat /\ o \in [1..n -> hits]
    BY FS_CardinalityType DEF Orders
  <2> HIDE DEF n
  <2>2. QED
    BY <2>1
<1>2. last = IF offset + limit <= n THEN offset + limit ELSE n
  <2>1. {offset + limit, n} \in SUBSET Nat /\ {offset + limit, n} # {}
    BY <1>1
  <2>2. Min({offset + limit, n}) \in {offset + limit, n}
        /\ \A y \in {offset + limit, n} : Min({offset + limit, n}) <= y
    BY <2>1, MinIsLeast
  <2>3. QED
    BY <1>1, <2>2
<1>3. offset \in Nat /\ last \in Nat /\ last <= n /\ offset <= last
  BY <1>1, <1>2
<1>4. page = SubSeq(o, offset + 1, last)
  BY DEF PageOf
<1> HIDE DEF n, last
<1>5. \A i \in (offset + 1)..last : o[i] \in hits
  BY <1>1, <1>3
<1>6. /\ page \in Seq(hits)
      /\ Len(page) = last - offset
      /\ \A i \in 1..(last - offset) : page[i] = o[offset + i]
  <2>1. offset + 1 \in Int /\ last \in Int
    BY <1>3
  <2>2. /\ SubSeq(o, offset + 1, last) \in Seq(hits)
        /\ Len(SubSeq(o, offset + 1, last)) = IF offset + 1 <= last THEN last - (offset + 1) + 1 ELSE 0
        /\ \A i \in 1 .. last - (offset + 1) + 1 :
              SubSeq(o, offset + 1, last)[i] = o[(offset + 1) + i - 1]
    BY <2>1, <1>5, SubSeqProperties
  <2> HIDE DEF page
  <2>3. last - (offset + 1) + 1 = last - offset
    BY <1>3
  <2>4. \A i \in 1..(last - offset) : (offset + 1) + i - 1 = offset + i
    BY <1>3
  <2>5. QED
    BY <1>3, <1>4, <2>2, <2>3, <2>4
<1> HIDE DEF page
<1>7. \A i \in 1..n : offset < i /\ i <= offset + limit => \E j \in DOMAIN page : page[j] = o[i]
  <2> TAKE i \in 1..n
  <2> HAVE offset < i /\ i <= offset + limit
  <2>1. i - offset \in 1..(last - offset) /\ offset + (i - offset) = i
    BY <1>1, <1>2, <1>3
  <2>2. i - offset \in DOMAIN page
    BY <1>6, <2>1
  <2>3. QED
    BY <1>6, <2>1, <2>2
<1>8. QED
  BY <1>1, <1>2, <1>3, <1>6, <1>7 DEF n, page, HoldsPlaces

(* The query of the list page, in a state of the invariant.                *)
LEMMA AskedShape ==
    ASSUME LQShape, lqAsked.resource # "none"
    PROVE  /\ lqAsked \in Queried
           /\ Asked \in [hits : SUBSET Rows, sort : Sorts, page : Nat \ {0},
                         limit : Nat \ {0}, fails : BOOLEAN]
           /\ lqAsked.resource = "providers" => Asked.page = 1
           /\ lqAsked.resource # "providers"
                 => Asked.page = lqAsked.page /\ Asked.limit = lqAsked.perPage
           /\ IsFiniteSet(Asked.hits) /\ Asked.hits \subseteq Nat
           /\ Cardinality(Asked.hits) \in 0..Len(lqRows)
           /\ Offset \in Nat /\ Offset = (Asked.page - 1) * Asked.limit
           /\ Offset + Asked.limit = Asked.page * Asked.limit
<1>1. lqAsked \in Queried /\ lqRows \in Seq({1, 2})
  BY DEF LQShape, Queried
<1>2. /\ Asked \in [hits : SUBSET Rows, sort : Sorts, page : Nat \ {0},
                    limit : Nat \ {0}, fails : BOOLEAN]
      /\ lqAsked.resource = "providers" => Asked.page = 1
      /\ lqAsked.resource # "providers"
            => Asked.page = lqAsked.page /\ Asked.limit = lqAsked.perPage
  BY <1>1, AnsweredQuery DEF Asked
<1>3. /\ IsFiniteSet(Asked.hits) /\ Asked.hits \subseteq Nat
      /\ Cardinality(Asked.hits) \in 0..Len(lqRows)
  BY <1>1, HitsFinite DEF Asked
<1>4. Asked.page - 1 \in Nat /\ Asked.limit \in Nat /\ Asked.page \in Nat
  BY <1>2
<1>5. /\ (Asked.page - 1) * Asked.limit \in Nat
      /\ (Asked.page - 1) * Asked.limit + Asked.limit = Asked.page * Asked.limit
  BY <1>4
<1>6. QED
  BY <1>1, <1>2, <1>3, <1>5 DEF Offset, OffsetPagination

(* A query is answered from the rows alone.                                *)
LEMMA AskedNow ==
    ASSUME lqRows' = lqRows, NEW p, lqAsked' = p
    PROVE  Asked' = GetList(p)
BY DEF Asked, GetList, ListAllAccounts, ListAccountsInternal, ListWorkspaces, ListPrincipals,
       ListPlatformProviderRegions, ListPlatformProviders, Searched, Unsortable, OfKind1, Rows

(* Nothing is asked and nobody walks at first.                             *)
LEMMA InvariantAtFirst == LQInit => LQInv
<1> SUFFICES ASSUME LQInit PROVE LQInv
  OBVIOUS
<1>1. MaxRows \in Nat /\ lqRows \in Seq({1, 2}) /\ Len(lqRows) <= MaxRows
  BY PagesAssumption DEF LQInit
<1>2. /\ lqAsked.resource = "none" /\ lqAsked.page = 1
      /\ lqAsked \in [resource : Resources \cup {"none"}, page : 1..(MaxRows + 1),
                      perPage : PageSizes \cup {DefaultLimit}, search : BOOLEAN, sort : Sorts]
  BY <1>1 DEF LQInit, Sorts
<1>3. LQShape
  BY <1>1, <1>2 DEF LQInit, LQShape, Pending, Nothing, NoWalk
<1>4. QED
  BY <1>2, <1>3 DEF LQInit, LQInv, AnswersAgree, RangeFits, WalkInOrder, WalkSeesAll, Nothing, NoWalk

(* A row moves places only towards the end, and an answer that is half     *)
(* there is raced by it.                                                   *)
LEMMA InsertKeeps ==
    ASSUME LQInv, NEW kind \in {1, 2}, Insert(kind)
    PROVE  LQInv'
<1>1. /\ lqRows' = Append(lqRows, kind) /\ Len(lqRows) < MaxRows
      /\ lqFetch' = [lqFetch EXCEPT !.raced = @ \/ (lqFetch.counted # lqFetch.found)]
      /\ lqAsked' = lqAsked /\ lqShown' = lqShown /\ lqWalk' = lqWalk
  BY DEF Insert
<1>2. lqRows \in Seq({1, 2}) /\ MaxRows \in Nat
  BY PagesAssumption DEF LQInv, LQShape
<1>3. lqRows' \in Seq({1, 2}) /\ Len(lqRows') = Len(lqRows) + 1 /\ Len(lqRows) \in Nat
  BY <1>1, <1>2
<1>4. Rows \subseteq Rows'
  BY <1>1, <1>2 DEF Rows
<1>5. lqFetch \in [pc : {"pending", "done"}, count : Nat, rows : Seq(Rows),
                   counted : BOOLEAN, found : BOOLEAN, raced : BOOLEAN]
  BY DEF LQInv, LQShape
<1>6. /\ lqFetch'.pc = lqFetch.pc /\ lqFetch'.count = lqFetch.count
      /\ lqFetch'.rows = lqFetch.rows /\ lqFetch'.counted = lqFetch.counted
      /\ lqFetch'.found = lqFetch.found
      /\ lqFetch'.raced <=> (lqFetch.raced \/ (lqFetch.counted # lqFetch.found))
  BY <1>1, <1>5
<1>7. LQShape'
  <2>1. \A s \in Seq(Rows) : s \in Seq(Rows')
    BY <1>4
  <2>2. lqFetch' \in [pc : {"pending", "done"}, count : Nat, rows : Seq(Rows'),
                      counted : BOOLEAN, found : BOOLEAN, raced : BOOLEAN]
    BY <1>1, <1>5, <2>1
  <2>3. lqShown \in [pc : {"nothing", "page", "error"}, rows : Seq(Rows'), total : Nat,
                     hasNextPage : BOOLEAN, hasPreviousPage : BOOLEAN]
    BY <2>1 DEF LQInv, LQShape
  <2>4. lqWalk \in [on : BOOLEAN, first : SUBSET Rows', seen : SUBSET Rows', raced : BOOLEAN]
    BY <1>4 DEF LQInv, LQShape
  <2>5. Len(lqRows') <= MaxRows
    BY <1>1, <1>2, <1>3
  <2>6. QED
    BY <1>1, <1>3, <2>2, <2>3, <2>4, <2>5 DEF LQInv, LQShape, Nothing
<1>8. RangeFits'
  BY <1>1, <1>6 DEF LQInv, RangeFits, PageStart, PageEnd
<1>9. CASE lqAsked.resource = "none"
  <2>1. lqWalk.on = FALSE
    BY <1>9 DEF LQInv, WalkInOrder, LQShape
  <2>2. lqShown.pc # "page"
    BY <1>9 DEF LQInv, LQShape, Nothing
  <2>3. QED
    BY <1>1, <1>7, <1>8, <1>9, <2>1, <2>2 DEF LQInv, AnswersAgree, WalkInOrder, WalkSeesAll
<1>10. CASE lqAsked.resource # "none"
  <2>1. LQShape
    BY DEF LQInv
  <2>2. /\ lqAsked \in Queried
        /\ Cardinality(Asked.hits) \in Nat
        /\ Offset \in Nat /\ Asked.limit \in Nat
    BY <1>10, <2>1, AskedShape
  <2>3. /\ Asked.hits \subseteq Asked'.hits /\ Asked'.hits \subseteq 1..(Len(lqRows) + 1)
        /\ Asked'.sort = Asked.sort /\ Asked'.page = Asked.page /\ Asked'.limit = Asked.limit
    BY <1>1, <1>2, <2>2, HitsGrow DEF Asked
  <2>4. IsFiniteSet(Asked'.hits) /\ Cardinality(Asked'.hits) \in Nat
    <3>1. IsFiniteSet(1..(Len(lqRows) + 1))
      BY <1>3, FS_Interval
    <3>2. QED
      BY <2>3, <3>1, FS_Subset, FS_CardinalityType
  <2>5. Cardinality(Asked.hits) <= Cardinality(Asked'.hits)
    BY <2>3, <2>4, FS_Subset
  <2>6. Offset' = Offset
    BY <2>3 DEF Offset
  <2>7. \A n : PageLength(n)' = PageLength(n)
    BY <2>3, <2>6 DEF PageLength
  <2>8. AnswersAgree'
    BY <1>1, <1>5, <1>6, <1>10, <2>2, <2>4, <2>5, <2>6, <2>7 DEF LQInv, AnswersAgree, LQShape
  <2>9. \A place \in Nat : \A rows : Among(place, rows) => Among(place, rows)'
    <3>1. \A r : /\ Place(Asked.hits, Asked.sort, r) \in Nat
                 /\ Place(Asked'.hits, Asked'.sort, r) \in Nat
                 /\ Place(Asked.hits, Asked.sort, r) <= Place(Asked'.hits, Asked'.sort, r)
      BY <2>3, <2>4, PlaceGrows
    <3>2. QED
      BY <1>1, <3>1 DEF Among
  <2>10. WalkInOrder'
    <3>1. Fetched' = Fetched
      BY <1>6 DEF Fetched
    <3>2. SUFFICES ASSUME lqWalk.on PROVE WalkInOrder'
      BY <1>1 DEF WalkInOrder
    <3>3. lqWalk.first \subseteq Asked'.hits
      BY <2>3, <3>2 DEF LQInv, WalkInOrder
    <3>4. SUFFICES ASSUME Asked.sort \in {"oldest", "newest"} PROVE WalkInOrder'
      BY <1>1, <1>10, <2>3, <3>3 DEF WalkInOrder
    <3> DEFINE place == IF lqShown.pc = "page" THEN Offset + Asked.limit ELSE Offset
    <3>5. place \in Nat /\ Offset + Asked.limit \in Nat
      BY <2>2
    <3>6. Among(place, lqWalk.seen)'
      <4>1. Among(place, lqWalk.seen)
        BY <3>2, <3>4 DEF LQInv, WalkInOrder
      <4>2. place' = place
        BY <1>1, <2>3, <2>6
      <4> HIDE DEF place
      <4>3. Among(place, lqWalk.seen)'
        BY <1>1, <2>9, <3>5, <4>1, <4>2 DEF Among
      <4>4. QED
        BY <4>3
    <3>7. lqFetch.found => Among(Offset + Asked.limit, lqWalk.seen \cup Fetched)'
      <4>1. lqFetch.found => Among(Offset + Asked.limit, lqWalk.seen \cup Fetched)
        BY <3>2, <3>4 DEF LQInv, WalkInOrder
      <4>2. QED
        BY <1>1, <2>3, <2>6, <2>9, <3>1, <3>5, <4>1 DEF Among
    <3>8. /\ lqFetch.found /\ lqFetch.counted /\ ~ lqFetch'.raced
          /\ lqFetch.count <= Offset + Asked.limit
          => lqWalk.first \subseteq lqWalk.seen \cup Fetched
      BY <1>6, <3>2, <3>4 DEF LQInv, WalkInOrder
    <3>9. QED
      BY <1>1, <1>6, <1>10, <2>3, <2>6, <3>1, <3>3, <3>6, <3>7, <3>8 DEF WalkInOrder
  <2>11. WalkSeesAll'
    BY <1>1, <2>3 DEF LQInv, WalkSeesAll, Asked
  <2>12. QED
    BY <1>7, <1>8, <2>8, <2>10, <2>11 DEF LQInv
<1>11. QED
  BY <1>9, <1>10

(* What stays the same where no row comes and no query is asked.           *)
LEMMA SameQuery ==
    ASSUME lqRows' = lqRows, lqAsked' = lqAsked
    PROVE  /\ Asked' = Asked /\ Offset' = Offset /\ Rows' = Rows
           /\ \A n : PageLength(n)' = PageLength(n)
           /\ lqWalk'.first = lqWalk.first
                 => \A place, rows : Among(place, rows)' = Among(place, rows)
<1>1. Asked' = Asked
  BY AskedNow DEF Asked
<1>2. Offset' = Offset /\ Rows' = Rows
  BY <1>1 DEF Offset, Rows
<1>3. QED
  BY <1>1, <1>2 DEF PageLength, Among

(* The count is that of the hits now: a count within the page means that   *)
(* a reader has got all of them.                                           *)
LEMMA CountKeeps ==
    ASSUME LQInv, Count
    PROVE  LQInv'
<1>1. /\ lqAsked.resource # "none" /\ ~ lqFetch.counted
      /\ lqFetch' = [lqFetch EXCEPT !.counted = TRUE, !.count = Cardinality(Asked.hits)]
      /\ lqRows' = lqRows /\ lqAsked' = lqAsked /\ lqShown' = lqShown /\ lqWalk' = lqWalk
  BY DEF Count, Fetching, Asked
<1>2. LQShape
  BY DEF LQInv
<1>3. /\ Cardinality(Asked.hits) \in Nat /\ IsFiniteSet(Asked.hits) /\ Asked.hits \subseteq Nat
      /\ Offset \in Nat /\ Asked.limit \in Nat
  BY <1>1, <1>2, AskedShape
<1>4. /\ Asked' = Asked /\ Offset' = Offset /\ Rows' = Rows
      /\ \A n : PageLength(n)' = PageLength(n)
      /\ \A place, rows : Among(place, rows)' = Among(place, rows)
  BY <1>1, SameQuery
<1>5. lqFetch \in [pc : {"pending", "done"}, count : Nat, rows : Seq(Rows),
                   counted : BOOLEAN, found : BOOLEAN, raced : BOOLEAN]
  BY <1>2 DEF LQShape
<1>6. /\ lqFetch'.pc = lqFetch.pc /\ lqFetch'.count = Cardinality(Asked.hits)
      /\ lqFetch'.rows = lqFetch.rows /\ lqFetch'.counted
      /\ lqFetch'.found = lqFetch.found /\ lqFetch'.raced = lqFetch.raced
  BY <1>1, <1>5
<1>7. LQShape'
  <2>1. lqFetch' \in [pc : {"pending", "done"}, count : Nat, rows : Seq(Rows'),
                      counted : BOOLEAN, found : BOOLEAN, raced : BOOLEAN]
    BY <1>1, <1>3, <1>4, <1>5
  <2>2. QED
    BY <1>1, <1>2, <1>4, <2>1 DEF LQShape, Nothing
<1>8. RangeFits'
  BY <1>1, <1>6 DEF LQInv, RangeFits, PageStart, PageEnd
<1>9. AnswersAgree'
  BY <1>1, <1>3, <1>4, <1>6 DEF LQInv, AnswersAgree
<1>10. WalkInOrder'
  <2>1. Fetched' = Fetched
    BY <1>6 DEF Fetched
  <2>2. ASSUME lqWalk.on, Asked.sort \in {"oldest", "newest"}, lqFetch.found,
               Cardinality(Asked.hits) <= Offset + Asked.limit
        PROVE  lqWalk.first \subseteq lqWalk.seen \cup Fetched
    <3>1. lqWalk.first \subseteq Asked.hits /\ Among(Offset + Asked.limit, lqWalk.seen \cup Fetched)
      BY <2>2 DEF LQInv, WalkInOrder
    <3>2. \A r \in lqWalk.first : Place(Asked.hits, Asked.sort, r) \in 1..Cardinality(Asked.hits)
      BY <1>3, <3>1, PlaceBounds
    <3>3. \A r \in lqWalk.first : Place(Asked.hits, Asked.sort, r) <= Offset + Asked.limit
      BY <1>3, <2>2, <3>2
    <3>4. QED
      BY <3>1, <3>3 DEF Among
  <2>3. QED
    BY <1>1, <1>4, <1>6, <2>1, <2>2 DEF LQInv, WalkInOrder
<1>11. WalkSeesAll'
  BY <1>1, <1>4 DEF LQInv, WalkSeesAll, Asked
<1>12. QED
  BY <1>7, <1>8, <1>9, <1>10, <1>11 DEF LQInv

(* A refused query ends the walk.                                          *)
LEMMA RefusedKeeps ==
    ASSUME LQInv, Refused
    PROVE  LQInv'
<1>1. /\ lqAsked.resource # "none" /\ Asked.fails
      /\ lqFetch' = [lqFetch EXCEPT !.pc = "done"]
      /\ lqShown' = [Nothing EXCEPT !.pc = "error"]
      /\ lqRows' = lqRows /\ lqAsked' = lqAsked /\ lqWalk' = NoWalk
  BY DEF Refused, Fetching, Asked
<1>2. LQShape
  BY DEF LQInv
<1>3. Cardinality(Asked.hits) \in Nat /\ lqAsked \in Queried
  BY <1>1, <1>2, AskedShape
<1>4. /\ Asked' = Asked /\ Offset' = Offset /\ Rows' = Rows
      /\ \A n : PageLength(n)' = PageLength(n)
  BY <1>1, SameQuery
<1>5. lqFetch \in [pc : {"pending", "done"}, count : Nat, rows : Seq(Rows),
                   counted : BOOLEAN, found : BOOLEAN, raced : BOOLEAN]
  BY <1>2 DEF LQShape
<1>6. /\ lqFetch'.count = lqFetch.count /\ lqFetch'.rows = lqFetch.rows
      /\ lqFetch'.counted = lqFetch.counted
      /\ lqFetch'.found = lqFetch.found /\ lqFetch'.raced = lqFetch.raced
  BY <1>1, <1>5
<1>7. /\ lqShown'.pc = "error" /\ lqShown'.total = 0
      /\ lqShown' \in [pc : {"nothing", "page", "error"}, rows : Seq(Rows), total : Nat,
                       hasNextPage : BOOLEAN, hasPreviousPage : BOOLEAN]
  <2>1. lqShown' = [pc |-> "error", rows |-> <<>>, total |-> 0,
                    hasNextPage |-> FALSE, hasPreviousPage |-> FALSE]
    BY <1>1 DEF Nothing
  <2>2. <<>> \in Seq(Rows)
    OBVIOUS
  <2>3. QED
    BY <2>1, <2>2
<1>8. LQShape'
  <2>1. lqFetch' \in [pc : {"pending", "done"}, count : Nat, rows : Seq(Rows),
                      counted : BOOLEAN, found : BOOLEAN, raced : BOOLEAN]
    BY <1>1, <1>5
  <2>2. QED
    BY <1>1, <1>2, <1>4, <1>7, <2>1 DEF LQShape, NoWalk
<1>9. RangeFits'
  <2>1. (lqAsked.resource = "workspaces" /\ lqAsked.search) \/ lqAsked.sort = "creator"
    BY <1>1, <1>3 DEF Queried, Resources, Asked, GetList, ListAllAccounts, ListAccountsInternal,
       ListWorkspaces, ListPrincipals, ListPlatformProviderRegions, ListPlatformProviders, Unsortable
  <2>2. QED
    BY <1>1, <1>7, <2>1 DEF RangeFits
<1>10. AnswersAgree'
  BY <1>1, <1>3, <1>4, <1>6, <1>7 DEF LQInv, AnswersAgree
<1>11. WalkInOrder' /\ WalkSeesAll'
  BY <1>1 DEF WalkInOrder, WalkSeesAll, NoWalk
<1>12. QED
  BY <1>8, <1>9, <1>10, <1>11 DEF LQInv

(* The page holds the places after the offset, up to its length.           *)
LEMMA FindManyKeeps ==
    ASSUME LQInv, FindMany
    PROVE  LQInv'
<1>1. /\ lqAsked.resource # "none" /\ ~ lqFetch.found
      /\ lqRows' = lqRows /\ lqAsked' = lqAsked /\ lqShown' = lqShown /\ lqWalk' = lqWalk
  BY DEF FindMany, Fetching
<1>2. PICK o \in Orders(Asked.hits, Asked.sort) :
         lqFetch' = [lqFetch EXCEPT !.found = TRUE, !.rows = PageOf(o, Offset, Asked.limit)]
  BY DEF FindMany, Asked, Offset
<1>3. LQShape
  BY DEF LQInv
<1>4. /\ Cardinality(Asked.hits) \in Nat /\ IsFiniteSet(Asked.hits) /\ Asked.hits \subseteq Nat
      /\ Offset \in Nat /\ Asked.limit \in Nat /\ Asked.hits \subseteq Rows
  BY <1>1, <1>3, AskedShape
<1>5. /\ Asked' = Asked /\ Offset' = Offset /\ Rows' = Rows
      /\ \A n : PageLength(n)' = PageLength(n)
      /\ \A place, rows : Among(place, rows)' = Among(place, rows)
  BY <1>1, SameQuery
<1>6. lqFetch \in [pc : {"pending", "done"}, count : Nat, rows : Seq(Rows),
                   counted : BOOLEAN, found : BOOLEAN, raced : BOOLEAN]
  BY <1>3 DEF LQShape
<1> DEFINE page == PageOf(o, Offset, Asked.limit)
<1>7. /\ lqFetch'.pc = lqFetch.pc /\ lqFetch'.count = lqFetch.count
      /\ lqFetch'.rows = page /\ lqFetch'.counted = lqFetch.counted
      /\ lqFetch'.found /\ lqFetch'.raced = lqFetch.raced
  BY <1>2, <1>6
<1>8. /\ page \in Seq(Asked.hits)
      /\ Len(page) = PageLength(Cardinality(Asked.hits))
      /\ \A i \in 1..Cardinality(Asked.hits) : Offset < i /\ i <= Offset + Asked.limit
            => \E j \in DOMAIN page : page[j] = o[i]
  <2>1. Offset \in 0..Cardinality(Asked.hits)
    BY <1>1, <1>4 DEF LQInv, AnswersAgree
  <2>2. HoldsPlaces(page, o, Asked.hits, Offset, Asked.limit)
    BY <1>4, <2>1, PageHoldsPlaces
  <2> HIDE DEF page
  <2>3. QED
    BY <2>2 DEF PageLength, HoldsPlaces
<1> HIDE DEF page
<1>9. page \in Seq(Rows)
  BY <1>4, <1>8
<1>10. LQShape'
  <2>1. lqFetch' \in [pc : {"pending", "done"}, count : Nat, rows : Seq(Rows'),
                      counted : BOOLEAN, found : BOOLEAN, raced : BOOLEAN]
    BY <1>2, <1>5, <1>6, <1>9 DEF page
  <2>2. QED
    BY <1>1, <1>3, <1>5, <2>1 DEF LQShape, Nothing
<1>11. RangeFits'
  BY <1>1, <1>7 DEF LQInv, RangeFits, PageStart, PageEnd
<1>12. AnswersAgree'
  BY <1>1, <1>4, <1>5, <1>7, <1>8 DEF LQInv, AnswersAgree
<1>13. WalkInOrder'
  <2>1. Fetched' = {page[i] : i \in DOMAIN page}
    BY <1>7 DEF Fetched
  <2>2. ASSUME lqWalk.on, Asked.sort \in {"oldest", "newest"}
        PROVE  Among(Offset + Asked.limit, lqWalk.seen \cup Fetched')
    <3>1. lqWalk.first \subseteq Asked.hits
      BY <2>2 DEF LQInv, WalkInOrder
    <3>2. Among(Offset, lqWalk.seen)
      <4>1. Among(IF lqShown.pc = "page" THEN Offset + Asked.limit ELSE Offset, lqWalk.seen)
        BY <2>2 DEF LQInv, WalkInOrder
      <4>2. \A r \in lqWalk.first : Place(Asked.hits, Asked.sort, r) \in Nat
        BY <1>4, <3>1, PlaceBounds
      <4>3. QED
        BY <1>4, <4>1, <4>2 DEF Among
    <3>3. SUFFICES ASSUME NEW r \in lqWalk.first,
                          Place(Asked.hits, Asked.sort, r) <= Offset + Asked.limit
                   PROVE  r \in lqWalk.seen \cup Fetched'
      BY DEF Among
    <3> DEFINE i == Place(Asked.hits, Asked.sort, r)
    <3>4. i \in 1..Cardinality(Asked.hits)
      BY <1>4, <3>1, PlaceBounds
    <3>5. o[i] = r
      BY <1>2, <1>4, <2>2, <3>1, RowAtItsPlace
    <3>6. CASE i <= Offset
      BY <3>2, <3>6 DEF Among
    <3>7. CASE Offset < i
      BY <1>8, <2>1, <3>3, <3>4, <3>5, <3>7
    <3>8. QED
      BY <1>4, <3>4, <3>6, <3>7
  <2>3. ASSUME lqWalk.on, Asked.sort \in {"oldest", "newest"}, lqFetch.counted, ~ lqFetch.raced,
               lqFetch.count <= Offset + Asked.limit
        PROVE  lqWalk.first \subseteq lqWalk.seen \cup Fetched'
    <3>1. lqFetch.count = Cardinality(Asked.hits)
      BY <1>1, <2>3 DEF LQInv, AnswersAgree
    <3>2. lqWalk.first \subseteq Asked.hits
      BY <2>3 DEF LQInv, WalkInOrder
    <3>3. \A r \in lqWalk.first : Place(Asked.hits, Asked.sort, r) \in 1..Cardinality(Asked.hits)
      BY <1>4, <3>2, PlaceBounds
    <3>4. \A r \in lqWalk.first : Place(Asked.hits, Asked.sort, r) <= Offset + Asked.limit
      BY <1>4, <2>3, <3>1, <3>3
    <3>5. QED
      BY <2>2, <2>3, <3>4 DEF Among
  <2>4. QED
    BY <1>1, <1>5, <1>7, <2>2, <2>3 DEF LQInv, WalkInOrder
<1>14. WalkSeesAll'
  BY <1>1, <1>5 DEF LQInv, WalkSeesAll, Asked
<1>15. QED
  BY <1>10, <1>11, <1>12, <1>13, <1>14 DEF LQInv

(* With both answers there the reader is one page further.                 *)
LEMMA ShowKeeps ==
    ASSUME LQInv, Show
    PROVE  LQInv'
<1> DEFINE next == HasNextPage(Asked.page, lqFetch.count, Asked.limit)
<1>1. /\ lqAsked.resource # "none" /\ lqFetch.counted /\ lqFetch.found
      /\ lqFetch' = [lqFetch EXCEPT !.pc = "done"]
      /\ lqShown' = [pc |-> "page", rows |-> lqFetch.rows, total |-> lqFetch.count,
                     hasNextPage |-> next, hasPreviousPage |-> Asked.page > 1]
      /\ lqRows' = lqRows /\ lqAsked' = lqAsked
  BY DEF Show, Fetching, Asked
<1>2. lqWalk' = IF lqWalk.on
                THEN [lqWalk EXCEPT !.seen = @ \cup Fetched, !.raced = @ \/ lqFetch.raced]
                ELSE lqWalk
  BY DEF Show, Fetched
<1>3. LQShape
  BY DEF LQInv
<1>4. /\ Cardinality(Asked.hits) \in Nat /\ Offset \in Nat
      /\ Asked.page \in Nat /\ Asked.limit \in Nat \ {0}
      /\ Offset = (Asked.page - 1) * Asked.limit
      /\ Offset + Asked.limit = Asked.page * Asked.limit
      /\ lqAsked.resource # "providers"
            => Asked.page = lqAsked.page /\ Asked.limit = lqAsked.perPage
  BY <1>1, <1>3, AskedShape
<1>5. /\ Asked' = Asked /\ Offset' = Offset /\ Rows' = Rows
      /\ \A n : PageLength(n)' = PageLength(n)
      /\ lqWalk'.first = lqWalk.first
            => \A place, rows : Among(place, rows)' = Among(place, rows)
  BY <1>1, SameQuery
<1>6. /\ lqFetch \in [pc : {"pending", "done"}, count : Nat, rows : Seq(Rows),
                      counted : BOOLEAN, found : BOOLEAN, raced : BOOLEAN]
      /\ lqWalk \in [on : BOOLEAN, first : SUBSET Rows, seen : SUBSET Rows, raced : BOOLEAN]
  BY <1>3 DEF LQShape
<1>7. /\ lqFetch'.count = lqFetch.count /\ lqFetch'.rows = lqFetch.rows
      /\ lqFetch'.counted /\ lqFetch'.found /\ lqFetch'.raced = lqFetch.raced
  BY <1>1, <1>6
<1>8. next <=> Offset + Asked.limit < lqFetch.count
  <2>1. Asked.page \in Nat /\ lqFetch.count \in Nat /\ Asked.limit \in Nat \ {0}
    BY <1>4, <1>6
  <2>2. next <=> Asked.page * Asked.limit < lqFetch.count
    BY <2>1, PagesBefore
  <2>3. QED
    BY <1>4, <2>2
<1>9. next \in BOOLEAN /\ (Asked.page > 1) \in BOOLEAN
  BY <1>4 DEF HasNextPage
<1> HIDE DEF next
<1>10. /\ lqShown'.pc = "page" /\ lqShown'.rows = lqFetch.rows
       /\ lqShown'.total = lqFetch.count /\ lqShown'.hasNextPage = next
  BY <1>1
<1>11. Fetched \subseteq Rows
  BY <1>6 DEF Fetched
<1>12. /\ lqWalk'.on = lqWalk.on /\ lqWalk'.first = lqWalk.first
       /\ lqWalk.on => lqWalk'.seen = lqWalk.seen \cup Fetched
       /\ lqWalk.on => (lqWalk'.raced <=> lqWalk.raced \/ lqFetch.raced)
       /\ lqWalk' \in [on : BOOLEAN, first : SUBSET Rows, seen : SUBSET Rows, raced : BOOLEAN]
  BY <1>2, <1>6, <1>11
<1>13. LQShape'
  <2>1. lqFetch' \in [pc : {"pending", "done"}, count : Nat, rows : Seq(Rows),
                      counted : BOOLEAN, found : BOOLEAN, raced : BOOLEAN]
    BY <1>1, <1>6
  <2>2. lqShown' \in [pc : {"nothing", "page", "error"}, rows : Seq(Rows), total : Nat,
                      hasNextPage : BOOLEAN, hasPreviousPage : BOOLEAN]
    BY <1>1, <1>6, <1>9
  <2>3. QED
    BY <1>1, <1>3, <1>5, <1>12, <2>1, <2>2 DEF LQShape
<1>14. lqFetch.count <= Cardinality(Asked.hits)
  BY <1>1 DEF LQInv, AnswersAgree
<1>15. ~ lqFetch.raced => Len(lqFetch.rows) = PageLength(lqFetch.count)
  BY <1>1 DEF LQInv, AnswersAgree
<1>16. RangeFits'
  <2>1. SUFFICES ASSUME ~ lqFetch.raced, lqAsked.resource # "providers"
                 PROVE  Len(lqFetch.rows) = PageEnd' + 1 - PageStart'
    BY <1>1, <1>7, <1>10 DEF RangeFits
  <2>2. PageStart' = Offset + 1
    BY <1>1, <1>4, <2>1 DEF PageStart
  <2>3. PageEnd' = IF next THEN Offset + Asked.limit ELSE lqFetch.count
    BY <1>1, <1>4, <1>10, <2>1 DEF PageEnd
  <2>4. Len(lqFetch.rows) = IF Offset + Asked.limit <= lqFetch.count
                            THEN Asked.limit ELSE lqFetch.count - Offset
    BY <1>15, <2>1 DEF PageLength
  <2>5. Offset \in Nat /\ Asked.limit \in Nat /\ lqFetch.count \in Nat
    BY <1>4, <1>6
  <2>6. QED
    BY <1>8, <2>2, <2>3, <2>4, <2>5
<1>17. AnswersAgree'
  BY <1>1, <1>5, <1>7, <1>10, <1>14, <1>15 DEF LQInv, AnswersAgree
<1>18. Fetched' = Fetched
  BY <1>7 DEF Fetched
<1>19. WalkInOrder'
  <2>1. SUFFICES ASSUME lqWalk.on PROVE WalkInOrder'
    BY <1>12 DEF WalkInOrder
  <2>2. (lqWalk.seen \cup Fetched) \cup Fetched = lqWalk.seen \cup Fetched
    OBVIOUS
  <2>3. lqWalk.first \subseteq Asked.hits
    BY <2>1 DEF LQInv, WalkInOrder
  <2>4. SUFFICES ASSUME Asked.sort \in {"oldest", "newest"} PROVE WalkInOrder'
    BY <1>1, <1>5, <1>12, <2>3 DEF WalkInOrder
  <2>5. Among(Offset + Asked.limit, lqWalk.seen \cup Fetched)
    BY <1>1, <2>1, <2>4 DEF LQInv, WalkInOrder
  <2>6. /\ Among(Offset + Asked.limit, lqWalk.seen)'
        /\ Among(Offset + Asked.limit, lqWalk.seen \cup Fetched)'
    BY <1>5, <1>12, <1>18, <2>1, <2>2, <2>5 DEF Among
  <2>7. ~ lqFetch.raced /\ lqFetch.count <= Offset + Asked.limit
          => lqWalk.first \subseteq lqWalk.seen \cup Fetched
    BY <1>1, <2>1, <2>4 DEF LQInv, WalkInOrder
  <2>8. QED
    BY <1>1, <1>5, <1>7, <1>10, <1>12, <1>18, <2>1, <2>2, <2>3, <2>6, <2>7 DEF WalkInOrder
<1>20. WalkSeesAll'
  <2>1. SUFFICES ASSUME ~ next, lqWalk.on, ~ lqFetch.raced, Asked.sort \in {"oldest", "newest"}
                 PROVE  lqWalk.first \subseteq lqWalk.seen \cup Fetched
    BY <1>5, <1>10, <1>12 DEF WalkSeesAll, Asked
  <2>2. lqFetch.count <= Offset + Asked.limit
    BY <1>4, <1>6, <1>8, <2>1
  <2>3. QED
    BY <1>1, <2>1, <2>2 DEF LQInv, WalkInOrder
<1>21. QED
  BY <1>13, <1>16, <1>17, <1>19, <1>20 DEF LQInv

(* A query that begins at an existing row, on the first page or the next.  *)
LEMMA AskKeeps ==
    ASSUME LQInv, NEW asked \in Queried, Ask(asked),
           OffsetPagination(GetList(asked).page, GetList(asked).limit)
              <= Cardinality(GetList(asked).hits),
           \/ GetList(asked).page = 1
           \/ lqAsked.resource \notin {"none", "providers"}
              /\ asked = [lqAsked EXCEPT !.page = asked.page]
    PROVE  LQInv'
<1> DEFINE q == GetList(asked)
<1>1. /\ lqAsked' = asked /\ lqFetch' = Pending /\ lqShown' = Nothing /\ lqRows' = lqRows
      /\ lqWalk' = IF q.page = 1 THEN [NoWalk EXCEPT !.on = TRUE, !.first = q.hits]
                   ELSE IF asked.page = lqAsked.page + 1 /\ lqShown.pc = "page"
                   THEN lqWalk ELSE NoWalk
  BY DEF Ask
<1>2. LQShape /\ lqRows \in Seq({1, 2})
  BY DEF LQInv, LQShape
<1>3. /\ q \in [hits : SUBSET Rows, sort : Sorts, page : Nat \ {0},
                limit : Nat \ {0}, fails : BOOLEAN]
      /\ asked.resource # "providers" => q.page = asked.page /\ q.limit = asked.perPage
  BY <1>2, AnsweredQuery
<1>4. IsFiniteSet(q.hits) /\ q.hits \subseteq Nat /\ Cardinality(q.hits) \in Nat
  BY <1>2, HitsFinite
<1>5. Asked' = q /\ Rows' = Rows
  BY <1>1, AskedNow DEF Rows
<1>6. Offset' = (q.page - 1) * q.limit /\ Offset' <= Cardinality(q.hits)
  BY <1>5 DEF Offset, OffsetPagination
<1>7. asked.resource # "none"
  BY DEF Queried, Resources
<1> HIDE DEF q
<1>8. LQShape'
  <2>1. /\ asked \in [resource : Resources \cup {"none"}, page : 1..(MaxRows + 1),
                      perPage : PageSizes \cup {DefaultLimit}, search : BOOLEAN, sort : Sorts]
    BY DEF Queried
  <2>2. <<>> \in Seq(Rows)
    OBVIOUS
  <2>3. Pending \in [pc : {"pending", "done"}, count : Nat, rows : Seq(Rows),
                     counted : BOOLEAN, found : BOOLEAN, raced : BOOLEAN]
    BY <2>2 DEF Pending
  <2>4. Nothing \in [pc : {"nothing", "page", "error"}, rows : Seq(Rows), total : Nat,
                     hasNextPage : BOOLEAN, hasPreviousPage : BOOLEAN]
    BY <2>2 DEF Nothing
  <2>5. /\ NoWalk \in [on : BOOLEAN, first : SUBSET Rows, seen : SUBSET Rows, raced : BOOLEAN]
        /\ [NoWalk EXCEPT !.on = TRUE, !.first = q.hits]
              \in [on : BOOLEAN, first : SUBSET Rows, seen : SUBSET Rows, raced : BOOLEAN]
    BY <1>3 DEF NoWalk
  <2>6. lqWalk' \in [on : BOOLEAN, first : SUBSET Rows, seen : SUBSET Rows, raced : BOOLEAN]
    BY <1>1, <1>2, <2>5 DEF LQShape
  <2>7. QED
    BY <1>1, <1>2, <1>5, <1>7, <2>1, <2>3, <2>4, <2>6 DEF LQShape
<1>9. RangeFits' /\ WalkSeesAll'
  BY <1>1 DEF RangeFits, WalkSeesAll, Nothing
<1>10. AnswersAgree'
  BY <1>1, <1>4, <1>5, <1>6 DEF AnswersAgree, Pending, Nothing
<1>11. CASE q.page = 1
  <2>1. lqWalk'.first = q.hits /\ lqWalk'.seen = {}
    BY <1>1, <1>11 DEF NoWalk
  <2>2. Offset' = 0
    BY <1>3, <1>6, <1>11
  <2>3. Among(0, {})'
    <3>1. \A r \in q.hits : Place(q.hits, q.sort, r) \in 1..Cardinality(q.hits)
      BY <1>4, PlaceBounds
    <3>2. QED
      BY <1>4, <1>5, <2>1, <3>1 DEF Among
  <2>4. WalkInOrder'
    BY <1>1, <1>5, <1>7, <2>1, <2>2, <2>3 DEF WalkInOrder, Pending, Nothing, Among
  <2>5. QED
    BY <1>8, <1>9, <1>10, <2>4 DEF LQInv
<1>12. CASE q.page # 1 /\ ~ (asked.page = lqAsked.page + 1 /\ lqShown.pc = "page")
  <2>1. lqWalk'.on = FALSE
    BY <1>1, <1>12 DEF NoWalk
  <2>2. QED
    BY <1>8, <1>9, <1>10, <2>1 DEF LQInv, WalkInOrder
<1>13. CASE q.page # 1 /\ asked.page = lqAsked.page + 1 /\ lqShown.pc = "page"
  <2>1. /\ lqAsked.resource \notin {"none", "providers"}
        /\ asked = [lqAsked EXCEPT !.page = asked.page] /\ lqWalk' = lqWalk
    BY <1>1, <1>13 DEF q
  <2>2. /\ lqAsked \in Queried /\ Asked.page = lqAsked.page /\ Asked.limit = lqAsked.perPage
        /\ Offset + Asked.limit = Asked.page * Asked.limit /\ Asked.page \in Nat
        /\ Asked.limit \in Nat
    BY <1>2, <2>1, AskedShape
  <2>3. /\ asked.resource = lqAsked.resource /\ asked.perPage = lqAsked.perPage
        /\ asked.search = lqAsked.search /\ asked.sort = lqAsked.sort
    BY <2>1, <2>2 DEF Queried
  <2>4. q.hits = Asked.hits /\ q.sort = Asked.sort
    BY <2>1, <2>2, <2>3 DEF q, Asked, Queried, Resources, GetList, ListAllAccounts,
       ListAccountsInternal, ListWorkspaces, ListPrincipals, ListPlatformProviderRegions, Searched
  <2>5. Offset' = Offset + Asked.limit
    <3>1. q.page = Asked.page + 1 /\ q.limit = Asked.limit
      BY <1>3, <1>13, <2>1, <2>2, <2>3
    <3>2. QED
      BY <1>6, <2>2, <3>1
  <2>6. WalkInOrder'
    <3>1. SUFFICES ASSUME lqWalk.on PROVE WalkInOrder'
      BY <2>1 DEF WalkInOrder
    <3>2. lqWalk.first \subseteq Asked.hits
      BY <3>1 DEF LQInv, WalkInOrder
    <3>3. Asked.sort \in {"oldest", "newest"} => Among(Offset, lqWalk.seen)'
      <4>1. Asked.sort \in {"oldest", "newest"} => Among(Offset + Asked.limit, lqWalk.seen)
        BY <1>13, <3>1 DEF LQInv, WalkInOrder
      <4>2. QED
        BY <1>5, <2>1, <2>4, <2>5, <4>1 DEF Among
    <3>4. QED
      BY <1>1, <1>5, <1>7, <2>1, <2>4, <3>2, <3>3 DEF WalkInOrder, Pending, Nothing, Among
  <2>7. QED
    BY <1>8, <1>9, <1>10, <2>6 DEF LQInv
<1>14. QED
  BY <1>11, <1>12, <1>13

(* A query for a first page begins at a row of its list, or an empty list. *)
LEMMA FirstPageKeeps ==
    ASSUME LQInv, NEW asked \in Queried, Ask(asked), asked.page = 1
    PROVE  LQInv'
<1>1. lqRows \in Seq({1, 2})
  BY DEF LQInv, LQShape
<1>2. GetList(asked).page = 1 /\ GetList(asked).limit \in Nat
  BY <1>1, AnsweredQuery
<1>3. Cardinality(GetList(asked).hits) \in Nat
  BY <1>1, HitsFinite
<1>4. OffsetPagination(GetList(asked).page, GetList(asked).limit)
         <= Cardinality(GetList(asked).hits)
  BY <1>2, <1>3 DEF OffsetPagination
<1>5. QED
  BY <1>2, <1>4, AskKeeps

(* A list opens on its first page.                                         *)
LEMMA OpenListKeeps ==
    ASSUME LQInv, NEW resource \in Resources, OpenList(resource)
    PROVE  LQInv'
<1> DEFINE asked == [lqAsked EXCEPT !.resource = resource, !.sort = DefaultSort(resource)]
<1>1. lqAsked.resource = "none" /\ Ask(asked)
  BY DEF OpenList
<1>2. lqAsked.page = 1
  BY <1>1 DEF LQInv, LQShape
<1>3. DefaultSort(resource) \in Sorts
  BY DEF DefaultSort, Sorts
<1>4. asked \in Queried /\ asked.page = 1
  BY <1>2, <1>3 DEF LQInv, LQShape, Queried
<1>5. QED
  BY <1>1, <1>4, FirstPageKeeps

(* A page link leads to a page that the total has, and rows only come.     *)
LEMMA SetPageKeeps ==
    ASSUME LQInv, NEW page \in 1..MaxRows, SetPage(page)
    PROVE  LQInv'
<1> DEFINE asked == [lqAsked EXCEPT !.page = page]
<1>1. /\ lqAsked.resource \notin {"none", "providers"} /\ Ask(asked)
      /\ page \in 1..TotalPages(lqShown.total, lqAsked.perPage)
  BY DEF SetPage
<1>2. LQShape /\ lqRows \in Seq({1, 2}) /\ MaxRows \in Nat
  BY PagesAssumption DEF LQInv, LQShape
<1>3. /\ lqAsked \in Queried /\ Asked.limit = lqAsked.perPage
      /\ Asked.limit \in Nat \ {0}
  BY <1>1, <1>2, AskedShape
<1>4. /\ asked \in Queried /\ asked = [lqAsked EXCEPT !.page = asked.page]
      /\ asked.page = page /\ asked.perPage = lqAsked.perPage /\ asked.resource = lqAsked.resource
      /\ asked.search = lqAsked.search /\ asked.sort = lqAsked.sort
  BY <1>2, <1>3 DEF Queried
<1>5. /\ GetList(asked).page = page /\ GetList(asked).limit = lqAsked.perPage
  BY <1>1, <1>2, <1>4, AnsweredQuery
<1>6. GetList(asked).hits = Asked.hits
  BY <1>1, <1>3, <1>4 DEF Asked, Queried, Resources, GetList, ListAllAccounts,
     ListAccountsInternal, ListWorkspaces, ListPrincipals, ListPlatformProviderRegions, Searched
<1>7. lqShown.total \in Nat /\ lqShown.total <= Cardinality(Asked.hits)
  BY <1>1 DEF LQInv, LQShape, AnswersAgree
<1>8. (page - 1) * Asked.limit < lqShown.total \/ page = 1
  <2>1. CASE page = 1
    BY <2>1
  <2>2. CASE page # 1
    <3>1. page - 1 \in Nat /\ TotalPages(lqShown.total, lqAsked.perPage) \in Nat
      <4>1. page - 1 \in Nat
        BY <1>2
      <4>2. lqShown.total \in Nat /\ lqAsked.perPage \in Nat \ {0}
        BY <1>3, <1>7
      <4>3. TotalPages(lqShown.total, lqAsked.perPage) \in Nat
        BY <4>1, <4>2, PagesBefore
      <4>4. QED
        BY <4>1, <4>3
    <3>2. HasNextPage(page - 1, lqShown.total, lqAsked.perPage)
      BY <1>1, <3>1 DEF HasNextPage
    <3>3. QED
      BY <1>3, <1>7, <3>1, <3>2, PagesBefore
  <2>3. QED
    BY <2>1, <2>2
<1>9. Cardinality(Asked.hits) \in Nat
  BY <1>1, <1>2, AskedShape
<1>10. OffsetPagination(page, Asked.limit) <= Cardinality(Asked.hits)
  <2>1. CASE page = 1
    BY <1>3, <1>9, <2>1 DEF OffsetPagination
  <2>2. CASE (page - 1) * Asked.limit < lqShown.total
    <3>1. (page - 1) * Asked.limit \in Int
      BY <1>2, <1>3
    <3>2. QED
      BY <1>7, <1>9, <2>2, <3>1 DEF OffsetPagination
  <2>3. QED
    BY <1>8, <2>1, <2>2
<1> HIDE DEF asked
<1>11. QED
  BY <1>1, <1>3, <1>4, <1>5, <1>6, <1>10, AskKeeps

(* A new size, sort or search begins with the first page again.            *)
LEMMA SetPerPageKeeps ==
    ASSUME LQInv, NEW size \in PageSizes, SetPerPage(size)
    PROVE  LQInv'
<1> DEFINE asked == [lqAsked EXCEPT !.page = 1, !.perPage = size]
<1>1. lqAsked.resource # "none" /\ Ask(asked)
  BY DEF SetPerPage
<1>2. lqAsked \in Queried /\ MaxRows \in Nat
  BY <1>1, AskedShape, PagesAssumption DEF LQInv
<1>3. 1 \in 1..(MaxRows + 1)
  BY <1>2
<1>4. asked \in Queried /\ asked.page = 1
  BY <1>2, <1>3 DEF Queried
<1>5. QED
  BY <1>1, <1>4, FirstPageKeeps

LEMMA SetSortKeeps ==
    ASSUME LQInv, NEW sort \in Sorts, SetSort(sort)
    PROVE  LQInv'
<1> DEFINE asked == [lqAsked EXCEPT !.page = 1, !.sort = sort]
<1>1. lqAsked.resource # "none" /\ Ask(asked)
  BY DEF SetSort
<1>2. lqAsked \in Queried /\ MaxRows \in Nat
  BY <1>1, AskedShape, PagesAssumption DEF LQInv
<1>3. 1 \in 1..(MaxRows + 1)
  BY <1>2
<1>4. asked \in Queried /\ asked.page = 1
  BY <1>2, <1>3 DEF Queried
<1>5. QED
  BY <1>1, <1>4, FirstPageKeeps

LEMMA SetSearchKeeps ==
    ASSUME LQInv, NEW search \in BOOLEAN, SetSearch(search)
    PROVE  LQInv'
<1> DEFINE asked == [lqAsked EXCEPT !.page = 1, !.search = search]
<1>1. lqAsked.resource # "none" /\ Ask(asked)
  BY DEF SetSearch
<1>2. lqAsked \in Queried /\ MaxRows \in Nat
  BY <1>1, AskedShape, PagesAssumption DEF LQInv
<1>3. 1 \in 1..(MaxRows + 1)
  BY <1>2
<1>4. asked \in Queried /\ asked.page = 1
  BY <1>2, <1>3 DEF Queried
<1>5. QED
  BY <1>1, <1>4, FirstPageKeeps

(* The inductive invariant of a paged list: places of the hits, the pages  *)
(* a reader has seen, and the two answers of a page.                       *)
THEOREM QueriesInvariance == LQSpec => []LQInv
<1>1. LQInit => LQInv
  BY InvariantAtFirst
<1>2. LQInv /\ [LQNext]_lqVars => LQInv'
  <2> SUFFICES ASSUME LQInv, [LQNext]_lqVars PROVE LQInv'
    OBVIOUS
  <2>1. ASSUME NEW kind \in {1, 2}, Insert(kind) PROVE LQInv'
    BY <2>1, InsertKeeps
  <2>2. ASSUME NEW resource \in Resources, OpenList(resource) PROVE LQInv'
    BY <2>2, OpenListKeeps
  <2>3. ASSUME NEW page \in 1..MaxRows, SetPage(page) PROVE LQInv'
    BY <2>3, SetPageKeeps
  <2>4. ASSUME NEW size \in PageSizes, SetPerPage(size) PROVE LQInv'
    BY <2>4, SetPerPageKeeps
  <2>5. ASSUME NEW sort \in Sorts, SetSort(sort) PROVE LQInv'
    BY <2>5, SetSortKeeps
  <2>6. ASSUME NEW search \in BOOLEAN, SetSearch(search) PROVE LQInv'
    BY <2>6, SetSearchKeeps
  <2>7. CASE Refused
    BY <2>7, RefusedKeeps
  <2>8. CASE Count
    BY <2>8, CountKeeps
  <2>9. CASE FindMany
    BY <2>9, FindManyKeeps
  <2>10. CASE Show
    BY <2>10, ShowKeeps
  <2>11. CASE UNCHANGED lqVars
    <3>1. lqRows' = lqRows /\ lqAsked' = lqAsked /\ lqFetch' = lqFetch
          /\ lqShown' = lqShown /\ lqWalk' = lqWalk
      BY <2>11 DEF lqVars
    <3>2. /\ Asked' = Asked /\ Offset' = Offset /\ Rows' = Rows
          /\ \A n : PageLength(n)' = PageLength(n)
          /\ \A place, rows : Among(place, rows)' = Among(place, rows)
      BY <3>1, SameQuery
    <3>3. Fetched' = Fetched
      BY <3>1 DEF Fetched
    <3>4. LQShape' /\ RangeFits' /\ AnswersAgree'
      BY <3>1, <3>2 DEF LQInv, LQShape, RangeFits, PageStart, PageEnd, AnswersAgree
    <3>5. WalkInOrder'
      BY <3>1, <3>2, <3>3 DEF LQInv, WalkInOrder
    <3>6. WalkSeesAll'
      BY <3>1, <3>2 DEF LQInv, WalkSeesAll, Asked
    <3>7. QED
      BY <3>4, <3>5, <3>6 DEF LQInv
  <2>12. QED
    BY <2>1, <2>2, <2>3, <2>4, <2>5, <2>6, <2>7, <2>8, <2>9, <2>10, <2>11 DEF LQNext
<1>3. QED
  BY <1>1, <1>2, PTL DEF LQSpec

(* Rows, query and answer are well formed, and the range a page names is   *)
(* as long as the page (LQTypeOK, of TypesOK).                             *)
THEOREM QueriesTypeCorrect == LQSpec => []LQTypeOK
<1>1. LQInv => LQTypeOK
  <2> SUFFICES ASSUME LQInv PROVE LQTypeOK
    OBVIOUS
  <2>1. lqRows \in Seq({1, 2}) /\ Len(lqRows) <= MaxRows /\ MaxRows \in Nat
    BY PagesAssumption DEF LQInv, LQShape
  <2>2. lqRows \in UNION {[1..n -> {1, 2}] : n \in 0..MaxRows}
    <3>1. Len(lqRows) \in 0..MaxRows /\ lqRows \in [1..Len(lqRows) -> {1, 2}]
      BY <2>1
    <3>2. QED
      BY <3>1
  <2>3. lqShown.total \in 0..MaxRows
    <3>1. CASE lqAsked.resource = "none"
      BY <2>1, <3>1 DEF LQInv, LQShape, Nothing
    <3>2. CASE lqAsked.resource # "none"
      <4>1. Cardinality(Asked.hits) \in 0..Len(lqRows)
        BY <3>2, AskedShape DEF LQInv
      <4>2. lqShown.total \in Nat /\ lqShown.total <= Cardinality(Asked.hits)
        BY <3>2 DEF LQInv, LQShape, AnswersAgree
      <4>3. QED
        BY <2>1, <4>1, <4>2
    <3>3. QED
      BY <3>1, <3>2
  <2>4. lqShown.pc \in {"nothing", "page", "error"} /\ lqWalk.seen \subseteq Rows
        /\ lqWalk.first \subseteq Rows
    BY DEF LQInv, LQShape
  <2>5. QED
    BY <2>2, <2>3, <2>4 DEF LQTypeOK, LQInv, LQShape
<1>2. QED
  BY <1>1, QueriesInvariance, PTL

(* Whoever leafs through a sorted list to its last page has seen every row *)
(* that was there when he began, however many rows were inserted meanwhile *)
(* (the offsets and the hasNextPage of the list functions).                *)
THEOREM WalkSafe == LQSpec => []WalkSeesAll
<1>1. LQInv => WalkSeesAll
  BY DEF LQInv
<1>2. QED
  BY <1>1, QueriesInvariance, PTL

-----------------------------------------------------------------------------
(* ArrayForm                                                               *)

(* Every item but the one at the place is left, once and in a place.       *)
LEMMA ItemsLeft ==
    ASSUME NEW S, NEW items \in Seq(S), IsInjective(items), NEW place \in 1..Len(items)
    PROVE  /\ RemoveAt(items, place) \in Seq(S) /\ IsInjective(RemoveAt(items, place))
           /\ ToSet(RemoveAt(items, place)) = ToSet(items) \ {items[place]}
<1> DEFINE n == Len(items)
           before == SubSeq(items, 1, place - 1)
           after == SubSeq(items, place + 1, n)
           left == RemoveAt(items, place)
<1>1. n \in Nat /\ DOMAIN items = 1..n /\ place \in 1..n /\ \A i \in 1..n : items[i] \in S
  BY LenProperties
<1>2. left = before \o after
  BY DEF RemoveAt
<1> HIDE DEF n, left
<1>3. /\ before \in Seq(S) /\ Len(before) = place - 1
      /\ \A i \in 1..(place - 1) : before[i] = items[i]
  <2>1. \A i \in 1..(place - 1) : items[i] \in S
    BY <1>1
  <2>2. 1 \in Int /\ place - 1 \in Int
    BY <1>1
  <2>3. /\ before \in Seq(S)
        /\ Len(before) = IF 1 <= place - 1 THEN place - 1 - 1 + 1 ELSE 0
        /\ \A i \in 1..(place - 1 - 1 + 1) : before[i] = items[1 + i - 1]
    BY <2>1, <2>2, SubSeqProperties
  <2> HIDE DEF before
  <2>4. place - 1 - 1 + 1 = place - 1 /\ \A i \in 1..(place - 1) : 1 + i - 1 = i
    BY <1>1
  <2>5. QED
    BY <1>1, <2>3, <2>4
<1>4. /\ after \in Seq(S) /\ Len(after) = n - place
      /\ \A i \in 1..(n - place) : after[i] = items[place + i]
  <2>1. \A i \in (place + 1)..n : items[i] \in S
    BY <1>1
  <2>2. place + 1 \in Int /\ n \in Int
    BY <1>1
  <2>3. /\ after \in Seq(S)
        /\ Len(after) = IF place + 1 <= n THEN n - (place + 1) + 1 ELSE 0
        /\ \A i \in 1..(n - (place + 1) + 1) : after[i] = items[place + 1 + i - 1]
    BY <2>1, <2>2, SubSeqProperties
  <2> HIDE DEF after
  <2>4. n - (place + 1) + 1 = n - place /\ \A i \in 1..(n - place) : place + 1 + i - 1 = place + i
    BY <1>1
  <2>5. QED
    BY <1>1, <2>3, <2>4
<1> HIDE DEF before, after
<1>5. /\ left \in Seq(S) /\ Len(left) = n - 1
      /\ \A i \in 1..(n - 1) : left[i] = IF i < place THEN items[i] ELSE items[i + 1]
  <2>1. left \in Seq(S) /\ Len(left) = n - 1
    <3>1. left \in Seq(S) /\ Len(left) = Len(before) + Len(after)
      BY <1>2, <1>3, <1>4, ConcatProperties
    <3>2. (place - 1) + (n - place) = n - 1
      BY <1>1
    <3>3. QED
      BY <1>3, <1>4, <3>1, <3>2
  <2>2. ASSUME NEW i \in 1..(n - 1), i < place PROVE left[i] = items[i]
    BY <1>1, <1>2, <1>3, <1>4, <2>2
  <2>3. ASSUME NEW i \in 1..(n - 1), ~ (i < place) PROVE left[i] = items[i + 1]
    <3>1. i - (place - 1) \in 1..(n - place) /\ place + (i - (place - 1)) = i + 1
      BY <1>1, <2>3
    <3>2. left[i] = after[i - (place - 1)]
      BY <1>1, <1>2, <1>3, <1>4, <2>3
    <3>3. QED
      BY <1>4, <3>1, <3>2
  <2>4. QED
    BY <2>1, <2>2, <2>3
<1>6. DOMAIN left = 1..(n - 1)
  BY <1>5
<1>7. \A i, j \in 1..n : items[i] = items[j] => i = j
  BY <1>1 DEF IsInjective
<1>8. IsInjective(left)
  <2>1. \A i, j \in 1..(n - 1) : left[i] = left[j] => i = j
    BY <1>1, <1>5, <1>7
  <2>2. QED
    BY <1>6, <2>1 DEF IsInjective
<1>9. ToSet(left) \subseteq ToSet(items) \ {items[place]}
  <2>1. \A i \in 1..(n - 1) : left[i] \in {items[j] : j \in 1..n} /\ left[i] # items[place]
    BY <1>1, <1>5, <1>7
  <2>2. QED
    BY <1>1, <1>6, <2>1 DEF ToSet
<1>10. ToSet(items) \ {items[place]} \subseteq ToSet(left)
  <2>1. ASSUME NEW j \in 1..n, items[j] # items[place] PROVE \E i \in 1..(n - 1) : left[i] = items[j]
    <3>1. CASE j < place
      BY <1>1, <1>5, <3>1
    <3>2. CASE j > place
      <4>1. j - 1 \in 1..(n - 1) /\ ~ (j - 1 < place) /\ j - 1 + 1 = j
        BY <1>1, <3>2
      <4>2. QED
        BY <1>5, <4>1
    <3>3. QED
      BY <1>1, <2>1, <3>1, <3>2
  <2>2. QED
    BY <1>1, <1>6, <2>1 DEF ToSet
<1>11. QED
  BY <1>5, <1>8, <1>9, <1>10 DEF left

(* In a list of distinct items an item is at its place.                    *)
LEMMA PlaceOfItem ==
    ASSUME NEW S, NEW items \in Seq(S), IsInjective(items), NEW item
    PROVE  /\ item \in ToSet(items)
                 => PlaceIn(items, item) \in DOMAIN items /\ items[PlaceIn(items, item)] = item
           /\ item \notin ToSet(items) => PlaceIn(items, item) = 0
           /\ \A i \in DOMAIN items : items[i] = item => PlaceIn(items, item) = i
<1>1. item \in ToSet(items) <=> \E i \in DOMAIN items : items[i] = item
  BY DEF ToSet
<1>2. item \in ToSet(items)
         => PlaceIn(items, item) \in DOMAIN items /\ items[PlaceIn(items, item)] = item
  BY <1>1 DEF PlaceIn
<1>3. \A i \in DOMAIN items : items[i] = item => PlaceIn(items, item) = i
  BY <1>1, <1>2 DEF IsInjective
<1>4. QED
  BY <1>2, <1>3 DEF PlaceIn

(* Two items change places.                                                *)
LEMMA ItemsSwapped ==
    ASSUME NEW S, aiItems \in Seq(S), IsInjective(aiItems),
           NEW i \in DOMAIN aiItems, NEW j \in DOMAIN aiItems
    PROVE  /\ Swapped(i, j) \in Seq(S) /\ IsInjective(Swapped(i, j))
           /\ ToSet(Swapped(i, j)) = ToSet(aiItems)
<1> DEFINE s == Swapped(i, j)
<1>1. /\ s = [aiItems EXCEPT ![i] = aiItems[j], ![j] = aiItems[i]]
      /\ DOMAIN aiItems = 1..Len(aiItems) /\ Len(aiItems) \in Nat
      /\ \A k \in DOMAIN aiItems : aiItems[k] \in S
  BY LenProperties DEF Swapped
<1>2. /\ DOMAIN s = DOMAIN aiItems
      /\ \A k \in DOMAIN aiItems :
            s[k] = IF k = j THEN aiItems[i] ELSE IF k = i THEN aiItems[j] ELSE aiItems[k]
  BY <1>1
<1> HIDE DEF s
<1>3. s \in Seq(S)
  <2>1. s \in [1..Len(aiItems) -> S]
    BY <1>1, <1>2
  <2>2. QED
    BY <1>1, <2>1
<1>4. IsInjective(s)
  BY <1>2 DEF IsInjective
<1>5. ToSet(s) = ToSet(aiItems)
  <2>1. \A k \in DOMAIN aiItems : \E l \in DOMAIN aiItems : s[k] = aiItems[l]
    BY <1>2
  <2>2. \A k \in DOMAIN aiItems : \E l \in DOMAIN aiItems : s[l] = aiItems[k]
    BY <1>2
  <2>3. ToSet(s) \subseteq ToSet(aiItems)
    BY <1>2, <2>1 DEF ToSet
  <2>4. ToSet(aiItems) \subseteq ToSet(s)
    BY <1>2, <2>2 DEF ToSet
  <2>5. QED
    BY <2>3, <2>4
<1>6. QED
  BY <1>3, <1>4, <1>5 DEF s

(* The form starts with the stored items.                                  *)
LEMMA ItemsAtFirst == AIInit => AIInv
<1> SUFFICES ASSUME AIInit PROVE AIInv
  OBVIOUS
<1>1. StoredItems \in Nat /\ MaxItems \in Nat /\ StoredItems <= MaxItems
  BY ArrayFormAssumption
<1>2. /\ aiItems = [i \in 1..StoredItems |-> i] /\ aiStored = aiItems
      /\ aiMade = StoredItems /\ aiConfirm = FALSE
  BY DEF AIInit
<1>3. /\ aiRule \in {"never", "always", "record"}
      /\ aiKept \in IF aiRule = "record" THEN {{i} : i \in 1..StoredItems} ELSE {{}}
  BY DEF AIInit
<1>4. aiKept \subseteq 1..StoredItems /\ (aiRule # "record" => aiKept = {})
  BY <1>3
<1>5. aiItems \in Seq(1..aiMade) /\ IsInjective(aiItems) /\ ToSet(aiItems) \subseteq 1..aiMade
  BY <1>1, <1>2 DEF IsInjective, ToSet
<1>6. aiMade \in StoredItems..MaxItems
  BY <1>1, <1>2
<1>7. QED
  BY <1>2, <1>3, <1>4, <1>5, <1>6 DEF AIInv, AITypeOK

(* Every step keeps the items distinct, and the dialog over a list it can  *)
(* clear.                                                                  *)
LEMMA ItemsStep == AIInv /\ [AINext]_aiVars => AIInv'
<1> SUFFICES ASSUME AIInv, [AINext]_aiVars PROVE AIInv'
  OBVIOUS
<1>1. /\ StoredItems \in Nat /\ MaxItems \in Nat /\ aiMade \in StoredItems..MaxItems
      /\ aiItems \in Seq(1..aiMade) /\ aiStored \in Seq(1..aiMade)
      /\ IsInjective(aiItems) /\ IsInjective(aiStored)
      /\ ToSet(aiItems) \subseteq 1..aiMade /\ ToSet(aiStored) \subseteq 1..aiMade
      /\ aiRule \in {"never", "always", "record"} /\ aiKept \subseteq 1..StoredItems
      /\ aiConfirm \in BOOLEAN /\ (aiConfirm => aiItems # <<>> /\ aiRule = "never")
      /\ (aiRule # "record" => aiKept = {})
  BY ArrayFormAssumption DEF AIInv, AITypeOK, ClearOffered
<1>2. aiRule' = aiRule /\ aiKept' = aiKept
  BY DEF AINext, AddItem, RemoveItem, ReOrder, AskClear, ConfirmClear, CloseConfirm, SaveItems,
         ResetItems, aiVars
<1>3. SUFFICES /\ aiMade' \in StoredItems..MaxItems
               /\ aiItems' \in Seq(1..aiMade') /\ aiStored' \in Seq(1..aiMade')
               /\ IsInjective(aiItems') /\ IsInjective(aiStored')
               /\ aiConfirm' \in BOOLEAN /\ (aiConfirm' => aiItems' # <<>> /\ aiRule = "never")
  <2>1. \A items \in Seq(1..aiMade') : ToSet(items) \subseteq 1..aiMade'
    BY DEF ToSet
  <2>2. QED
    BY <1>1, <1>2, <2>1 DEF AIInv, AITypeOK, ClearOffered
<1>4. CASE AddItem
  <2>1. /\ aiMade' = aiMade + 1 /\ aiMade < MaxItems /\ aiItems' = Append(aiItems, aiMade + 1)
        /\ aiStored' = aiStored /\ aiConfirm' = FALSE
    BY <1>1, <1>4 DEF AddItem
  <2>2. 1..aiMade \subseteq 1..aiMade' /\ aiMade + 1 \in 1..aiMade' /\ aiMade + 1 \notin 1..aiMade
    BY <1>1, <2>1
  <2>3. aiMade' \in StoredItems..MaxItems
    BY <1>1, <2>1
  <2>4. aiItems \in Seq(1..aiMade') /\ aiStored \in Seq(1..aiMade')
    <3> DEFINE before == 1..aiMade
               after == 1..aiMade'
    <3>1. before \subseteq after /\ aiItems \in Seq(before) /\ aiStored \in Seq(before)
      BY <1>1, <2>2
    <3> HIDE DEF before, after
    <3>2. aiItems \in Seq(after) /\ aiStored \in Seq(after)
      BY <3>1
    <3>3. QED
      BY <3>2 DEF after
  <2>5. aiItems' \in Seq(1..aiMade')
    BY <2>1, <2>2, <2>4
  <2>6. IsInjective(aiItems')
    <3>1. /\ DOMAIN aiItems = 1..Len(aiItems) /\ DOMAIN aiItems' = 1..(Len(aiItems) + 1)
          /\ Len(aiItems) \in Nat
          /\ \A i \in 1..Len(aiItems) : aiItems'[i] = aiItems[i] /\ aiItems[i] \in 1..aiMade
          /\ aiItems'[Len(aiItems) + 1] = aiMade + 1
      BY <1>1, <2>1
    <3>2. \A i \in 1..(Len(aiItems) + 1) : i \in 1..Len(aiItems) \/ i = Len(aiItems) + 1
      BY <3>1
    <3>3. \A i, j \in 1..Len(aiItems) : aiItems[i] = aiItems[j] => i = j
      BY <1>1, <3>1 DEF IsInjective
    <3>4. \A i, j \in 1..(Len(aiItems) + 1) : aiItems'[i] = aiItems'[j] => i = j
      BY <2>2, <3>1, <3>2, <3>3
    <3>5. QED
      BY <3>1, <3>4 DEF IsInjective
  <2>7. QED
    BY <1>1, <2>1, <2>3, <2>4, <2>5, <2>6
<1>5. CASE \E i \in DOMAIN aiItems : RemoveItem(i)
  <2>1. PICK i \in DOMAIN aiItems : RemoveItem(i)
    BY <1>5
  <2>2. i \in 1..Len(aiItems)
    BY <1>1
  <2>3. RemoveAt(aiItems, i) \in Seq(1..aiMade) /\ IsInjective(RemoveAt(aiItems, i))
    BY <1>1, <2>2, ItemsLeft
  <2>4. /\ aiItems' = RemoveAt(aiItems, i) /\ aiStored' = aiStored /\ aiMade' = aiMade
        /\ aiConfirm' = FALSE
    BY <1>1, <2>1 DEF RemoveItem
  <2>5. QED
    BY <1>1, <2>3, <2>4
<1>6. CASE \E i, j \in DOMAIN aiItems : ReOrder(i, j)
  <2>1. PICK i \in DOMAIN aiItems, j \in DOMAIN aiItems : ReOrder(i, j)
    BY <1>6
  <2>2. Swapped(i, j) \in Seq(1..aiMade) /\ IsInjective(Swapped(i, j))
    BY <1>1, ItemsSwapped
  <2>3. /\ aiItems' = Swapped(i, j) /\ aiStored' = aiStored /\ aiMade' = aiMade
        /\ aiConfirm' = FALSE
    BY <1>1, <2>1 DEF ReOrder
  <2>4. QED
    BY <1>1, <2>2, <2>3
<1>7. CASE AskClear
  BY <1>1, <1>7 DEF AskClear, ClearOffered
<1>8. CASE ConfirmClear
  <2>1. <<>> \in Seq(1..aiMade) /\ IsInjective(<<>>)
    BY DEF IsInjective
  <2>2. QED
    BY <1>1, <1>8, <2>1 DEF ConfirmClear
<1>9. CASE CloseConfirm
  BY <1>1, <1>9 DEF CloseConfirm
<1>10. CASE SaveItems
  BY <1>1, <1>10 DEF SaveItems
<1>11. CASE ResetItems
  BY <1>1, <1>11 DEF ResetItems
<1>12. CASE UNCHANGED aiVars
  BY <1>1, <1>12 DEF aiVars
<1>13. QED
  BY <1>4, <1>5, <1>6, <1>7, <1>8, <1>9, <1>10, <1>11, <1>12 DEF AINext

(* The inductive invariant of the list of items.                           *)
THEOREM ItemsInvariance == AISpec => []AIInv
<1>1. QED
  BY ItemsAtFirst, ItemsStep, PTL DEF AISpec

(* An item whose record the rule protects leaves the form only from        *)
(* another place than that of its record (disableRemove of                 *)
(* simple-form-iterator.tsx).                                              *)
THEOREM ProtectedSafe == AISpec => ProtectedInPlace
<1> DEFINE OutOfPlace == \A item \in (aiKept \cap ToSet(aiItems)) \ ToSet(aiItems') :
                            PlaceIn(aiItems, item) # PlaceIn(aiStored, item)
<1>1. AIInv /\ [AINext]_aiVars => [OutOfPlace]_aiVars
  <2> SUFFICES ASSUME AIInv, AINext,
                      NEW item \in (aiKept \cap ToSet(aiItems)) \ ToSet(aiItems')
               PROVE  PlaceIn(aiItems, item) # PlaceIn(aiStored, item)
    OBVIOUS
  <2>1. /\ aiItems \in Seq(1..aiMade) /\ aiStored \in Seq(1..aiMade)
        /\ IsInjective(aiItems) /\ IsInjective(aiStored) /\ aiRule = "record"
        /\ ~ aiConfirm
    BY DEF AIInv, AITypeOK, ClearOffered
  <2>2. CASE AddItem
    <3>1. ToSet(aiItems) \subseteq ToSet(Append(aiItems, aiMade'))
      BY <2>1 DEF ToSet
    <3>2. QED
      BY <2>2, <3>1 DEF AddItem
  <2>3. CASE \E i \in DOMAIN aiItems : RemoveItem(i)
    <3>1. PICK i \in DOMAIN aiItems : RemoveItem(i)
      BY <2>3
    <3>2. i \in 1..Len(aiItems) /\ aiItems' = RemoveAt(aiItems, i) /\ ~ DisableRemoveField(i)
      BY <2>1, <3>1 DEF RemoveItem
    <3>3. aiItems[i] = item
      <4>1. ToSet(aiItems') = ToSet(aiItems) \ {aiItems[i]}
        BY <2>1, <3>2, ItemsLeft
      <4>2. QED
        BY <4>1
    <3>4. PlaceIn(aiItems, item) = i
      BY <2>1, <3>1, <3>3, PlaceOfItem
    <3>5. SUFFICES ASSUME PlaceIn(aiStored, item) = i PROVE FALSE
      BY <3>4
    <3>6. i \in DOMAIN aiStored /\ aiStored[i] = item
      <4>1. i # 0
        BY <2>1, <3>2
      <4>2. QED
        BY <2>1, <3>5, <4>1, PlaceOfItem
    <3>7. QED
      BY <2>1, <3>2, <3>6 DEF DisableRemoveField, RecordAt
  <2>4. CASE \E i, j \in DOMAIN aiItems : ReOrder(i, j)
    <3>1. PICK i \in DOMAIN aiItems, j \in DOMAIN aiItems : ReOrder(i, j)
      BY <2>4
    <3>2. ToSet(Swapped(i, j)) = ToSet(aiItems)
      BY <2>1, ItemsSwapped
    <3>3. QED
      BY <3>1, <3>2 DEF ReOrder
  <2>5. CASE ResetItems
    <3>1. item \notin ToSet(aiStored) /\ item \in ToSet(aiItems)
      BY <2>5 DEF ResetItems
    <3>2. PlaceIn(aiStored, item) = 0 /\ PlaceIn(aiItems, item) \in DOMAIN aiItems
      BY <2>1, <3>1, PlaceOfItem
    <3>3. 0 \notin DOMAIN aiItems
      BY <2>1
    <3>4. QED
      BY <3>2, <3>3
  <2>6. CASE AskClear \/ ConfirmClear \/ CloseConfirm \/ SaveItems
    BY <2>1, <2>6 DEF AskClear, ConfirmClear, CloseConfirm, SaveItems
  <2>7. QED
    BY <2>2, <2>3, <2>4, <2>5, <2>6 DEF AINext
<1>2. QED
  BY <1>1, ItemsInvariance, PTL DEF AISpec, ProtectedInPlace

-----------------------------------------------------------------------------
(* ListColumns                                                             *)

(* What a concatenation and a part of a sequence hold.                     *)
LEMMA ConcatHolds ==
    ASSUME NEW s \in Seq(Nat), NEW t \in Seq(Nat)
    PROVE  /\ s \o t \in Seq(Nat) /\ Len(s \o t) = Len(s) + Len(t)
           /\ ToSet(s \o t) = ToSet(s) \cup ToSet(t)
<1>1. /\ s \o t \in Seq(Nat) /\ Len(s \o t) = Len(s) + Len(t)
      /\ \A i \in 1..(Len(s) + Len(t)) :
            (s \o t)[i] = IF i <= Len(s) THEN s[i] ELSE t[i - Len(s)]
  BY ConcatProperties
<1>2. Len(s) \in Nat /\ DOMAIN s = 1..Len(s) /\ Len(t) \in Nat /\ DOMAIN t = 1..Len(t)
  BY LenProperties
<1> DEFINE u == s \o t
           m == Len(s)
           n == Len(t)
<1>3. DOMAIN u = 1..(m + n) /\ \A i \in 1..(m + n) : u[i] = IF i <= m THEN s[i] ELSE t[i - m]
  BY <1>1, LenProperties
<1> HIDE DEF u, m, n
<1>4. ToSet(u) \subseteq ToSet(s) \cup ToSet(t)
  <2>1. ASSUME NEW i \in 1..(m + n) PROVE u[i] \in ToSet(s) \cup ToSet(t)
    <3>1. CASE i <= m
      <4>1. i \in 1..m /\ u[i] = s[i]
        BY <1>2, <1>3, <3>1 DEF m, n
      <4>2. QED
        BY <1>2, <4>1 DEF ToSet, m
    <3>2. CASE m < i
      <4>1. i - m \in 1..n /\ u[i] = t[i - m]
        BY <1>2, <1>3, <3>2 DEF m, n
      <4>2. QED
        BY <1>2, <4>1 DEF ToSet, n
    <3>3. QED
      BY <1>2, <3>1, <3>2 DEF m, n
  <2>2. QED
    BY <1>3, <2>1 DEF ToSet
<1>5. ToSet(s) \subseteq ToSet(u)
  <2>1. ASSUME NEW i \in 1..m PROVE i \in 1..(m + n) /\ u[i] = s[i]
    BY <1>2, <1>3 DEF m, n
  <2>2. QED
    BY <1>2, <1>3, <2>1 DEF ToSet, m
<1>6. ToSet(t) \subseteq ToSet(u)
  <2>1. ASSUME NEW i \in 1..n PROVE m + i \in 1..(m + n) /\ u[m + i] = t[i]
    <3>1. m + i \in 1..(m + n) /\ ~ (m + i <= m) /\ (m + i) - m = i
      BY <1>2 DEF m, n
    <3>2. QED
      BY <1>3, <3>1
  <2>2. QED
    BY <1>2, <1>3, <2>1 DEF ToSet, n
<1>7. QED
  BY <1>1, <1>4, <1>5, <1>6 DEF u

LEMMA PartHolds ==
    ASSUME NEW s \in Seq(Nat), NEW a \in 1..(Len(s) + 1), NEW b \in (a - 1)..Len(s)
    PROVE  /\ SubSeq(s, a, b) \in Seq(Nat) /\ Len(SubSeq(s, a, b)) = b - a + 1
           /\ ToSet(SubSeq(s, a, b)) = {s[k] : k \in a..b}
<1>1. Len(s) \in Nat /\ DOMAIN s = 1..Len(s) /\ \A i \in 1..Len(s) : s[i] \in Nat
  BY LenProperties
<1>2. a \in Int /\ b \in Int /\ \A i \in a..b : s[i] \in Nat
  BY <1>1
<1> DEFINE u == SubSeq(s, a, b)
<1>3. /\ u \in Seq(Nat) /\ Len(u) = (IF a <= b THEN b - a + 1 ELSE 0)
      /\ \A i \in 1..(b - a + 1) : u[i] = s[a + i - 1]
  BY <1>2, SubSeqProperties
<1> HIDE DEF u
<1>4. Len(u) = b - a + 1
  BY <1>1, <1>2, <1>3
<1>5. DOMAIN u = 1..(b - a + 1)
  BY <1>3, <1>4
<1>6. \A i \in 1..(b - a + 1) : a + i - 1 \in a..b
  BY <1>1, <1>2
<1>7. ASSUME NEW k \in a..b PROVE k - a + 1 \in 1..(b - a + 1) /\ a + (k - a + 1) - 1 = k
  BY <1>1, <1>2
<1>8. ToSet(u) = {s[k] : k \in a..b}
  <2>1. ToSet(u) \subseteq {s[k] : k \in a..b}
    BY <1>3, <1>5, <1>6 DEF ToSet
  <2>2. ASSUME NEW k \in a..b PROVE s[k] \in ToSet(u)
    <3>1. u[k - a + 1] = s[k]
      BY <1>3, <1>7
    <3>2. QED
      BY <1>5, <1>7, <3>1 DEF ToSet
  <2>3. QED
    BY <2>1, <2>2
<1>9. QED
  BY <1>3, <1>4, <1>8 DEF u

(* The same of four sequences of numbers.                                  *)
LEMMA FourPartsHold ==
    ASSUME NEW a \in Seq(Nat), NEW b \in Seq(Nat), NEW c \in Seq(Nat), NEW d \in Seq(Nat)
    PROVE  /\ a \o b \o c \o d \in Seq(Nat)
           /\ Len(a \o b \o c \o d) = Len(a) + Len(b) + Len(c) + Len(d)
           /\ ToSet(a \o b \o c \o d) = ToSet(a) \cup ToSet(b) \cup ToSet(c) \cup ToSet(d)
<1>1. a \o b \in Seq(Nat) /\ a \o b \o c \in Seq(Nat) /\ a \o b \o c \o d \in Seq(Nat)
  OBVIOUS
<1>2. a \o b \in Seq(Nat)
  BY <1>1
<1>3. a \o b \o c \in Seq(Nat)
  BY <1>1
<1>4. Len(a \o b) = Len(a) + Len(b) /\ ToSet(a \o b) = ToSet(a) \cup ToSet(b)
  BY ConcatHolds, Zenon
<1>5. Len(a \o b \o c) = Len(a \o b) + Len(c) /\ ToSet(a \o b \o c) = ToSet(a \o b) \cup ToSet(c)
  BY <1>2, ConcatHolds, Zenon
<1>6. /\ Len(a \o b \o c \o d) = Len(a \o b \o c) + Len(d)
      /\ ToSet(a \o b \o c \o d) = ToSet(a \o b \o c) \cup ToSet(d)
  BY <1>3, ConcatHolds, Zenon
<1>7. ToSet(a \o b \o c \o d) = ToSet(a) \cup ToSet(b) \cup ToSet(c) \cup ToSet(d)
  BY <1>4, <1>5, <1>6, Zenon
<1>8. Len(a \o b \o c \o d) = Len(a) + Len(b) + Len(c) + Len(d)
  BY <1>4, <1>5, <1>6
<1>9. QED
  BY <1>1, <1>7, <1>8

(* The rest of a sequence from a place on.                                 *)
LEMMA RestHolds ==
    ASSUME NEW s \in Seq(Nat), NEW a \in 1..(Len(s) + 1)
    PROVE  /\ SubSeq(s, a, Len(s)) \in Seq(Nat) /\ Len(SubSeq(s, a, Len(s))) = Len(s) - a + 1
           /\ ToSet(SubSeq(s, a, Len(s))) = {s[k] : k \in a..Len(s)}
<1>1. \E b \in (a - 1)..Len(s) : b = Len(s)
  BY LenProperties
<1>2. QED
  BY <1>1, PartHolds, Zenon

(* A drop takes a column to another place, and nothing is lost or doubled. *)
LEMMA ReorderHolds ==
    ASSUME NEW ranks \in Seq(Nat), NEW i \in 1..Len(ranks), NEW j \in 1..Len(ranks)
    PROVE  /\ Reorder(ranks, i, j) \in Seq(Nat) /\ Len(Reorder(ranks, i, j)) = Len(ranks)
           /\ ToSet(Reorder(ranks, i, j)) = ToSet(ranks)
<1> DEFINE one == <<ranks[i]>>
<1>1. Len(ranks) \in Nat /\ i \in 1..Len(ranks) /\ j \in 1..Len(ranks) /\ DOMAIN ranks = 1..Len(ranks)
  BY LenProperties
<1>2. one \in Seq(Nat) /\ Len(one) = 1 /\ ToSet(one) = {ranks[i]}
  <2>1. ranks[i] \in Nat
    BY ElementOfSeq
  <2>2. one \in Seq(Nat) /\ Len(one) = 1 /\ DOMAIN one = 1..1 /\ one[1] = ranks[i]
    BY <2>1
  <2>3. QED
    BY <2>2 DEF ToSet
<1>3. ToSet(ranks) = {ranks[k] : k \in 1..Len(ranks)}
  BY <1>1 DEF ToSet
<1>4. CASE i > j
  <2> DEFINE A == SubSeq(ranks, 1, j - 1)
             B == SubSeq(ranks, j, i - 1)
             C == SubSeq(ranks, i + 1, Len(ranks))
  <2>1. /\ 1 \in 1..(Len(ranks) + 1) /\ j - 1 \in (1 - 1)..Len(ranks)
        /\ j \in 1..(Len(ranks) + 1) /\ i - 1 \in (j - 1)..Len(ranks)
        /\ i + 1 \in 1..(Len(ranks) + 1)
    BY <1>1, <1>4
  <2>2. A \in Seq(Nat) /\ Len(A) = j - 1 - 1 + 1 /\ ToSet(A) = {ranks[k] : k \in 1..(j - 1)}
    BY <2>1, PartHolds, Zenon
  <2>3. B \in Seq(Nat) /\ Len(B) = i - 1 - j + 1 /\ ToSet(B) = {ranks[k] : k \in j..(i - 1)}
    BY <2>1, PartHolds, Zenon
  <2>4. /\ C \in Seq(Nat) /\ Len(C) = Len(ranks) - (i + 1) + 1
        /\ ToSet(C) = {ranks[k] : k \in (i + 1)..Len(ranks)}
    BY <2>1, RestHolds, Zenon
  <2>5. /\ A \o one \o B \o C \in Seq(Nat)
        /\ Len(A \o one \o B \o C) = Len(A) + Len(one) + Len(B) + Len(C)
        /\ ToSet(A \o one \o B \o C) = ToSet(A) \cup ToSet(one) \cup ToSet(B) \cup ToSet(C)
    <3>1. A \in Seq(Nat)
      BY <2>2
    <3>2. B \in Seq(Nat)
      BY <2>3
    <3>3. C \in Seq(Nat)
      BY <2>4
    <3>4. one \in Seq(Nat)
      BY <1>2
    <3> HIDE DEF A, B, C, one
    <3>5. QED
      BY <3>1, <3>2, <3>3, <3>4, FourPartsHold
  <2>6. Reorder(ranks, i, j) = A \o one \o B \o C
    BY <1>4 DEF Reorder
  <2>7. Len(A) + Len(one) + Len(B) + Len(C) = Len(ranks)
    <3> HIDE DEF A, B, C, one
    <3>1. QED
      BY <1>1, <1>2, <2>2, <2>3, <2>4
  <2>8. 1..Len(ranks) = 1..(j - 1) \cup {i} \cup j..(i - 1) \cup (i + 1)..Len(ranks)
    BY <1>1, <1>4
  <2>9. ToSet(A) \cup ToSet(one) \cup ToSet(B) \cup ToSet(C) = ToSet(ranks)
    BY <1>2, <1>3, <2>2, <2>3, <2>4, <2>8
  <2>10. QED
    BY <2>5, <2>6, <2>7, <2>9
<1>5. CASE ~ (i > j)
  <2> DEFINE A == SubSeq(ranks, 1, i - 1)
             B == SubSeq(ranks, i + 1, j)
             C == SubSeq(ranks, j + 1, Len(ranks))
  <2>1. /\ 1 \in 1..(Len(ranks) + 1) /\ i - 1 \in (1 - 1)..Len(ranks)
        /\ i + 1 \in 1..(Len(ranks) + 1) /\ j \in ((i + 1) - 1)..Len(ranks)
        /\ j + 1 \in 1..(Len(ranks) + 1)
    BY <1>1, <1>5
  <2>2. A \in Seq(Nat) /\ Len(A) = i - 1 - 1 + 1 /\ ToSet(A) = {ranks[k] : k \in 1..(i - 1)}
    BY <2>1, PartHolds, Zenon
  <2>3. B \in Seq(Nat) /\ Len(B) = j - (i + 1) + 1 /\ ToSet(B) = {ranks[k] : k \in (i + 1)..j}
    BY <2>1, PartHolds, Zenon
  <2>4. /\ C \in Seq(Nat) /\ Len(C) = Len(ranks) - (j + 1) + 1
        /\ ToSet(C) = {ranks[k] : k \in (j + 1)..Len(ranks)}
    BY <2>1, RestHolds, Zenon
  <2>5. /\ A \o B \o one \o C \in Seq(Nat)
        /\ Len(A \o B \o one \o C) = Len(A) + Len(B) + Len(one) + Len(C)
        /\ ToSet(A \o B \o one \o C) = ToSet(A) \cup ToSet(B) \cup ToSet(one) \cup ToSet(C)
    <3>1. A \in Seq(Nat)
      BY <2>2
    <3>2. B \in Seq(Nat)
      BY <2>3
    <3>3. C \in Seq(Nat)
      BY <2>4
    <3>4. one \in Seq(Nat)
      BY <1>2
    <3> HIDE DEF A, B, C, one
    <3>5. QED
      BY <3>1, <3>2, <3>3, <3>4, FourPartsHold
  <2>6. Reorder(ranks, i, j) = A \o B \o one \o C
    BY <1>5 DEF Reorder
  <2>7. Len(A) + Len(B) + Len(one) + Len(C) = Len(ranks)
    <3> HIDE DEF A, B, C, one
    <3>1. QED
      BY <1>1, <1>2, <2>2, <2>3, <2>4
  <2>8. 1..Len(ranks) = 1..(i - 1) \cup (i + 1)..j \cup {i} \cup (j + 1)..Len(ranks)
    BY <1>1, <1>5
  <2>9. ToSet(A) \cup ToSet(B) \cup ToSet(one) \cup ToSet(C) = ToSet(ranks)
    BY <1>2, <1>3, <2>2, <2>3, <2>4, <2>8
  <2>10. QED
    BY <2>5, <2>6, <2>7, <2>9
<1>6. QED
  BY <1>4, <1>5

(* An order that is made as long as a drag needs it still ranks the        *)
(* columns without a gap.                                                  *)
LEMMA PadHolds ==
    ASSUME NEW ranks \in Seq(Nat), ToSet(ranks) = 0..(Len(ranks) - 1), NEW length \in Nat
    PROVE  LET padded == PadRanks(ranks, length)
           IN  /\ padded \in Seq(Nat) /\ Len(padded) >= length
               /\ ToSet(padded) = 0..(Len(padded) - 1)
<1> DEFINE k == IF length < Len(ranks) THEN 0 ELSE length - Len(ranks)
           more == [i \in 1..k |-> Len(ranks) + i - 1]
<1>1. Len(ranks) \in Nat
  BY LenProperties
<1>2. k \in Nat /\ Len(ranks) + k >= length
  BY <1>1
<1> HIDE DEF k
<1>3. more \in Seq(Nat)
  <2>1. \A i \in 1..k : Len(ranks) + i - 1 \in Nat
    BY <1>1, <1>2
  <2>2. QED
    BY <1>2, <2>1, IsASeq
<1>4. Len(more) = k /\ DOMAIN more = 1..k
  BY <1>2
<1>5. ToSet(more) = Len(ranks)..(Len(ranks) + k - 1)
  <2>1. ASSUME NEW i \in 1..k PROVE more[i] \in Len(ranks)..(Len(ranks) + k - 1)
    BY <1>1, <1>2
  <2>2. ASSUME NEW c \in Len(ranks)..(Len(ranks) + k - 1)
        PROVE  c - Len(ranks) + 1 \in 1..k /\ more[c - Len(ranks) + 1] = c
    BY <1>1, <1>2
  <2> HIDE DEF more
  <2>3. QED
    BY <1>4, <2>1, <2>2 DEF ToSet
<1> HIDE DEF more
<1>6. /\ ranks \o more \in Seq(Nat) /\ Len(ranks \o more) = Len(ranks) + Len(more)
      /\ ToSet(ranks \o more) = ToSet(ranks) \cup ToSet(more)
  BY <1>3, ConcatHolds
<1>7. PadRanks(ranks, length) = ranks \o more
  BY DEF PadRanks, more, k
<1>8. 0..(Len(ranks) - 1) \cup Len(ranks)..(Len(ranks) + k - 1) = 0..(Len(ranks) + k - 1)
  BY <1>1, <1>2
<1>9. ToSet(ranks \o more) = 0..(Len(ranks \o more) - 1)
  BY <1>4, <1>5, <1>6, <1>8
<1>10. Len(ranks \o more) >= length
  BY <1>2, <1>4, <1>6
<1>11. QED
  BY <1>6, <1>7, <1>9, <1>10

LEMMA PlaceHolds ==
    ASSUME NEW ranks \in Seq(Nat), NEW c \in ToSet(ranks)
    PROVE  PlaceOf(ranks, c) \in 1..Len(ranks) /\ ranks[PlaceOf(ranks, c)] = c
<1>1. DOMAIN ranks = 1..Len(ranks)
  BY LenProperties
<1>2. \E i \in DOMAIN ranks : ranks[i] = c
  BY DEF ToSet
<1>3. QED
  BY <1>1, <1>2 DEF PlaceOf

(* Every drop leaves an order of the columns without a gap.                *)
LEMMA MovedHolds ==
    ASSUME LKInv, NEW from \in Nat, NEW target \in Nat \cup {NoColumn}
    PROVE  Moved(from, target) \in Seq(Nat) /\ ToSet(Moved(from, target)) = 0..(Len(Moved(from, target)) - 1)
<1> DEFINE onto == IF target = NoColumn THEN 0 ELSE target
           most == Max({from, onto})
           ranks == PadRanks(lkRanks, most + 1)
<1>1. onto \in Nat
  BY DEF NoColumn
<1> HIDE DEF onto
<1>2. most \in Nat /\ most >= from /\ most >= onto
  <2>1. \E x \in {from, onto} : \A y \in {from, onto} : x >= y
    BY <1>1
  <2>2. most \in {from, onto} /\ \A y \in {from, onto} : most >= y
    BY <2>1 DEF Max
  <2>3. QED
    BY <1>1, <2>2
<1> HIDE DEF most
<1>3. ranks \in Seq(Nat) /\ Len(ranks) >= most + 1 /\ ToSet(ranks) = 0..(Len(ranks) - 1)
  BY <1>2, PadHolds DEF LKInv
<1>4. Moved(from, target) = Reorder(ranks, PlaceOf(ranks, from), PlaceOf(ranks, onto))
  BY DEF Moved, onto, most
<1> HIDE DEF ranks
<1>5. from \in ToSet(ranks) /\ onto \in ToSet(ranks)
  <2>1. Len(ranks) \in Nat
    BY <1>3, LenProperties
  <2>2. QED
    BY <1>1, <1>2, <1>3, <2>1
<1>6. PlaceOf(ranks, from) \in 1..Len(ranks) /\ PlaceOf(ranks, onto) \in 1..Len(ranks)
  BY <1>3, <1>5, PlaceHolds
<1>7. /\ Reorder(ranks, PlaceOf(ranks, from), PlaceOf(ranks, onto)) \in Seq(Nat)
      /\ Len(Reorder(ranks, PlaceOf(ranks, from), PlaceOf(ranks, onto))) = Len(ranks)
      /\ ToSet(Reorder(ranks, PlaceOf(ranks, from), PlaceOf(ranks, onto))) = ToSet(ranks)
  BY <1>3, <1>6, ReorderHolds
<1>8. QED
  BY <1>3, <1>4, <1>7

LEMMA LKInvInit == LKInit => LKInv
<1> SUFFICES ASSUME LKInit PROVE LKInv
  OBVIOUS
<1>1. lkRanks \in Seq(Nat) /\ ToSet(lkRanks) = 0..(Len(lkRanks) - 1)
  <2>1. lkRanks = <<>> /\ lkRanks \in Seq(Nat) /\ Len(lkRanks) = 0 /\ DOMAIN lkRanks = {}
    BY DEF LKInit
  <2>2. ToSet(lkRanks) = {} /\ 0..(0 - 1) = {}
    BY <2>1 DEF ToSet
  <2>3. QED
    BY <2>1, <2>2
<1>2. QED
  BY <1>1, ColumnsAssumption DEF LKInit, LKInv, Columns, NoColumn

LEMMA LKInvStep == LKInv /\ [LKNext]_lkVars => LKInv'
<1> SUFFICES ASSUME LKInv, [LKNext]_lkVars PROVE LKInv'
  OBVIOUS
<1>1. Columns \subseteq 0..(MaxColumns - 1)
  BY ColumnsAssumption DEF LKInv, Columns
<1>2. CASE Release
  BY <1>2, ColumnsAssumption DEF Release, LKInv, Columns, NoColumn
<1>3. ASSUME NEW c \in Columns, DragStart(c) PROVE LKInv'
  BY <1>3 DEF DragStart, LKInv, Columns, NoColumn
<1>4. ASSUME NEW c \in Columns, DragOver(c) PROVE LKInv'
  BY <1>1, <1>4 DEF DragOver, LKInv, Columns, NoColumn
<1>5. ASSUME NEW c \in Columns, Toggle(c) PROVE LKInv'
  BY <1>1, <1>5 DEF Toggle, LKInv, Columns, NoColumn
<1>6. CASE DragEnd
  <2>1. lkDrag \in Nat /\ lkDrop[lkDrag] \in Nat \cup {NoColumn}
    BY <1>1, <1>6, ColumnsAssumption DEF DragEnd, LKInv, Columns, NoColumn
  <2>2. lkRanks' \in Seq(Nat) /\ ToSet(lkRanks') = 0..(Len(lkRanks') - 1)
    BY <1>6, <2>1, MovedHolds DEF DragEnd
  <2>3. QED
    BY <1>6, <2>2 DEF DragEnd, LKInv, Columns, NoColumn
<1>7. CASE DragAway
  BY <1>7 DEF DragAway, LKInv, Columns, NoColumn
<1>8. CASE Reset
  <2>1. lkRanks' = <<>> /\ lkRanks' \in Seq(Nat) /\ Len(lkRanks') = 0 /\ DOMAIN lkRanks' = {}
    BY <1>8 DEF Reset
  <2>2. ToSet(lkRanks') = {} /\ 0..(0 - 1) = {}
    BY <2>1 DEF ToSet
  <2>3. lkRanks' \in Seq(Nat) /\ ToSet(lkRanks') = 0..(Len(lkRanks') - 1)
    BY <2>1, <2>2
  <2>4. QED
    BY <1>8, <2>3 DEF Reset, LKInv, Columns, NoColumn
<1>9. CASE UNCHANGED lkVars
  BY <1>9 DEF lkVars, LKInv, Columns, NoColumn
<1>10. QED
  BY <1>2, <1>3, <1>4, <1>5, <1>6, <1>7, <1>8, <1>9 DEF LKNext

(* A ranked column is drawn among the ranked ones, at the place that only  *)
(* it has, and any other column behind them, where it is written.          *)
LEMMA AllDrawn == LKInv => Drawn = Columns
<1> SUFFICES ASSUME LKInv PROVE Drawn = Columns
  OBVIOUS
<1>1. lkRanks \in Seq(Nat) /\ ToSet(lkRanks) = 0..(Len(lkRanks) - 1) /\ Len(lkRanks) \in Nat
  BY LenProperties DEF LKInv
<1>2. ASSUME NEW c \in Columns, NEW d \in Columns, PlaceDrawn(d) = PlaceDrawn(c) PROVE d = c
  <2>1. c \in Nat /\ d \in Nat
    BY DEF LKInv, Columns
  <2>2. ASSUME NEW e \in {c, d}, e \in ToSet(lkRanks)
        PROVE  PlaceDrawn(e) \in 0..(Len(lkRanks) - 1) /\ lkRanks[PlaceDrawn(e) + 1] = e
    <3>1. PlaceOf(lkRanks, e) \in 1..Len(lkRanks) /\ lkRanks[PlaceOf(lkRanks, e)] = e
      BY <1>1, <2>2, PlaceHolds
    <3>2. (PlaceOf(lkRanks, e) - 1) + 1 = PlaceOf(lkRanks, e)
      BY <3>1
    <3>3. QED
      BY <1>1, <2>2, <3>1, <3>2 DEF PlaceDrawn
  <2>3. ASSUME NEW e \in {c, d}, e \notin ToSet(lkRanks)
        PROVE  PlaceDrawn(e) = e /\ e \notin 0..(Len(lkRanks) - 1)
    BY <1>1, <2>3 DEF PlaceDrawn
  <2>4. CASE c \in ToSet(lkRanks) /\ d \in ToSet(lkRanks)
    BY <1>2, <2>2, <2>4
  <2>5. CASE c \notin ToSet(lkRanks) /\ d \notin ToSet(lkRanks)
    BY <1>2, <2>3, <2>5
  <2>6. CASE c \in ToSet(lkRanks) /\ d \notin ToSet(lkRanks)
    BY <1>2, <2>2, <2>3, <2>6
  <2>7. CASE c \notin ToSet(lkRanks) /\ d \in ToSet(lkRanks)
    BY <1>2, <2>2, <2>3, <2>7
  <2>8. QED
    BY <2>4, <2>5, <2>6, <2>7
<1>3. \A c \in Columns, d \in Columns : PlaceDrawn(d) = PlaceDrawn(c) => d <= c
  BY <1>2 DEF LKInv, Columns
<1>4. QED
  BY <1>3 DEF Drawn

(* The stored order ranks the columns it knows from 0 without a gap        *)
(* (columns-button.tsx, data-table.tsx).                                   *)
THEOREM ColumnsInvariance == LKSpec => []LKInv
<1>1. QED
  BY LKInvInit, LKInvStep, PTL DEF LKSpec

(* Every column that is not hidden is drawn, whatever was dragged where    *)
(* and whatever release of the table the stored order is of.               *)
THEOREM ColumnsSafe == LKSpec => []LKTypeOK
<1>1. LKInv => LKTypeOK
  BY AllDrawn DEF LKInv, LKTypeOK, Visible
<1>2. QED
  BY <1>1, ColumnsInvariance, PTL

-----------------------------------------------------------------------------
(* ListPagination                                                          *)

LEMMA SmallerOfTwo ==
    ASSUME NEW a \in Int, NEW b \in Int
    PROVE  Min({a, b}) = IF a <= b THEN a ELSE b
<1>1. \E x \in {a, b} : \A y \in {a, b} : x <= y
  OBVIOUS
<1>2. Min({a, b}) \in {a, b} /\ \A y \in {a, b} : Min({a, b}) <= y
  BY <1>1 DEF Min
<1>3. QED
  BY <1>2

LEMMA LargerOfTwo ==
    ASSUME NEW a \in Int, NEW b \in Int
    PROVE  Max({a, b}) = IF a >= b THEN a ELSE b
<1>1. \E x \in {a, b} : \A y \in {a, b} : x >= y
  OBVIOUS
<1>2. Max({a, b}) \in {a, b} /\ \A y \in {a, b} : Max({a, b}) >= y
  BY <1>1 DEF Max
<1>3. QED
  BY <1>2

LEMMA RunHolds ==
    ASSUME NEW start \in Int, NEW end \in Int, end >= start - 1
    PROVE  /\ Run(start, end) \in Seq(Int) /\ Len(Run(start, end)) = end - start + 1
           /\ \A i \in 1..(end - start + 1) : Run(start, end)[i] = start + i - 1
<1>1. (IF end < start THEN 0 ELSE end - start + 1) = end - start + 1 /\ end - start + 1 \in Nat
  OBVIOUS
<1>2. Run(start, end) = [i \in 1..(end - start + 1) |-> start + i - 1]
  BY <1>1 DEF Run
<1>3. \A i \in 1..(end - start + 1) : start + i - 1 \in Int
  OBVIOUS
<1>4. QED
  BY <1>1, <1>2, <1>3, IsASeq

(* The five parts of the links, one after the other, where all but the    *)
(* siblings are single links.                                              *)
InARow(links, start, before, siblings, after, end) ==
    /\ links \in Seq(Int) /\ Len(links) = Len(siblings) + 4
    /\ links[1] = start[1] /\ links[2] = before[1]
    /\ links[Len(siblings) + 3] = after[1] /\ links[Len(siblings) + 4] = end[1]
    /\ \A i \in 1..Len(siblings) : links[i + 2] = siblings[i]

LEMMA LinksInARow ==
    ASSUME NEW page, NEW count,
           StartPages(count) \in Seq(Int), Len(StartPages(count)) = 1,
           Before(page, count) \in Seq(Int), Len(Before(page, count)) = 1,
           After(page, count) \in Seq(Int), Len(After(page, count)) = 1,
           EndPages(count) \in Seq(Int), Len(EndPages(count)) = 1,
           Run(SiblingsStart(page, count), SiblingsEnd(page, count)) \in Seq(Int)
    PROVE  InARow(PageLinks(page, count), StartPages(count), Before(page, count),
                  Run(SiblingsStart(page, count), SiblingsEnd(page, count)),
                  After(page, count), EndPages(count))
<1>a. PICK a, b, r, d, e :
        /\ a = StartPages(count) /\ b = Before(page, count)
        /\ r = Run(SiblingsStart(page, count), SiblingsEnd(page, count))
        /\ d = After(page, count) /\ e = EndPages(count)
  OBVIOUS
<1>0. /\ a \in Seq(Int) /\ b \in Seq(Int) /\ r \in Seq(Int) /\ d \in Seq(Int) /\ e \in Seq(Int)
      /\ Len(a) = 1 /\ Len(b) = 1 /\ Len(d) = 1 /\ Len(e) = 1
  BY <1>a
<1> DEFINE k == Len(r)
           ab == a \o b
           abr == ab \o r
           abrd == abr \o d
           s == abrd \o e
<1>1. k \in Nat
  BY <1>0, LenProperties
<1>2. ab \in Seq(Int) /\ Len(ab) = 2 /\ ab[1] = a[1] /\ ab[2] = b[1]
  <2>1. /\ ab \in Seq(Int) /\ Len(ab) = Len(a) + Len(b)
        /\ \A i \in 1..(Len(a) + Len(b)) : ab[i] = IF i <= Len(a) THEN a[i] ELSE b[i - Len(a)]
    BY <1>0, ConcatProperties
  <2> HIDE DEF ab
  <2>2. QED
    BY <1>0, <2>1
<1> HIDE DEF ab
<1>3. /\ abr \in Seq(Int) /\ Len(abr) = k + 2 /\ abr[1] = a[1] /\ abr[2] = b[1]
      /\ \A i \in 1..k : abr[i + 2] = r[i]
  <2>1. /\ abr \in Seq(Int) /\ Len(abr) = Len(ab) + Len(r)
        /\ \A i \in 1..(Len(ab) + Len(r)) :
              abr[i] = IF i <= Len(ab) THEN ab[i] ELSE r[i - Len(ab)]
    <3>1. ab \in Seq(Int) /\ r \in Seq(Int)
      BY <1>0, <1>2
    <3>2. QED
      BY <3>1, ConcatProperties
  <2> HIDE DEF abr
  <2>2. \A i \in 1..k : i + 2 \in 1..(2 + k) /\ ~ (i + 2 <= 2) /\ (i + 2) - 2 = i
    BY <1>1
  <2>3. 1 \in 1..(2 + k) /\ 2 \in 1..(2 + k)
    BY <1>1
  <2>4. QED
    BY <1>1, <1>2, <2>1, <2>2, <2>3
<1> HIDE DEF abr
<1>4. /\ abrd \in Seq(Int) /\ Len(abrd) = k + 3 /\ abrd[1] = a[1] /\ abrd[2] = b[1]
      /\ \A i \in 1..k : abrd[i + 2] = r[i]
      /\ abrd[k + 3] = d[1]
  <2>1. /\ abrd \in Seq(Int) /\ Len(abrd) = Len(abr) + Len(d)
        /\ \A i \in 1..(Len(abr) + Len(d)) :
              abrd[i] = IF i <= Len(abr) THEN abr[i] ELSE d[i - Len(abr)]
    <3>1. abr \in Seq(Int) /\ d \in Seq(Int)
      BY <1>0, <1>3
    <3>2. QED
      BY <3>1, ConcatProperties
  <2> HIDE DEF abrd
  <2>2. \A i \in 1..k : i + 2 \in 1..(k + 2 + 1) /\ i + 2 <= k + 2
    BY <1>1
  <2>3. /\ 1 \in 1..(k + 2 + 1) /\ 2 \in 1..(k + 2 + 1) /\ k + 3 \in 1..(k + 2 + 1)
        /\ ~ (k + 3 <= k + 2) /\ (k + 3) - (k + 2) = 1 /\ 1 <= k + 2 /\ 2 <= k + 2
    BY <1>1
  <2>4. Len(abrd) = k + 3 /\ abrd[1] = a[1] /\ abrd[2] = b[1] /\ abrd[k + 3] = d[1]
    <3>1. Len(abr) + Len(d) = k + 2 + 1
      BY <1>0, <1>3
    <3>2. abrd[1] = abr[1] /\ abrd[2] = abr[2] /\ abrd[k + 3] = d[(k + 3) - (k + 2)]
      BY <1>3, <2>1, <2>3, <3>1
    <3>3. QED
      BY <1>1, <1>3, <2>1, <2>3, <3>1, <3>2
  <2>5. \A i \in 1..k : abrd[i + 2] = r[i]
    <3>1. Len(abr) = k + 2 /\ Len(abr) + Len(d) = k + 2 + 1
      BY <1>0, <1>3
    <3>2. \A i \in 1..k : abrd[i + 2] = abr[i + 2]
      BY <2>1, <2>2, <3>1
    <3>3. QED
      BY <1>3, <3>2
  <2>6. QED
    BY <2>1, <2>4, <2>5
<1> HIDE DEF abrd
<1>5. /\ s \in Seq(Int) /\ Len(s) = k + 4 /\ s[1] = a[1] /\ s[2] = b[1]
      /\ \A i \in 1..k : s[i + 2] = r[i]
      /\ s[k + 3] = d[1] /\ s[k + 4] = e[1]
  <2>1. /\ s \in Seq(Int) /\ Len(s) = Len(abrd) + Len(e)
        /\ \A i \in 1..(Len(abrd) + Len(e)) :
              s[i] = IF i <= Len(abrd) THEN abrd[i] ELSE e[i - Len(abrd)]
    <3>1. abrd \in Seq(Int) /\ e \in Seq(Int)
      BY <1>0, <1>4
    <3>2. QED
      BY <3>1, ConcatProperties
  <2> HIDE DEF s
  <2>2. \A i \in 1..k : i + 2 \in 1..(k + 3 + 1) /\ i + 2 <= k + 3
    BY <1>1
  <2>3. /\ 1 \in 1..(k + 3 + 1) /\ 2 \in 1..(k + 3 + 1) /\ k + 3 \in 1..(k + 3 + 1)
        /\ k + 4 \in 1..(k + 3 + 1) /\ ~ (k + 4 <= k + 3) /\ (k + 4) - (k + 3) = 1
        /\ 1 <= k + 3 /\ 2 <= k + 3 /\ k + 3 <= k + 3
    BY <1>1
  <2>4. Len(s) = k + 4 /\ s[1] = a[1] /\ s[2] = b[1] /\ s[k + 3] = d[1] /\ s[k + 4] = e[1]
    <3>1. Len(abrd) + Len(e) = k + 3 + 1
      BY <1>0, <1>4
    <3>2. /\ s[1] = abrd[1] /\ s[2] = abrd[2] /\ s[k + 3] = abrd[k + 3]
          /\ s[k + 4] = e[(k + 4) - (k + 3)]
      BY <1>4, <2>1, <2>3, <3>1
    <3>3. QED
      BY <1>1, <1>4, <2>1, <2>3, <3>1, <3>2
  <2>5. \A i \in 1..k : s[i + 2] = r[i]
    <3>1. Len(abrd) = k + 3 /\ Len(abrd) + Len(e) = k + 3 + 1
      BY <1>0, <1>4
    <3>2. \A i \in 1..k : s[i + 2] = abrd[i + 2]
      BY <2>1, <2>2, <3>1
    <3>3. QED
      BY <1>4, <3>2
  <2>6. QED
    BY <2>1, <2>4, <2>5
<1>6. s = PageLinks(page, count)
  BY <1>a DEF PageLinks, ab, abr, abrd
<1> HIDE DEF s
<1>7. QED
  BY <1>a, <1>5, <1>6 DEF InARow

(* Of a list of four pages or more: an ellipsis stands in the second place *)
(* and in the last but one, or else the page that counts on.               *)
ManyLinks(links, from, to, page, count) ==
    LET k == to - from + 1
    IN  /\ from \in Int /\ to \in Int /\ k \in Nat
        /\ 3 <= from /\ to <= count - 2
        /\ from <= page - 1 \/ from = 3
        /\ to >= page + 1 \/ to = count - 2
        /\ from > 3 \/ to < count - 2 => k > 0
        /\ links \in Seq(Int) /\ Len(links) = k + 4
        /\ links[1] = 1 /\ links[k + 4] = count
        /\ links[2] = IF from > 3 THEN Ellipsis ELSE 2
        /\ links[k + 3] = IF to < count - 2 THEN Ellipsis ELSE count - 1
        /\ \A i \in 1..k : links[i + 2] = from + i - 1

LEMMA LinksOfMany ==
    ASSUME NEW page \in Nat, NEW count \in Nat, page \in 1..count, count >= 4
    PROVE  ManyLinks(PageLinks(page, count), SiblingsStart(page, count), SiblingsEnd(page, count),
                     page, count)
<1> DEFINE from == SiblingsStart(page, count)
           to == SiblingsEnd(page, count)
           k == to - from + 1
<1>1. from = LET m == IF page - 1 <= count - 4 THEN page - 1 ELSE count - 4
             IN  IF m >= 3 THEN m ELSE 3
  <2>1. Min({page - 1, count - 4}) = IF page - 1 <= count - 4 THEN page - 1 ELSE count - 4
    BY SmallerOfTwo
  <2>2. Min({page - 1, count - 4}) \in Int
    BY <2>1
  <2>3. Max({Min({page - 1, count - 4}), 3}) =
            IF Min({page - 1, count - 4}) >= 3 THEN Min({page - 1, count - 4}) ELSE 3
    BY <2>2, LargerOfTwo
  <2>4. from = Max({Min({page - 1, count - 4}), 3})
    <3>1. page - SiblingCount = page - 1 /\ count - BoundaryCount - SiblingCount * 2 - 1 = count - 4
          /\ BoundaryCount + 2 = 3
      BY DEF SiblingCount, BoundaryCount
    <3>2. QED
      BY <3>1 DEF SiblingsStart
  <2>5. QED
    BY <2>1, <2>3, <2>4
<1>2. to = LET m == IF page + 1 >= 5 THEN page + 1 ELSE 5
           IN  IF m <= count - 2 THEN m ELSE count - 2
  <2>1. Max({page + 1, 5}) = IF page + 1 >= 5 THEN page + 1 ELSE 5
    BY LargerOfTwo
  <2>2. Max({page + 1, 5}) \in Int
    BY <2>1
  <2>3. Min({Max({page + 1, 5}), count - 2}) =
            IF Max({page + 1, 5}) <= count - 2 THEN Max({page + 1, 5}) ELSE count - 2
    BY <2>2, SmallerOfTwo
  <2>4. to = Min({Max({page + 1, 5}), count - 2})
    <3>1. page + SiblingCount = page + 1 /\ BoundaryCount + SiblingCount * 2 + 2 = 5
          /\ count - BoundaryCount - 1 = count - 2
      BY DEF SiblingCount, BoundaryCount
    <3>2. QED
      BY <3>1 DEF SiblingsEnd
  <2>5. QED
    BY <2>1, <2>3, <2>4
<1> HIDE DEF from, to
<1>3. /\ from \in Int /\ to \in Int /\ k \in Nat /\ 3 <= from /\ to <= count - 2
      /\ from <= page - 1 \/ from = 3
      /\ to >= page + 1 \/ to = count - 2
      /\ from > 3 \/ to < count - 2 => k > 0
  BY <1>1, <1>2
<1> DEFINE a == StartPages(count)
           b == Before(page, count)
           r == Run(from, to)
           d == After(page, count)
           e == EndPages(count)
<1>4. a \in Seq(Int) /\ Len(a) = 1 /\ a[1] = 1
  <2>1. Min({BoundaryCount, count}) = 1
    BY SmallerOfTwo DEF BoundaryCount
  <2>2. a = Run(1, 1)
    BY <2>1 DEF StartPages
  <2>3. /\ Run(1, 1) \in Seq(Int) /\ Len(Run(1, 1)) = 1 - 1 + 1
        /\ \A i \in 1..(1 - 1 + 1) : Run(1, 1)[i] = 1 + i - 1
    <3>1. 1 \in Int /\ 1 >= 1 - 1
      OBVIOUS
    <3>2. QED
      BY <3>1, RunHolds, Zenon
  <2>4. QED
    BY <2>2, <2>3
<1>5. e \in Seq(Int) /\ Len(e) = 1 /\ e[1] = count
  <2>1. count - BoundaryCount + 1 = count /\ BoundaryCount + 1 = 2
    BY DEF BoundaryCount
  <2>2. Max({count, 2}) = count
    BY LargerOfTwo
  <2>3. e = Run(count, count)
    BY <2>1, <2>2 DEF EndPages
  <2>4. /\ Run(count, count) \in Seq(Int) /\ Len(Run(count, count)) = count - count + 1
        /\ \A i \in 1..(count - count + 1) : Run(count, count)[i] = count + i - 1
    <3>1. count \in Int /\ count >= count - 1
      OBVIOUS
    <3>2. QED
      BY <3>1, RunHolds, Zenon
  <2>5. QED
    BY <2>3, <2>4
<1>6. b \in Seq(Int) /\ Len(b) = 1 /\ b[1] = IF from > 3 THEN Ellipsis ELSE 2
  <2>1. b = IF from > 3 THEN <<Ellipsis>> ELSE <<2>>
    BY DEF Before, BoundaryCount, from
  <2>2. QED
    BY <2>1 DEF Ellipsis
<1>7. d \in Seq(Int) /\ Len(d) = 1 /\ d[1] = IF to < count - 2 THEN Ellipsis ELSE count - 1
  <2>1. d = IF to < count - 2 THEN <<Ellipsis>> ELSE <<count - 1>>
    BY DEF After, BoundaryCount, to
  <2>2. QED
    BY <2>1 DEF Ellipsis
<1>8. r \in Seq(Int) /\ Len(r) = k /\ \A i \in 1..k : r[i] = from + i - 1
  <2>1. from \in Int /\ to \in Int /\ to >= from - 1
    BY <1>3
  <2>2. QED
    BY <2>1, RunHolds, Zenon
<1>9. /\ PageLinks(page, count) \in Seq(Int) /\ Len(PageLinks(page, count)) = Len(r) + 4
      /\ PageLinks(page, count)[1] = a[1] /\ PageLinks(page, count)[2] = b[1]
      /\ PageLinks(page, count)[Len(r) + 3] = d[1] /\ PageLinks(page, count)[Len(r) + 4] = e[1]
      /\ \A i \in 1..Len(r) : PageLinks(page, count)[i + 2] = r[i]
  <2>1. StartPages(count) \in Seq(Int) /\ Len(StartPages(count)) = 1
    BY <1>4
  <2>2. Before(page, count) \in Seq(Int) /\ Len(Before(page, count)) = 1
    BY <1>6
  <2>3. After(page, count) \in Seq(Int) /\ Len(After(page, count)) = 1
    BY <1>7
  <2>4. EndPages(count) \in Seq(Int) /\ Len(EndPages(count)) = 1
    BY <1>5
  <2>5. Run(SiblingsStart(page, count), SiblingsEnd(page, count)) \in Seq(Int)
    BY <1>8 DEF from, to
  <2>6. InARow(PageLinks(page, count), StartPages(count), Before(page, count),
               Run(SiblingsStart(page, count), SiblingsEnd(page, count)),
               After(page, count), EndPages(count))
    BY <2>1, <2>2, <2>3, <2>4, <2>5, LinksInARow
  <2>7. InARow(PageLinks(page, count), a, b, r, d, e)
    BY <2>6 DEF from, to
  <2> HIDE DEF a, b, r, d, e
  <2>8. QED
    BY <2>7 DEF InARow
<1> HIDE DEF a, b, r, d, e, k
<1>10. QED
  BY <1>3, <1>4, <1>5, <1>6, <1>7, <1>8, <1>9 DEF k, from, to, ManyLinks

LEMMA ManySound ==
    ASSUME NEW links, NEW from, NEW to, lpCount \in Nat, lpPage \in 1..lpCount, lpCount >= 4,
           ManyLinks(links, from, to, lpPage, lpCount)
    PROVE  LinksSound(links)
<1> DEFINE k == to - from + 1
           n == k + 4
<1>1. /\ from \in Int /\ to \in Int /\ k \in Nat /\ lpCount \in Nat /\ lpPage \in 1..lpCount
      /\ 3 <= from /\ to <= lpCount - 2 /\ lpCount >= 4
      /\ from <= lpPage - 1 \/ from = 3
      /\ to >= lpPage + 1 \/ to = lpCount - 2
      /\ from > 3 \/ to < lpCount - 2 => k > 0
  BY DEF ManyLinks
<1>2. links \in Seq(Int) /\ Len(links) = n /\ DOMAIN links = 1..n
  <2>1. links \in Seq(Int) /\ Len(links) = n
    BY DEF ManyLinks
  <2>2. QED
    BY <2>1, LenProperties
<1>3. ASSUME NEW i \in 1..n
      PROVE  links[i] = IF i = 1 THEN 1
                        ELSE IF i = n THEN lpCount
                        ELSE IF i = 2 /\ from > 3 THEN Ellipsis
                        ELSE IF i = n - 1 /\ to < lpCount - 2 THEN Ellipsis
                        ELSE from + i - 3
  <2>1. /\ links[1] = 1 /\ links[k + 4] = lpCount
        /\ links[2] = IF from > 3 THEN Ellipsis ELSE 2
        /\ links[k + 3] = IF to < lpCount - 2 THEN Ellipsis ELSE lpCount - 1
        /\ \A j \in 1..k : links[j + 2] = from + j - 1
    BY DEF ManyLinks
  <2>2. CASE i \in 3..(k + 2)
    <3>1. i - 2 \in 1..k /\ (i - 2) + 2 = i /\ from + (i - 2) - 1 = from + i - 3
      BY <1>1, <2>2
    <3>2. links[i] = from + i - 3
      BY <2>1, <3>1
    <3>3. i # 1 /\ i # 2 /\ i # n - 1 /\ i # n
      BY <1>1, <2>2
    <3>4. QED
      BY <3>2, <3>3
  <2>3. CASE i = 1 \/ i = k + 4
    BY <1>1, <2>1, <2>3
  <2>4. CASE i = 2
    BY <1>1, <2>1, <2>4
  <2>5. CASE i = k + 3
    BY <1>1, <2>1, <2>5
  <2>6. QED
    BY <1>1, <2>2, <2>3, <2>4, <2>5
<1> HIDE DEF n
<1>4. n = to - from + 5
  BY <1>1 DEF n
<1>5. \A q \in {1, lpCount, lpPage - 1, lpPage, lpPage + 1} \cap 1..lpCount : q \in ToSet(links)
  <2> SUFFICES ASSUME NEW q \in {1, lpCount, lpPage - 1, lpPage, lpPage + 1} \cap 1..lpCount
               PROVE  \E i \in 1..n : links[i] = q
    BY <1>2 DEF ToSet
  <2>1. CASE q = 1
    BY <1>1, <1>3, <1>4, <2>1
  <2>2. CASE q = lpCount
    <3>1. n \in 1..n /\ n # 1
      BY <1>1, <1>4
    <3>2. QED
      BY <1>3, <2>2, <3>1
  <2>3. CASE q \notin {1, lpCount}
    <3>1. q \in (from - 1)..(to + 1) /\ (q = from - 1 => from = 3) /\ (q = to + 1 => to = lpCount - 2)
      BY <1>1, <2>3
    <3>2. q - from + 3 \in 2..(n - 1) /\ from + (q - from + 3) - 3 = q
      BY <1>1, <1>4, <3>1
    <3>3. ~ (q - from + 3 = 2 /\ from > 3) /\ ~ (q - from + 3 = n - 1 /\ to < lpCount - 2)
      BY <1>1, <1>4, <3>1
    <3>4. q - from + 3 \in 1..n /\ q - from + 3 # 1 /\ q - from + 3 # n
      BY <1>1, <1>4, <3>2
    <3>5. links[q - from + 3] = q
      BY <1>3, <3>2, <3>3, <3>4
    <3>6. QED
      BY <3>4, <3>5
  <2>4. QED
    BY <2>1, <2>2, <2>3
<1>6. \A i \in 1..n : links[i] \in 1..lpCount \cup {Ellipsis}
  BY <1>1, <1>3, <1>4
<1>7. ASSUME NEW i \in 1..n, NEW j \in 1..n, i < j, links[i] # Ellipsis, links[j] # Ellipsis
      PROVE  links[i] < links[j]
  BY <1>1, <1>3, <1>4, <1>7 DEF Ellipsis
<1>8. ASSUME NEW i \in 1..n, links[i] = Ellipsis
      PROVE  i \in 2..(n - 1) /\ links[i + 1] - links[i - 1] > 2
  <2>1. (i = 2 /\ from > 3) \/ (i = n - 1 /\ to < lpCount - 2)
    BY <1>1, <1>3, <1>4, <1>8 DEF Ellipsis
  <2>2. CASE i = 2 /\ from > 3
    <3>1. 1 \in 1..n /\ 3 \in 1..n /\ 3 < n - 1
      BY <1>1, <1>4, <2>2
    <3>2. links[1] = 1 /\ links[3] = from
      BY <1>1, <1>3, <1>4, <3>1
    <3>3. QED
      BY <1>1, <1>4, <2>2, <3>1, <3>2
  <2>3. CASE i = n - 1 /\ to < lpCount - 2
    <3>1. n \in 1..n /\ n - 2 \in 1..n /\ n - 2 > 2
      BY <1>1, <1>4, <2>3
    <3>2. links[n] = lpCount /\ links[n - 2] = to
      BY <1>1, <1>3, <1>4, <3>1
    <3>3. (n - 1) + 1 = n /\ (n - 1) - 1 = n - 2
      BY <1>1, <1>4
    <3>4. QED
      BY <1>1, <1>4, <2>3, <3>1, <3>2, <3>3
  <2>4. QED
    BY <2>1, <2>2, <2>3
<1>9. ASSUME NEW i \in 1..(n - 1), links[i] # Ellipsis, links[i + 1] # Ellipsis
      PROVE  links[i + 1] = links[i] + 1
  <2>1. i \in 1..n /\ i + 1 \in 1..n
    BY <1>1, <1>4
  <2>2. QED
    BY <1>1, <1>3, <1>4, <1>9, <2>1
<1>10. QED
  BY <1>2, <1>5, <1>6, <1>7, <1>8, <1>9 DEF LinksSound, ToSet

(* The links of one, of two and of three pages.                            *)
LEMMA LinksOfFew ==
    ASSUME NEW count \in 1..3, NEW page \in 1..count
    PROVE  PageLinks(page, count) = IF count = 1 THEN <<1>> ELSE IF count = 2 THEN <<1, 2>> ELSE <<1, 2, 3>>
<1>1. Run(1, 1) = <<1>> /\ Run(2, 2) = <<2>> /\ Run(3, 3) = <<3>>
  BY DEF Run
<1>2. Run(2, 1) = <<>> /\ \A a \in {3}, b \in {-1, 0, 1} : Run(a, b) = <<>>
  BY DEF Run
<1>3. Min({page - 1, count - 4}) = count - 4 /\ Max({count - 4, 3}) = 3
  BY SmallerOfTwo, LargerOfTwo
<1>4. Max({page + 1, 5}) = 5 /\ Min({5, count - 2}) = count - 2
  BY SmallerOfTwo, LargerOfTwo
<1>5. SiblingsStart(page, count) = 3
  <2>1. page - SiblingCount = page - 1 /\ count - BoundaryCount - SiblingCount * 2 - 1 = count - 4
        /\ BoundaryCount + 2 = 3
    BY DEF SiblingCount, BoundaryCount
  <2>2. QED
    BY <1>3, <2>1 DEF SiblingsStart
<1>6. SiblingsEnd(page, count) = count - 2
  <2>1. page + SiblingCount = page + 1 /\ BoundaryCount + SiblingCount * 2 + 2 = 5
        /\ count - BoundaryCount - 1 = count - 2
    BY DEF SiblingCount, BoundaryCount
  <2>2. QED
    BY <1>4, <2>1 DEF SiblingsEnd
<1>7. Before(page, count) = <<>>
  BY <1>5 DEF Before, BoundaryCount
<1>8. After(page, count) = IF count = 3 THEN <<2>> ELSE <<>>
  BY <1>6 DEF After, BoundaryCount
<1>9. StartPages(count) = <<1>>
  <2>1. Min({1, count}) = 1
    BY SmallerOfTwo
  <2>2. QED
    BY <1>1, <2>1 DEF StartPages, BoundaryCount
<1>10. EndPages(count) = IF count = 1 THEN <<>> ELSE <<count>>
  <2>1. Max({count - BoundaryCount + 1, BoundaryCount + 1}) = IF count = 1 THEN 2 ELSE count
    <3>1. count - BoundaryCount + 1 = count /\ BoundaryCount + 1 = 2
      BY DEF BoundaryCount
    <3>2. Max({count, 2}) = IF count >= 2 THEN count ELSE 2
      BY LargerOfTwo
    <3>3. QED
      BY <3>1, <3>2
  <2>2. QED
    BY <1>1, <1>2, <2>1 DEF EndPages
<1>11. Run(SiblingsStart(page, count), SiblingsEnd(page, count)) = <<>>
  BY <1>2, <1>5, <1>6
<1>12. PageLinks(page, count) = <<1>> \o <<>> \o <<>> \o After(page, count) \o EndPages(count)
  BY <1>7, <1>9, <1>11 DEF PageLinks
<1>13. QED
  BY <1>8, <1>10, <1>12

LEMMA FewSound ==
    ASSUME lpCount \in 1..3, lpPage \in 1..lpCount
    PROVE  LinksSound(PageLinks(lpPage, lpCount))
<1>1. CASE lpCount = 1
  <2>1. PageLinks(lpPage, lpCount) = <<1>>
    BY <1>1, LinksOfFew
  <2>2. QED
    BY <1>1, <2>1 DEF LinksSound, ToSet, Ellipsis
<1>2. CASE lpCount = 2
  <2>1. PageLinks(lpPage, lpCount) = <<1, 2>>
    BY <1>2, LinksOfFew
  <2>2. QED
    BY <1>2, <2>1 DEF LinksSound, ToSet, Ellipsis
<1>3. CASE lpCount = 3
  <2>1. PageLinks(lpPage, lpCount) = <<1, 2, 3>>
    BY <1>3, LinksOfFew
  <2>2. QED
    BY <1>3, <2>1 DEF LinksSound, ToSet, Ellipsis
<1>4. QED
  BY <1>1, <1>2, <1>3

LEMMA LinksAlwaysSound ==
    ASSUME lpCount \in Nat, lpPage \in 1..lpCount
    PROVE  LinksSound(PageLinks(lpPage, lpCount))
<1>1. CASE lpCount >= 4
  <2>1. ManyLinks(PageLinks(lpPage, lpCount), SiblingsStart(lpPage, lpCount),
                  SiblingsEnd(lpPage, lpCount), lpPage, lpCount)
    BY <1>1, LinksOfMany
  <2>2. QED
    BY <1>1, <2>1, ManySound
<1>2. CASE lpCount \in 1..3
  BY <1>2, FewSound
<1>3. QED
  BY <1>1, <1>2

(* Wherever the reader is, however long the list, the page links name the  *)
(* pages he may want, ascend, and leave out two pages or more at each      *)
(* ellipsis (list-pagination.tsx).                                         *)
THEOREM LinksSafe == LPSpec => []LPTypeOK
<1> DEFINE Places == lpCount \in 1..MaxPages /\ lpPage \in 1..lpCount
<1>1. LPInit => Places
  BY MaxPagesAssumption DEF LPInit
<1>2. Places /\ [LPNext]_lpVars => Places'
  <2> SUFFICES ASSUME Places, [LPNext]_lpVars PROVE Places'
    OBVIOUS
  <2>1. CASE FollowLink
    <3>1. LinksSound(PageLinks(lpPage, lpCount))
      BY MaxPagesAssumption, LinksAlwaysSound
    <3>2. lpPage' \in 1..lpCount /\ lpCount' = lpCount
      BY <2>1, <3>1 DEF FollowLink, LinksSound
    <3>3. QED
      BY <3>2
  <2>2. CASE FollowArrow
    BY <2>2 DEF FollowArrow
  <2>3. CASE Refetch
    <3>1. lpCount' \in 1..MaxPages /\ lpCount' \in Int /\ lpPage \in Int
      BY <2>3, MaxPagesAssumption DEF Refetch
    <3>2. lpPage' = IF lpPage <= lpCount' THEN lpPage ELSE lpCount'
      BY <2>3, <3>1, SmallerOfTwo DEF Refetch
    <3>3. QED
      BY <3>1, <3>2, MaxPagesAssumption
  <2>4. CASE UNCHANGED lpVars
    BY <2>4 DEF lpVars
  <2>5. QED
    BY <2>1, <2>2, <2>3, <2>4 DEF LPNext
<1>3. Places => LPTypeOK
  BY MaxPagesAssumption, LinksAlwaysSound DEF LPTypeOK
<1>4. QED
  BY <1>1, <1>2, <1>3, PTL DEF LPSpec

-----------------------------------------------------------------------------
(* ChoiceInputs                                                            *)

(* Whatever an input of choices may hold.                                  *)
Choosable == Offered \cup {Made, MadeRecord, CreateValue}

LEMMA CHInvInit == CHInit => CHInv
<1> SUFFICES ASSUME CHInit PROVE CHInv
  OBVIOUS
<1>1. chValue \in Seq(Choosable) /\ IsInjective(chValue) /\ ToSet(chValue) \subseteq Offered /\ Len(chValue) <= 1
  <2>1. CASE chValue = <<>>
    BY <2>1 DEF IsInjective, ToSet
  <2>2. ASSUME NEW o \in Offered, chValue = <<o>>
        PROVE  chValue \in Seq(Choosable) /\ IsInjective(chValue) /\ ToSet(chValue) \subseteq Offered /\ Len(chValue) <= 1
    BY <2>2 DEF IsInjective, ToSet, Choosable
  <2>3. QED
    BY <2>1, <2>2 DEF CHInit
<1>2. QED
  BY <1>1 DEF CHInit, CHInv, CHTypeOK, Inputs, Texts, NoText, Choosable

(* What an input may hold.                                                 *)
HeldBy(input) ==
    Offered \cup (CASE input = "autocomplete" -> {Made, CreateValue}
                    [] input = "select" -> {MadeRecord, CreateValue}
                    [] OTHER -> {})

Holds(input, values) ==
    /\ values \in Seq(Choosable) /\ IsInjective(values) /\ ToSet(values) \subseteq HeldBy(input)
    /\ input # "array" => Len(values) <= 1

LEMMA NothingHeld == \A input \in Inputs : Holds(input, <<>>)
  BY DEF Holds, IsInjective, ToSet

LEMMA OneHeld ==
    ASSUME NEW input \in Inputs, NEW v \in HeldBy(input)
    PROVE  Holds(input, <<v>>)
<1>1. v \in Choosable
  BY DEF HeldBy, Choosable, Inputs
<1>2. QED
  BY <1>1 DEF Holds, IsInjective, ToSet

LEMMA AnotherHeld ==
    ASSUME NEW values, Holds("array", values), NEW v \in Offered, v \notin ToSet(values)
    PROVE  Holds("array", Append(values, v))
<1>1. values \in Seq(Choosable) /\ v \in Choosable
  BY DEF Holds, Choosable
<1>2. /\ Append(values, v) \in Seq(Choosable) /\ Len(Append(values, v)) = Len(values) + 1
      /\ \A i \in 1..Len(values) : Append(values, v)[i] = values[i]
      /\ Append(values, v)[Len(values) + 1] = v
      /\ Len(values) \in Nat
  BY <1>1, AppendProperties, LenProperties
<1> DEFINE n == Len(values)
           more == Append(values, v)
<1>3. DOMAIN values = 1..n /\ DOMAIN more = 1..(n + 1)
  BY <1>1, <1>2, LenProperties
<1> HIDE DEF n, more
<1>4. \A i \in 1..(n + 1) : i \in 1..n \/ i = n + 1
  BY <1>2 DEF n
<1>5. \A i \in 1..n : more[i] = values[i] /\ values[i] # v /\ values[i] \in HeldBy("array")
  BY <1>2, <1>3 DEF Holds, ToSet, n, more
<1>6. more[n + 1] = v /\ v \in HeldBy("array")
  BY <1>2 DEF n, more, HeldBy
<1>7. IsInjective(more)
  BY <1>3, <1>4, <1>5, <1>6 DEF Holds, IsInjective
<1>8. ToSet(more) \subseteq HeldBy("array")
  BY <1>3, <1>4, <1>5, <1>6 DEF ToSet
<1>9. QED
  BY <1>2, <1>7, <1>8 DEF Holds, more

LEMMA LeftHeld ==
    ASSUME NEW values, Holds("array", values), NEW place \in DOMAIN values
    PROVE  Holds("array", RemoveAt(values, place))
<1>1. values \in Seq(Choosable) /\ IsInjective(values) /\ place \in 1..Len(values)
  BY LenProperties DEF Holds
<1>2. /\ RemoveAt(values, place) \in Seq(Choosable) /\ IsInjective(RemoveAt(values, place))
      /\ ToSet(RemoveAt(values, place)) = ToSet(values) \ {values[place]}
  BY <1>1, ItemsLeft
<1>3. QED
  BY <1>2 DEF Holds

LEMMA FrontHeld ==
    ASSUME NEW values, Holds("array", values), values # <<>>
    PROVE  Holds("array", Front(values))
<1>1. values \in Seq(Choosable) /\ Len(values) \in Nat /\ Len(values) # 0 /\ DOMAIN values = 1..Len(values)
  BY LenProperties, EmptySeq DEF Holds
<1>2. Front(values) = RemoveAt(values, Len(values))
  <2>1. SubSeq(values, Len(values) + 1, Len(values)) = <<>>
    BY <1>1, SubSeqEmpty
  <2>2. Front(values) = SubSeq(values, 1, Len(values) - 1)
    BY DEF Front
  <2>3. SubSeq(values, 1, Len(values) - 1) \in Seq(Choosable)
    BY <1>1
  <2>4. QED
    BY <2>1, <2>2, <2>3, ConcatEmptySeq DEF RemoveAt
<1>3. QED
  BY <1>1, <1>2, LeftHeld

LEMMA CHInvHolds ==
    CHInv <=> /\ chInput \in Inputs /\ chText \in Texts /\ chQuery \in Texts
              /\ {chFrom, chRequired, chOpen, chDrift} \subseteq BOOLEAN
              /\ chPending \in Texts \cup {NoText}
              /\ chInput # "array" => chPending = NoText
              /\ chMaking \in {"none", "onCreate", "form"}
              /\ chMaking # "none" => chInput \in {"select", "autocomplete"}
              /\ chFrom /\ ~ chDrift /\ chPending = NoText => chQuery = chText
              /\ Holds(chInput, chValue)
  BY DEF CHInv, CHTypeOK, Holds, HeldBy, Choosable

LEMMA CHInvStep == CHInv /\ [CHNext]_chVars => CHInv'
<1> SUFFICES ASSUME CHInv, [CHNext]_chVars PROVE CHInv'
  OBVIOUS
<1> DEFINE Kinds ==
              /\ chInput \in Inputs /\ chText \in Texts /\ chQuery \in Texts
              /\ chFrom \in BOOLEAN /\ chRequired \in BOOLEAN /\ chOpen \in BOOLEAN /\ chDrift \in BOOLEAN
              /\ chPending \in Texts \cup {NoText}
              /\ chInput # "array" => chPending = NoText
              /\ chMaking \in {"none", "onCreate", "form"}
              /\ chMaking # "none" => chInput \in {"select", "autocomplete"}
              /\ chFrom /\ ~ chDrift /\ chPending = NoText => chQuery = chText
<1>1. Kinds /\ Holds(chInput, chValue)
  BY CHInvHolds
<1>2. SUFFICES Kinds' /\ Holds(chInput, chValue)'
  <2>1. CHInv' <=> /\ Kinds' /\ Holds(chInput, chValue)'
    BY DEF CHInv, CHTypeOK, Holds, HeldBy, Choosable
  <2>2. QED
    BY <2>1
<1> USE DEF chKind, chSearch, chCreation, Texts, NoText
<1>3. CASE OpenChoices \/ ClosePopover \/ LeaveSearch \/ DebounceEnds \/ CreateEnds
  <2>1. chInput' = chInput /\ chValue' = chValue
    BY <1>3 DEF OpenChoices, ClosePopover, LeaveSearch, DebounceEnds, CreateEnds, EndCreate
  <2>2. Holds(chInput, chValue)'
    BY <1>1, <2>1 DEF Holds
  <2>3. CASE OpenChoices \/ LeaveSearch \/ CreateEnds
    <3>1. /\ UNCHANGED <<chInput, chFrom, chRequired, chText, chQuery, chPending, chDrift>>
          /\ chOpen' \in {chOpen, TRUE, FALSE} /\ chMaking' \in {chMaking, "none"}
      BY <2>3 DEF OpenChoices, LeaveSearch, CreateEnds, EndCreate
    <3>2. QED
      BY <1>1, <2>2, <3>1
  <2>4. CASE ClosePopover
    <3>1. chDrift' \in BOOLEAN /\ (~ chDrift' => chQuery' = chText')
      BY <2>4 DEF ClosePopover
    <3>2. QED
      BY <1>1, <2>2, <2>4, <3>1 DEF ClosePopover
  <2>5. CASE DebounceEnds
    <3>1. chDrift' \in BOOLEAN /\ (~ chDrift' => chQuery' = chText')
      BY <2>5 DEF DebounceEnds
    <3>2. QED
      BY <1>1, <2>2, <2>5, <3>1 DEF DebounceEnds
  <2>6. QED
    BY <1>3, <2>3, <2>4, <2>5
<1>4. ASSUME NEW t \in Texts, TypeText(t) PROVE Kinds' /\ Holds(chInput, chValue)'
  BY <1>1, <1>4 DEF TypeText, Searches
<1>5. ASSUME NEW known, NEW v \in HeldBy("autocomplete"), chInput = "autocomplete", Pick(known, v),
             UNCHANGED chKind, UNCHANGED chMaking \/ chMaking' = "none"
      PROVE  Kinds' /\ Holds(chInput, chValue)'
  <2>1. Holds("autocomplete", <<>>) /\ Holds("autocomplete", <<v>>)
    BY NothingHeld, OneHeld DEF Inputs
  <2>2. chInput' = "autocomplete" /\ chValue' \in {<<>>, <<v>>}
    BY <1>5 DEF Pick
  <2>3. Holds(chInput, chValue)'
    BY <2>1, <2>2 DEF Holds
  <2>4. Kinds'
    BY <1>1, <1>5 DEF Pick, EmptySearch
  <2>5. QED
    BY <2>3, <2>4
<1>6. ASSUME NEW o \in Offered, PickOne(o) PROVE Kinds' /\ Holds(chInput, chValue)'
  BY <1>5, <1>6 DEF PickOne, HeldBy
<1>7. ASSUME NEW o \in Offered, PickAnother(o) PROVE Kinds' /\ Holds(chInput, chValue)'
  <2>1. Holds("array", Append(chValue, o))
    BY <1>1, <1>7, AnotherHeld DEF PickAnother
  <2>2. Kinds'
    BY <1>1, <1>7 DEF PickAnother, EmptySearch
  <2>3. Holds(chInput, chValue)'
    BY <1>7, <2>1 DEF PickAnother, Holds
  <2>4. QED
    BY <2>2, <2>3
<1>8. ASSUME NEW o \in Offered, Unselect(o) PROVE Kinds' /\ Holds(chInput, chValue)'
  <2>1. chInput = "array" /\ Holds("array", chValue')
    BY <1>1, <1>8, LeftHeld DEF Unselect
  <2>2. Kinds'
    BY <1>1, <1>8 DEF Unselect
  <2>3. Holds(chInput, chValue)'
    BY <1>8, <2>1 DEF Unselect, Holds
  <2>4. QED
    BY <2>2, <2>3
<1>9. CASE EraseLast
  <2>1. chInput = "array" /\ Holds("array", chValue')
    BY <1>1, <1>9, FrontHeld DEF EraseLast
  <2>2. Kinds'
    BY <1>1, <1>9 DEF EraseLast
  <2>3. Holds(chInput, chValue)'
    BY <1>9, <2>1 DEF EraseLast, Holds
  <2>4. QED
    BY <2>2, <2>3
<1>10. ASSUME NEW v, v \in HeldBy(chInput), chValue' \in {<<>>, <<v>>}, UNCHANGED chKind, UNCHANGED chSearch,
              UNCHANGED chMaking \/ chMaking' = "none"
       PROVE  Kinds' /\ Holds(chInput, chValue)'
  <2>1. Holds(chInput, <<>>) /\ Holds(chInput, <<v>>)
    BY <1>1, <1>10, NothingHeld, OneHeld
  <2>2. Holds(chInput, chValue)'
    BY <1>10, <2>1 DEF Holds
  <2>3. Kinds'
    BY <1>1, <1>10
  <2>4. QED
    BY <2>2, <2>3
<1>11. ASSUME NEW o \in Offered, SelectOne(o) \/ RadioPick(o) PROVE Kinds' /\ Holds(chInput, chValue)'
  BY <1>10, <1>11 DEF SelectOne, RadioPick, HeldBy
<1>12. CASE ResetSelect
  <2>1. MadeRecord \in HeldBy(chInput)
    BY <1>12 DEF ResetSelect, HeldBy
  <2>2. QED
    BY <1>10, <1>12, <2>1 DEF ResetSelect
<1>13. ASSUME NEW by \in {"onCreate", "form"}, AskCreate(by) PROVE Kinds' /\ Holds(chInput, chValue)'
  BY <1>1, <1>13 DEF AskCreate, MayCreate, Holds
<1>14. ASSUME NEW o \in Offered \cup {Made}, CreatedChoice(o) PROVE Kinds' /\ Holds(chInput, chValue)'
  <2>1. CASE chInput = "select"
    <3>1. MadeRecord \in HeldBy(chInput)
      BY <2>1 DEF HeldBy
    <3>2. QED
      BY <1>10, <1>14, <2>1, <3>1 DEF CreatedChoice, EndCreate
  <2>2. CASE chInput = "autocomplete"
    <3>1. o \in HeldBy("autocomplete")
      BY DEF HeldBy
    <3>2. QED
      BY <1>5, <1>14, <2>2, <3>1 DEF CreatedChoice, EndCreate
  <2>3. QED
    BY <1>1, <1>14, <2>1, <2>2 DEF CreatedChoice
<1>15. CASE CreatedNothing
  <2>1. CASE chInput = "select"
    <3>1. CreateValue \in HeldBy(chInput)
      BY <2>1 DEF HeldBy
    <3>2. QED
      BY <1>10, <1>15, <2>1, <3>1 DEF CreatedNothing, EndCreate
  <2>2. CASE chInput = "autocomplete"
    <3>1. CreateValue \in HeldBy("autocomplete")
      BY DEF HeldBy
    <3>2. QED
      BY <1>5, <1>15, <2>2, <3>1 DEF CreatedNothing, EndCreate
  <2>3. QED
    BY <1>1, <1>15, <2>1, <2>2 DEF CreatedNothing
<1>16. CASE UNCHANGED chVars
  BY <1>1, <1>16 DEF chVars, Holds
<1>17. QED
  BY <1>3, <1>4, <1>6, <1>7, <1>8, <1>9, <1>11, <1>12, <1>13, <1>14, <1>15, <1>16 DEF CHNext

(* Only a select or an autocomplete makes a choice of its own, and waits   *)
(* for it with what it held (select-input.tsx, autocomplete-input.tsx).    *)
THEOREM ChoicesInvariance == CHSpec => []CHInv
<1>1. QED
  BY CHInvInit, CHInvStep, PTL DEF CHSpec

(* A choice is held once, and only by an array of choices beside others;   *)
(* the choices that are shown are those of the text that is shown, with    *)
(* the exceptions CHTypeOK names (autocomplete-input.tsx and the others).  *)
THEOREM ChoicesSafe == CHSpec => []CHTypeOK
<1>1. CHInv => CHTypeOK
  BY DEF CHInv
<1>2. QED
  BY <1>1, ChoicesInvariance, PTL
=============================================================================
