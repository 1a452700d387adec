------------------------------- MODULE FormsetsProofs -------------------------------
(***************************************************************************)
(* Proofs about Formsets, for any forms and limits and all three scripts.  *)
(***************************************************************************)
EXTENDS Formsets, FiniteSetTheorems, SequenceTheorems, TLAPS

\* The names of the rows carry 0, 1, 2, ... down the page.
Numbered(rs) == \A i \in 1..Len(rs) : rs[i].index = i - 1

\* The rows from the server stand first: m of them.
SavedAre(rs, m) == \A i \in 1..Len(rs) : rs[i].saved <=> i <= m
SavedFirst(rs) == \E m \in 0..Len(rs) : SavedAre(rs, m)

\* Saved rows carry the number of their position, whatever the others do.
SavedNumbered(rs) == \A i \in 1..Len(rs) : rs[i].saved => rs[i].index = i - 1

\* The list rs is a page on which the numbers run on.
GoodPage(rs) == rs \in Seq(Row) /\ Numbered(rs) /\ SavedFirst(rs)

\* What makes NumbersRunOn inductive, with the types.
FormsetsIInv ==
  /\ GoodPage(rows) /\ total = Len(rows)
  /\ script \in Scripts /\ addable \in BOOLEAN /\ spare \in Nat
  /\ script = "django" => spare = total

-----------------------------------------------------------------------------
(***************************************************************************)
(* Lists of rows.                                                           *)
(***************************************************************************)

\* A function on 1..n is a list of length n.
LEMMA ListOf ==
  ASSUME NEW S, NEW n \in Nat, NEW f \in [1..n -> S]
  PROVE  f \in Seq(S) /\ Len(f) = n /\ DOMAIN f = 1..n
OBVIOUS

\* RemoveAt takes one element out and moves the later ones up.
LEMMA Removed ==
  ASSUME NEW S, NEW s \in Seq(S), NEW i \in 1..Len(s)
  PROVE  /\ RemoveAt(s, i) \in Seq(S)
         /\ Len(RemoveAt(s, i)) = Len(s) - 1
         /\ \A j \in 1..(Len(s) - 1) :
              RemoveAt(s, i)[j] = IF j < i THEN s[j] ELSE s[j + 1]
<1>1. PICK n \in Nat : n = Len(s)
  OBVIOUS
<1>2. PICK a : a = SubSeq(s, 1, i - 1)
  OBVIOUS
<1>3. PICK b : b = SubSeq(s, i + 1, n)
  OBVIOUS
<1>4. a \in Seq(S) /\ Len(a) = i - 1 /\ \A j \in 1..(i - 1) : a[j] = s[j]
  BY <1>1, <1>2
<1>5. b \in Seq(S) /\ Len(b) = n - i /\ \A j \in 1..(n - i) : b[j] = s[j + i]
  BY <1>1, <1>3
<1>6. PICK c : c = a \o b
  OBVIOUS
<1>7. c \in Seq(S) /\ Len(c) = n - 1
  BY <1>1, <1>4, <1>5, <1>6
<1>8. ASSUME NEW j \in 1..(n - 1) PROVE c[j] = IF j < i THEN s[j] ELSE s[j + 1]
  <2>1. CASE j < i
    BY <1>1, <1>4, <1>5, <1>6, <2>1
  <2>2. CASE ~(j < i)
    <3>1. c[j] = b[j - (i - 1)]
      BY <1>1, <1>4, <1>5, <1>6, <2>2
    <3>2. j - (i - 1) \in 1..(n - i) /\ (j - (i - 1)) + i = j + 1
      BY <1>1, <2>2
    <3>3. b[j - (i - 1)] = s[j + 1]
      BY <1>5, <3>2
    <3> QED BY <2>2, <3>1, <3>3
  <2> QED BY <2>1, <2>2
<1> QED BY <1>1, <1>2, <1>3, <1>6, <1>7, <1>8 DEF RemoveAt

\* A row is one form, one number and two marks.
LEMMA RowFields ==
  ASSUME NEW r \in Row, NEW k \in Nat, NEW t \in BOOLEAN
  PROVE  /\ r.index \in Nat /\ r.saved \in BOOLEAN
         /\ [r EXCEPT !.index = k] \in Row
         /\ [r EXCEPT !.index = k].index = k
         /\ [r EXCEPT !.index = k].saved = r.saved
         /\ [r EXCEPT !.typed = t] \in Row
         /\ [r EXCEPT !.typed = t].index = r.index
         /\ [r EXCEPT !.typed = t].saved = r.saved
BY DEF Row

\* A copy of the empty form.
LEMMA FreshRow ==
  ASSUME NEW f \in Forms, NEW k \in Nat
  PROVE  Fresh(f, k) \in Row /\ Fresh(f, k).index = k /\ Fresh(f, k).saved = FALSE
BY DEF Fresh, Row

\* A fresh row at the end, numbered by how many there are, keeps the page good.
LEMMA Appended ==
  ASSUME NEW rs, GoodPage(rs), NEW f \in Forms
  PROVE  GoodPage(Append(rs, Fresh(f, Len(rs))))
         /\ Len(Append(rs, Fresh(f, Len(rs)))) = Len(rs) + 1
<1>1. PICK n \in Nat : n = Len(rs)
  BY DEF GoodPage
<1>2. PICK r : r = Fresh(f, n)
  OBVIOUS
<1>3. r \in Row /\ r.index = n /\ r.saved = FALSE
  BY <1>2, FreshRow
<1>4. PICK q : q = Append(rs, r)
  OBVIOUS
<1>5. /\ q \in Seq(Row) /\ Len(q) = n + 1 /\ q[n + 1] = r
      /\ \A i \in 1..n : q[i] = rs[i]
  BY <1>1, <1>3, <1>4 DEF GoodPage
<1>6. PICK m \in 0..n : SavedAre(rs, m)
  BY <1>1 DEF GoodPage, SavedFirst
<1>7. \A i \in 1..n : rs[i].index = i - 1 /\ (rs[i].saved <=> i <= m)
  BY <1>1, <1>6 DEF GoodPage, Numbered, SavedAre
<1>8. Numbered(q)
  BY <1>3, <1>5, <1>7 DEF Numbered
<1>9. SavedFirst(q)
  <2>1. SavedAre(q, m)
    BY <1>3, <1>5, <1>7 DEF SavedAre
  <2> QED BY <1>5, <2>1 DEF SavedFirst
<1>10. GoodPage(q)
  BY <1>5, <1>8, <1>9 DEF GoodPage
<1> QED BY <1>1, <1>2, <1>4, <1>5, <1>10

\* Taking a row away that was added on the page, and giving each later one the number
\* before its own, keeps the page good.
LEMMA MovedUp ==
  ASSUME NEW rs, GoodPage(rs), NEW i \in 1..Len(rs), ~rs[i].saved, NEW q,
         q \in Seq(Row), Len(q) = Len(rs) - 1,
         \A j \in 1..(Len(rs) - 1) :
           /\ q[j].index = j - 1
           /\ q[j].saved = (IF j < i THEN rs[j].saved ELSE rs[j + 1].saved)
  PROVE  GoodPage(q)
<1>1. PICK n \in Nat : n = Len(rs)
  BY DEF GoodPage
<1>2. PICK m \in 0..n : \A j \in 1..n : rs[j].saved <=> j <= m
  BY <1>1 DEF GoodPage, SavedFirst, SavedAre
<1>3. i \in 1..n /\ ~(i <= m) /\ m \in 0..(n - 1)
  BY <1>1, <1>2
<1>4. ASSUME NEW j \in 1..(n - 1) PROVE q[j].saved <=> j <= m
  <2>1. CASE j < i
    <3>1. q[j].saved = rs[j].saved
      BY <1>1, <2>1
    <3> QED BY <1>2, <3>1
  <2>2. CASE ~(j < i)
    <3>1. q[j].saved = rs[j + 1].saved
      BY <1>1, <2>2
    <3>2. ~(j <= m) /\ ~(j + 1 <= m) /\ j + 1 \in 1..n
      BY <1>3, <2>2
    <3> QED BY <1>2, <3>1, <3>2
  <2> QED BY <2>1, <2>2
<1>5. Numbered(q)
  BY <1>1 DEF Numbered
<1>6. SavedFirst(q)
  BY <1>1, <1>3, <1>4 DEF SavedFirst, SavedAre
<1> QED BY <1>5, <1>6 DEF GoodPage

-----------------------------------------------------------------------------
(***************************************************************************)
(* What the crispy script counts.                                           *)
(***************************************************************************)

\* crispyFormsetReindex numbers the added rows on from the saved ones before them.
LEMMA Counted ==
  ASSUME NEW rs, NEW n \in Nat, n = Len(rs), NEW m \in 0..n, SavedAre(rs, m),
         NEW j \in (m + 1)..n
  PROVE  SavedUpTo(rs, Len(rs)) + NewUpTo(rs, j - 1) = j - 1
<1>1. {k \in 1..n : rs[k].saved} = 1..m
  BY DEF SavedAre
<1>2. {k \in 1..(j - 1) : ~rs[k].saved} = (m + 1)..(j - 1)
  BY DEF SavedAre
<1>3. Cardinality(1..m) = m
  BY FS_Interval
<1>4. Cardinality((m + 1)..(j - 1)) = j - 1 - m
  <2>1. m + 1 \in Int /\ j - 1 \in Int /\ m \in Int /\ j \in Int /\ m + 1 <= j
    OBVIOUS
  <2> PICK a \in Int, b \in Int : a = m + 1 /\ b = j - 1
    BY <2>1
  <2>2. Cardinality(a..b) = IF a > b THEN 0 ELSE b - a + 1
    BY FS_Interval
  <2>3. (IF a > b THEN 0 ELSE b - a + 1) = j - 1 - m
    BY <2>1
  <2> QED BY <2>2, <2>3
<1>5. SavedUpTo(rs, Len(rs)) = m
  BY <1>1, <1>3 DEF SavedUpTo
<1>6. NewUpTo(rs, j - 1) = j - 1 - m
  BY <1>2, <1>4 DEF NewUpTo
<1> QED BY <1>5, <1>6

\* crispyFormsetReindex numbers the rows one by one.
LEMMA ReindexedWell ==
  ASSUME NEW rs, rs \in Seq(Row), SavedFirst(rs), SavedNumbered(rs)
  PROVE  /\ Reindexed(rs) \in Seq(Row)
         /\ Len(Reindexed(rs)) = Len(rs)
         /\ \A j \in 1..Len(rs) : /\ Reindexed(rs)[j].index = j - 1
                                  /\ Reindexed(rs)[j].saved = rs[j].saved
<1>1. PICK n \in Nat : n = Len(rs)
  OBVIOUS
<1>2. PICK m \in 0..n : SavedAre(rs, m)
  BY <1>1 DEF SavedFirst
<1>3. \A j \in 1..n : rs[j] \in Row
  BY <1>1
<1>4. ASSUME NEW j \in 1..n
      PROVE  /\ Reindexed(rs)[j] \in Row
             /\ Reindexed(rs)[j].index = j - 1
             /\ Reindexed(rs)[j].saved = rs[j].saved
  <2>1. CASE rs[j].saved
    <3>1. Reindexed(rs)[j] = rs[j]
      BY <1>1, <2>1 DEF Reindexed
    <3>2. rs[j].index = j - 1
      BY <1>1, <2>1 DEF SavedNumbered
    <3> QED BY <1>3, <3>1, <3>2
  <2>2. CASE ~rs[j].saved
    <3>1. j \in (m + 1)..n
      BY <1>1, <1>2, <2>2 DEF SavedAre
    <3>2. SavedUpTo(rs, Len(rs)) + NewUpTo(rs, j - 1) = j - 1
      BY <1>1, <1>2, <3>1, Counted
    <3>3. Reindexed(rs)[j] = [rs[j] EXCEPT !.index = j - 1]
      BY <1>1, <2>2, <3>2 DEF Reindexed
    <3>4. PICK r \in Row : r = rs[j]
      BY <1>3
    <3>5. PICK k \in Nat : k = j - 1
      OBVIOUS
    <3>6. /\ [r EXCEPT !.index = k] \in Row
          /\ [r EXCEPT !.index = k].index = k
          /\ [r EXCEPT !.index = k].saved = r.saved
      BY RowFields
    <3>7. Reindexed(rs)[j] = [r EXCEPT !.index = k]
      BY <3>3, <3>4, <3>5
    <3> QED BY <3>4, <3>5, <3>6, <3>7
  <2> QED BY <2>1, <2>2
<1>5. Reindexed(rs) \in [1..n -> Row]
  <2>1. Reindexed(rs) = [j \in 1..n |-> Reindexed(rs)[j]]
    BY <1>1 DEF Reindexed
  <2> QED BY <1>4, <2>1
<1>6. Reindexed(rs) \in Seq(Row) /\ Len(Reindexed(rs)) = n
  BY <1>5, ListOf
<1> QED BY <1>1, <1>4, <1>6
-----------------------------------------------------------------------------
(***************************************************************************)
(* The pages of the three scripts.                                          *)
(***************************************************************************)

\* The invariant implies the two that the run checks.
LEMMA IInvImplies == FormsetsIInv => FormsetsTypeOK /\ NumbersRunOn
<1> USE DEF FormsetsIInv, FormsetsTypeOK, NumbersRunOn, GoodPage, Numbered
<1>1. rows \in Seq(Row) => DOMAIN rows = 1..Len(rows) /\ Len(rows) \in Nat
  OBVIOUS
<1> QED BY <1>1

\* The saved forms of the server, numbered from 0.
LEMMA FormsetsStart == FormsetsInit => FormsetsIInv
<1> SUFFICES ASSUME FormsetsInit PROVE FormsetsIInv
  OBVIOUS
<1>0. PICK f \in SeqOf(Forms, MaxForms) : \E m \in 0..Len(f) :
        /\ script \in Scripts
        /\ rows = [i \in DOMAIN f |-> [Fresh(f[i], i - 1) EXCEPT !.saved = (i <= m)]]
        /\ total = Len(f) /\ spare = Len(f)
        /\ addable = (script = "unfold" \/ Len(f) < MaxForms)
  BY DEF FormsetsInit
<1>1. PICK m \in 0..Len(f) :
        /\ script \in Scripts
        /\ rows = [i \in DOMAIN f |-> [Fresh(f[i], i - 1) EXCEPT !.saved = (i <= m)]]
        /\ total = Len(f) /\ spare = Len(f)
        /\ addable = (script = "unfold" \/ Len(f) < MaxForms)
  BY <1>0
<1>2. PICK n \in 0..MaxForms : f \in [1..n -> Forms]
  BY <1>1 DEF SeqOf
<1>3. n \in Nat
  BY FormsetsAssumption DEF FormsetsAssumption
<1>4. Len(f) = n /\ DOMAIN f = 1..n /\ m \in 0..n
  BY <1>1, <1>2, <1>3, ListOf
<1>5. ASSUME NEW i \in 1..n
      PROVE  rows[i] \in Row /\ rows[i].index = i - 1 /\ rows[i].saved = (i <= m)
  <2>1. rows[i] = [Fresh(f[i], i - 1) EXCEPT !.saved = (i <= m)]
    BY <1>1, <1>4
  <2>2. f[i] \in Forms /\ i - 1 \in Nat
    BY <1>2
  <2>3. PICK b \in BOOLEAN : b = (i <= m)
    <3>1. (i <= m) \in BOOLEAN
      BY SMT
    <3> QED BY <3>1, Zenon
  <2>4. rows[i] = [Fresh(f[i], i - 1) EXCEPT !.saved = b]
    BY <2>1, <2>3
  <2>5. rows[i] \in Row /\ rows[i].index = i - 1 /\ rows[i].saved = b
    BY <2>2, <2>4 DEF Fresh, Row
  <2> QED BY <2>3, <2>5
<1>6. rows \in [1..n -> Row]
  <2>1. rows = [i \in 1..n |-> rows[i]]
    BY <1>1, <1>4
  <2> QED BY <1>5, <2>1
<1>7. rows \in Seq(Row) /\ Len(rows) = n
  BY <1>3, <1>6, ListOf
<1>8. SavedFirst(rows)
  <2>1. SavedAre(rows, m)
    BY <1>5, <1>7 DEF SavedAre
  <2> QED BY <1>4, <1>7, <2>1 DEF SavedFirst
<1>9. Numbered(rows)
  BY <1>5, <1>7 DEF Numbered
<1>10. addable \in BOOLEAN
  BY <1>1
<1> QED BY <1>1, <1>3, <1>4, <1>7, <1>8, <1>9, <1>10 DEF FormsetsIInv, GoodPage

\* Typing changes no number.
LEMMA TypingKeeps == ASSUME FormsetsIInv, NEW i \in DOMAIN rows, TypeIn(i)
                     PROVE  FormsetsIInv'
<1>1. PICK n \in Nat : n = Len(rows) /\ rows \in [1..n -> Row]
  BY DEF FormsetsIInv, GoodPage
<1>2. i \in 1..n /\ rows[i] \in Row
  BY <1>1
<1>3. PICK r \in Row : r = [rows[i] EXCEPT !.typed = TRUE]
  BY <1>2, RowFields
<1>4. r.index = rows[i].index /\ r.saved = rows[i].saved
  BY <1>2, <1>3, RowFields
<1>5. rows' = [rows EXCEPT ![i] = r]
  BY <1>3 DEF TypeIn
<1>6. rows' \in [1..n -> Row]
  BY <1>1, <1>5
<1>7. rows' \in Seq(Row) /\ Len(rows') = n
  BY <1>6, ListOf
<1>8. \A j \in 1..n : rows'[j].index = rows[j].index /\ rows'[j].saved = rows[j].saved
  BY <1>1, <1>2, <1>4, <1>5
<1>9. Numbered(rows) /\ SavedFirst(rows)
  BY DEF FormsetsIInv, GoodPage
<1>10. Numbered(rows)'
  BY <1>1, <1>7, <1>8, <1>9 DEF Numbered
<1>11. SavedFirst(rows)'
  BY <1>1, <1>7, <1>8, <1>9 DEF SavedFirst, SavedAre
<1> QED BY <1>1, <1>7, <1>10, <1>11 DEF FormsetsIInv, GoodPage, TypeIn

\* Each script adds a row at the end under the next number.
LEMMA AddingKeeps ==
  ASSUME FormsetsIInv, NEW f \in Forms,
         \/ script = "unfold" /\ UnfoldAdd(f)
         \/ script = "django" /\ DjangoAdd(f)
         \/ script = "crispy" /\ CrispyAdd(f)
  PROVE  FormsetsIInv'
<1>1. GoodPage(rows) /\ total = Len(rows) /\ total \in Nat
  BY DEF FormsetsIInv, GoodPage
<1>2. rows' = Append(rows, Fresh(f, Len(rows)))
  BY <1>1 DEF UnfoldAdd, DjangoAdd, CrispyAdd
<1>3. total' = total + 1 /\ script' = script
  BY DEF UnfoldAdd, DjangoAdd, CrispyAdd
<1>4. addable' \in BOOLEAN
  <2>1. CASE UnfoldAdd(f)
    <3>1. addable' = (addable /\ total' # MaxForms)
      BY <2>1 DEF UnfoldAdd
    <3> QED BY <3>1, Zenon
  <2>2. CASE DjangoAdd(f) \/ CrispyAdd(f)
    <3>1. addable' = (total' < MaxForms)
      BY <2>2 DEF DjangoAdd, CrispyAdd
    <3>2. (total' < MaxForms) \in BOOLEAN
      BY SMT
    <3> QED BY <3>1, <3>2, Zenon
  <2> QED BY <2>1, <2>2
<1>5. spare' \in Nat /\ (script' = "django" => spare' = total')
  BY <1>1, <1>3 DEF FormsetsIInv, UnfoldAdd, DjangoAdd, CrispyAdd
<1>6. GoodPage(rows)' /\ total' = Len(rows')
  BY <1>1, <1>2, <1>3, Appended
<1> QED BY <1>3, <1>4, <1>5, <1>6 DEF FormsetsIInv

\* Each script leaves the rows numbered when it takes one out.
LEMMA DeletingKeeps ==
  ASSUME FormsetsIInv, NEW i \in DOMAIN rows, ~rows[i].saved,
         \/ script = "unfold" /\ UnfoldDelete(i)
         \/ script = "django" /\ DjangoDelete(i)
         \/ script = "crispy" /\ CrispyDelete(i)
  PROVE  FormsetsIInv'
<1>1. PICK n \in Nat : n = Len(rows)
  BY DEF FormsetsIInv, GoodPage
<1>2. /\ GoodPage(rows) /\ total = n /\ i \in 1..n
      /\ rows \in Seq(Row) /\ \A j \in 1..n : rows[j] \in Row /\ rows[j].index = j - 1
  BY <1>1 DEF FormsetsIInv, GoodPage, Numbered
<1>3. PICK q : q = RemoveAt(rows, i)
  OBVIOUS
<1>4. /\ q \in Seq(Row) /\ Len(q) = n - 1
      /\ \A j \in 1..(n - 1) : q[j] = IF j < i THEN rows[j] ELSE rows[j + 1]
  BY <1>1, <1>2, <1>3, Removed
<1> DEFINE Up(s) == /\ s \in Seq(Row) /\ Len(s) = n - 1
                    /\ \A j \in 1..(n - 1) :
                         /\ s[j].index = j - 1
                         /\ s[j].saved = (IF j < i THEN rows[j].saved ELSE rows[j + 1].saved)
<1>5. CASE script = "unfold" /\ UnfoldDelete(i)
  <2>1. rows' = [j \in 1..(n - 1) |-> IF j < i THEN rows[j] ELSE Renamed(j + 1)]
    BY <1>1, <1>5 DEF UnfoldDelete
  <2>2. ASSUME NEW j \in 1..(n - 1)
        PROVE  /\ rows'[j] \in Row /\ rows'[j].index = j - 1
               /\ rows'[j].saved = (IF j < i THEN rows[j].saved ELSE rows[j + 1].saved)
    <3>1. CASE j < i
      BY <1>2, <2>1, <3>1
    <3>2. CASE ~(j < i)
      <4>1. PICK r \in Row : r = rows[j + 1] /\ r.index = j
        BY <1>2
      <4>2. rows'[j] = [r EXCEPT !.index = j - 1, !.typed = FALSE]
        <5>1. rows'[j] = Renamed(j + 1)
          BY <2>1, <3>2
        <5>2. PICK k \in Nat : k = j + 1
          OBVIOUS
        <5>3. rows[k] = r /\ r.index = k - 1
          BY <4>1, <5>2
        <5>4. Renamed(k) = [r EXCEPT !.index = k - 2, !.typed = FALSE]
          <6>1. (IF r.index = k - 1 THEN r.index - 1 ELSE r.index) = k - 2
            BY <5>2, <5>3
          <6> QED BY <5>3, <6>1 DEF Renamed
        <5>5. k - 2 = j - 1
          BY <5>2
        <5> QED BY <5>1, <5>2, <5>4, <5>5
      <4>3. PICK k \in Nat : k = j - 1
        OBVIOUS
      <4>4. /\ [r EXCEPT !.index = k, !.typed = FALSE] \in Row
            /\ [r EXCEPT !.index = k, !.typed = FALSE].index = k
            /\ [r EXCEPT !.index = k, !.typed = FALSE].saved = r.saved
        BY DEF Row
      <4>5. rows'[j] = [r EXCEPT !.index = k, !.typed = FALSE]
        BY <4>2, <4>3
      <4> QED BY <3>2, <4>1, <4>3, <4>4, <4>5
    <3> QED BY <3>1, <3>2
  <2>3. rows' \in [1..(n - 1) -> Row] /\ n - 1 \in Nat
    BY <1>2, <2>1, <2>2
  <2>4. Up(rows')
    BY <2>2, <2>3, ListOf
  <2> QED
    <3>1. /\ total' = Len(rows') /\ script' = script /\ spare' = spare
          /\ addable' = (addable \/ total' < MaxForms)
      BY <1>5 DEF UnfoldDelete
    <3>2. GoodPage(rows')
      BY <1>1, <1>2, <2>4, MovedUp
    <3> QED BY <1>5, <3>1, <3>2 DEF FormsetsIInv
<1>6. CASE script = "django" /\ DjangoDelete(i)
  <2>1. rows' = [j \in DOMAIN q |-> [q[j] EXCEPT !.index = j - 1]]
    BY <1>3, <1>6 DEF DjangoDelete
  <2>2. DOMAIN q = 1..(n - 1) /\ n - 1 \in Nat
    BY <1>2, <1>4
  <2>3. ASSUME NEW j \in 1..(n - 1)
        PROVE  /\ rows'[j] \in Row /\ rows'[j].index = j - 1
               /\ rows'[j].saved = (IF j < i THEN rows[j].saved ELSE rows[j + 1].saved)
    <3>1. PICK r \in Row : r = q[j]
      BY <1>4
    <3>2. PICK k \in Nat : k = j - 1
      OBVIOUS
    <3>3. rows'[j] = [r EXCEPT !.index = k]
      BY <2>1, <2>2, <3>1, <3>2
    <3>4. /\ [r EXCEPT !.index = k] \in Row /\ [r EXCEPT !.index = k].index = k
          /\ [r EXCEPT !.index = k].saved = r.saved
      BY RowFields
    <3>5. r.saved = (IF j < i THEN rows[j].saved ELSE rows[j + 1].saved)
      BY <1>4, <3>1
    <3> QED BY <3>2, <3>3, <3>4, <3>5
  <2>4. rows' \in [1..(n - 1) -> Row]
    BY <2>1, <2>2, <2>3
  <2>5. Up(rows')
    BY <2>2, <2>3, <2>4, ListOf
  <2> QED
    <3>1. /\ total' = Len(rows') /\ script' = script /\ spare' = spare - 1
          /\ addable' = (addable \/ total' < MaxForms)
      BY <1>6 DEF DjangoDelete
    <3>2. GoodPage(rows')
      BY <1>1, <1>2, <2>5, MovedUp
    <3>3. spare = n
      BY <1>2, <1>6 DEF FormsetsIInv
    <3> QED BY <1>2, <1>6, <2>2, <2>5, <3>1, <3>2, <3>3 DEF FormsetsIInv
<1>7. CASE script = "crispy" /\ CrispyDelete(i)
  <2>1. \A j \in 1..(n - 1) : q[j].saved => q[j].index = j - 1
    <3>1. PICK m \in 0..n : \A j \in 1..n : rows[j].saved <=> j <= m
      BY <1>1, <1>2 DEF GoodPage, SavedFirst, SavedAre
    <3>2. ~(i <= m)
      BY <1>2, <3>1
    <3>3. ASSUME NEW j \in 1..(n - 1), ~(j < i) PROVE ~q[j].saved
      <4>1. j + 1 \in 1..n /\ ~(j + 1 <= m)
        <5>1. i \in Int /\ m \in Int /\ n \in Int /\ j \in Int
          BY <1>2
        <5> QED BY <3>2, <3>3, <5>1
      <4>2. q[j] = rows[j + 1]
        BY <1>4, <3>3
      <4> QED BY <3>1, <4>1, <4>2
    <3>4. ASSUME NEW j \in 1..(n - 1), j < i PROVE q[j].index = j - 1
      <4>1. q[j] = rows[j] /\ j \in 1..n
        BY <1>2, <1>4, <3>4
      <4> QED BY <1>2, <4>1
    <3> QED BY <3>3, <3>4
  <2>2. SavedFirst(q)
    <3>1. PICK m \in 0..n : \A j \in 1..n : rows[j].saved <=> j <= m
      BY <1>1, <1>2 DEF GoodPage, SavedFirst, SavedAre
    <3>2. ~(i <= m) /\ m \in 0..(n - 1)
      BY <1>2, <3>1
    <3>3. ASSUME NEW j \in 1..(n - 1) PROVE q[j].saved <=> j <= m
      <4>1. CASE j < i
        BY <1>4, <3>1, <4>1
      <4>2. CASE ~(j < i)
        <5>1. j + 1 \in 1..n /\ ~(j + 1 <= m) /\ ~(j <= m)
          <6>1. i \in Int /\ m \in Int /\ n \in Int /\ j \in Int
            BY <1>2
          <6> QED BY <3>2, <4>2, <6>1
        <5>2. q[j] = rows[j + 1]
          BY <1>4, <4>2
        <5> QED BY <3>1, <5>1, <5>2
      <4> QED BY <4>1, <4>2
    <3> QED BY <1>4, <3>2, <3>3 DEF SavedFirst, SavedAre
  <2>3. SavedNumbered(q)
    BY <1>4, <2>1 DEF SavedNumbered
  <2>4. /\ Reindexed(q) \in Seq(Row) /\ Len(Reindexed(q)) = Len(q)
        /\ \A j \in 1..Len(q) : /\ Reindexed(q)[j].index = j - 1
                                /\ Reindexed(q)[j].saved = q[j].saved
    BY <1>4, <2>2, <2>3, ReindexedWell
  <2>5. rows' = Reindexed(q)
    BY <1>3, <1>7 DEF CrispyDelete
  <2>6. \A j \in 1..(n - 1) :
          q[j].saved = (IF j < i THEN rows[j].saved ELSE rows[j + 1].saved)
    BY <1>4
  <2>7. Up(rows')
    BY <1>4, <2>4, <2>5, <2>6
  <2> QED
    <3>1. /\ total' = total - 1 /\ script' = script /\ spare' = spare
          /\ addable' = (total' < MaxForms)
      BY <1>7 DEF CrispyDelete
    <3>2. GoodPage(rows')
      BY <1>1, <1>2, <2>7, MovedUp
    <3>3. total' = Len(rows')
      BY <1>2, <2>7, <3>1
    <3> QED BY <1>7, <3>1, <3>2, <3>3 DEF FormsetsIInv
<1> QED BY <1>5, <1>6, <1>7

\* FormsetsIInv is inductive.
LEMMA FormsetsKept == FormsetsIInv /\ [FormsetsNext]_formsetVars => FormsetsIInv'
<1> SUFFICES ASSUME FormsetsIInv, [FormsetsNext]_formsetVars PROVE FormsetsIInv'
  OBVIOUS
<1>1. CASE \E i \in DOMAIN rows : TypeIn(i)
  BY <1>1, TypingKeeps
<1>2. ASSUME NEW f \in Forms \ FormsOf(rows),
             \/ script = "unfold" /\ UnfoldAdd(f)
             \/ script = "django" /\ DjangoAdd(f)
             \/ script = "crispy" /\ CrispyAdd(f)
      PROVE  FormsetsIInv'
  BY <1>2, AddingKeeps
<1>3. ASSUME NEW i \in DOMAIN rows, ~rows[i].saved,
             \/ script = "unfold" /\ UnfoldDelete(i)
             \/ script = "django" /\ DjangoDelete(i)
             \/ script = "crispy" /\ CrispyDelete(i)
      PROVE  FormsetsIInv'
  BY <1>3, DeletingKeeps
<1>4. CASE UNCHANGED formsetVars
  BY <1>4 DEF formsetVars, FormsetsIInv
<1> QED BY <1>1, <1>2, <1>3, <1>4 DEF FormsetsNext

-----------------------------------------------------------------------------
\* The names of the rows always carry 0, 1, 2, ... and TOTAL_FORMS counts them, for
\* any forms, limits and mix of adding and deleting with any of the three scripts:
\* the server reads each row once and in its place.
THEOREM NumbersAlwaysRunOn == FormsetsSpec => []NumbersRunOn
<1> QED BY FormsetsStart, FormsetsKept, IInvImplies, PTL DEF FormsetsSpec

-----------------------------------------------------------------------------
(***************************************************************************)
(* What the server sees.                                                    *)
(***************************************************************************)

\* The forms of the rows, in their order.
FormSeq(rs) == [i \in 1..Len(rs) |-> rs[i].form]

\* The limits that the buttons keep.
WithinLimits ==
  /\ MinForms <= total
  /\ script # "unfold" /\ addable => total < MaxForms

\* The forms of the rows are a list of forms.
LEMMA FormSeqIsList ==
  ASSUME NEW rs \in Seq(Row)
  PROVE  FormSeq(rs) \in Seq(Forms) /\ Len(FormSeq(rs)) = Len(rs)
<1>1. PICK n \in Nat : n = Len(rs) /\ \A i \in 1..n : rs[i] \in Row
  OBVIOUS
<1>2. \A i \in 1..n : rs[i].form \in Forms
  BY <1>1 DEF Row
<1>3. FormSeq(rs) \in [1..n -> Forms]
  BY <1>1, <1>2 DEF FormSeq
<1> QED BY <1>1, <1>3, ListOf

\* While the numbers run on, reading the rows by their numbers is reading them in order.
LEMMA ReadInOrder ==
  ASSUME NEW rs, GoodPage(rs)
  PROVE  [i \in 1..Len(rs) |-> rs[CHOOSE j \in DOMAIN rs : rs[j].index = i - 1].form]
           = FormSeq(rs)
<1>1. PICK n \in Nat : n = Len(rs)
  BY DEF GoodPage
<1>2. \A j \in 1..n : rs[j].index = j - 1
  BY <1>1 DEF GoodPage, Numbered
<1>3. DOMAIN rs = 1..n
  BY <1>1 DEF GoodPage
<1> DEFINE At(i) == CHOOSE j \in DOMAIN rs : rs[j].index = i - 1
<1>4. ASSUME NEW i \in 1..n PROVE At(i) = i
  <2>1. \A j \in 1..n : rs[j].index = i - 1 <=> j = i
    BY <1>2
  <2> QED BY <1>3, <2>1
<1>5. FormSeq(rs) = [i \in 1..n |-> rs[i].form]
  BY <1>1 DEF FormSeq
<1>6. [i \in 1..n |-> rs[At(i)].form] = [i \in 1..n |-> rs[i].form]
  <2> HIDE DEF At
  <2> QED BY <1>4
<1> QED BY <1>1, <1>5, <1>6

\* What is posted are the forms that are shown.
LEMMA PostedIsShown == FormsetsIInv => Posted = FormSeq(rows)
BY ReadInOrder DEF FormsetsIInv, Posted

\* The same after a step.
LEMMA PostedIsShownNext == FormsetsIInv' => Posted' = FormSeq(rows')
BY ReadInOrder DEF FormsetsIInv, Posted

\* Typing changes no form.
LEMMA TypingShowsNothing ==
  ASSUME FormsetsIInv, NEW i \in DOMAIN rows, TypeIn(i)
  PROVE  FormSeq(rows') = FormSeq(rows)
<1>1. PICK n \in Nat : n = Len(rows) /\ rows \in [1..n -> Row]
  BY DEF FormsetsIInv, GoodPage
<1>2. PICK r : r = [rows[i] EXCEPT !.typed = TRUE]
  OBVIOUS
<1>3. r \in Row /\ r.form = rows[i].form /\ i \in 1..n
  BY <1>1, <1>2 DEF Row
<1>4. rows' = [rows EXCEPT ![i] = r]
  BY <1>2 DEF TypeIn
<1>5. rows' \in [1..n -> Row]
  BY <1>1, <1>3, <1>4
<1>6. Len(rows') = n
  BY <1>5, ListOf
<1>7. \A j \in 1..n : rows'[j].form = rows[j].form
  BY <1>1, <1>3, <1>4
<1> QED BY <1>1, <1>6, <1>7 DEF FormSeq

\* Adding a row adds its form at the end.
LEMMA AddingShown ==
  ASSUME FormsetsIInv, NEW f \in Forms,
         rows' = Append(rows, Fresh(f, Len(rows)))
  PROVE  FormSeq(rows') = Append(FormSeq(rows), f)
<1>1. PICK n \in Nat : n = Len(rows) /\ rows \in Seq(Row)
  BY DEF FormsetsIInv, GoodPage
<1>2. PICK r : r = Fresh(f, n)
  OBVIOUS
<1>3. r \in Row /\ r.form = f
  BY <1>2 DEF Fresh, Row
<1>4. rows' \in Seq(Row) /\ Len(rows') = n + 1 /\ rows'[n + 1] = r
      /\ \A j \in 1..n : rows'[j] = rows[j]
  BY <1>1, <1>2, <1>3
<1>5. PICK p : p = FormSeq(rows)
  OBVIOUS
<1>6. p \in Seq(Forms) /\ Len(p) = n /\ \A j \in 1..n : p[j] = rows[j].form
  BY <1>1, <1>5, FormSeqIsList DEF FormSeq
<1>7. PICK q : q = FormSeq(rows')
  OBVIOUS
<1>8. q \in Seq(Forms) /\ Len(q) = n + 1 /\ \A j \in 1..(n + 1) : q[j] = rows'[j].form
  BY <1>4, <1>7, FormSeqIsList DEF FormSeq
<1>9. PICK a : a = Append(p, f)
  OBVIOUS
<1>10. a \in Seq(Forms) /\ Len(a) = n + 1 /\ a[n + 1] = f /\ \A j \in 1..n : a[j] = p[j]
  BY <1>6, <1>9
<1>11. \A j \in 1..(n + 1) : q[j] = a[j]
  BY <1>3, <1>4, <1>6, <1>8, <1>10
<1> QED BY <1>5, <1>7, <1>8, <1>9, <1>10, <1>11, SeqEqual

\* Deleting a row takes its form out, whatever happens to the numbers of the others.
LEMMA DeletingShown ==
  ASSUME FormsetsIInv, NEW i \in DOMAIN rows, rows' \in Seq(Row),
         Len(rows') = Len(rows) - 1,
         \A j \in 1..(Len(rows) - 1) :
           rows'[j].form = IF j < i THEN rows[j].form ELSE rows[j + 1].form
  PROVE  FormSeq(rows') = RemoveAt(FormSeq(rows), i)
<1>1. PICK n \in Nat : n = Len(rows) /\ rows \in Seq(Row)
  BY DEF FormsetsIInv, GoodPage
<1>2. i \in 1..n
  BY <1>1
<1>3. PICK p : p = FormSeq(rows)
  OBVIOUS
<1>4. p \in Seq(Forms) /\ Len(p) = n /\ \A j \in 1..n : p[j] = rows[j].form
  BY <1>1, <1>3, FormSeqIsList DEF FormSeq
<1>5. PICK q : q = FormSeq(rows')
  OBVIOUS
<1>6. q \in Seq(Forms) /\ Len(q) = n - 1 /\ \A j \in 1..(n - 1) : q[j] = rows'[j].form
  BY <1>1, <1>5, FormSeqIsList DEF FormSeq
<1>7. PICK a : a = RemoveAt(p, i)
  OBVIOUS
<1>8. /\ a \in Seq(Forms) /\ Len(a) = n - 1
      /\ \A j \in 1..(n - 1) : a[j] = IF j < i THEN p[j] ELSE p[j + 1]
  BY <1>2, <1>4, <1>7, Removed
<1>9. ASSUME NEW j \in 1..(n - 1) PROVE q[j] = a[j]
  <2>1. j \in 1..n /\ j + 1 \in 1..n
    BY <1>1
  <2>2. p[j] = rows[j].form /\ p[j + 1] = rows[j + 1].form
    BY <1>4, <2>1
  <2>3. q[j] = IF j < i THEN rows[j].form ELSE rows[j + 1].form
    BY <1>1, <1>6
  <2> QED BY <1>8, <2>2, <2>3
<1> QED BY <1>3, <1>5, <1>6, <1>7, <1>8, <1>9, SeqEqual

\* crispyFormsetReindex gives numbers, and leaves each form where it is.
LEMMA ReindexedForms ==
  ASSUME NEW rs \in Seq(Row), NEW j \in 1..Len(rs)
  PROVE  Reindexed(rs)[j].form = rs[j].form
<1>1. PICK r \in Row : r = rs[j]
  OBVIOUS
<1>2. PICK k : k = SavedUpTo(rs, Len(rs)) + NewUpTo(rs, j - 1)
  OBVIOUS
<1>3. Reindexed(rs)[j] = IF r.saved THEN r ELSE [r EXCEPT !.index = k]
  BY <1>1, <1>2 DEF Reindexed
<1> QED BY <1>1, <1>3 DEF Row

\* Each script's deletion leaves the other forms in their order.
LEMMA DeletedForms ==
  ASSUME FormsetsIInv, FormsetsIInv', NEW i \in DOMAIN rows,
         UnfoldDelete(i) \/ DjangoDelete(i) \/ CrispyDelete(i)
  PROVE  /\ Len(rows') = Len(rows) - 1
         /\ \A j \in 1..(Len(rows) - 1) :
              rows'[j].form = IF j < i THEN rows[j].form ELSE rows[j + 1].form
<1>1. PICK n \in Nat : n = Len(rows) /\ rows \in Seq(Row)
  BY DEF FormsetsIInv, GoodPage
<1>2. i \in 1..n /\ n - 1 \in Nat /\ \A j \in 1..n : rows[j] \in Row
  BY <1>1
<1>3. PICK q : q = RemoveAt(rows, i)
  OBVIOUS
<1>4. /\ q \in Seq(Row) /\ Len(q) = n - 1
      /\ \A j \in 1..(n - 1) : q[j] = IF j < i THEN rows[j] ELSE rows[j + 1]
  BY <1>1, <1>2, <1>3, Removed
<1>5. CASE UnfoldDelete(i)
  <2>1. rows' = [j \in 1..(n - 1) |-> IF j < i THEN rows[j] ELSE Renamed(j + 1)]
    BY <1>1, <1>5 DEF UnfoldDelete
  <2>2. Len(rows') = n - 1
    <3>1. rows' \in Seq(Row)
      BY DEF FormsetsIInv, GoodPage
    <3>2. DOMAIN rows' = 1..(n - 1)
      BY <2>1
    <3> QED BY <1>2, <3>1, <3>2
  <2>3. ASSUME NEW j \in 1..(n - 1)
        PROVE  rows'[j].form = IF j < i THEN rows[j].form ELSE rows[j + 1].form
    <3>1. PICK k \in 1..n : k = j + 1
      BY <1>2
    <3>2. PICK r \in Row : r = rows[k]
      BY <1>2
    <3>3. Renamed(k).form = r.form
      BY <3>2 DEF Renamed, Row
    <3>4. rows'[j] = IF j < i THEN rows[j] ELSE Renamed(k)
      BY <2>1, <3>1
    <3> QED BY <3>1, <3>2, <3>3, <3>4
  <2> QED BY <1>1, <2>2, <2>3
<1>6. CASE DjangoDelete(i)
  <2>1. rows' = [j \in DOMAIN q |-> [q[j] EXCEPT !.index = j - 1]]
    BY <1>3, <1>6 DEF DjangoDelete
  <2>2. DOMAIN q = 1..(n - 1)
    BY <1>2, <1>4
  <2>3. Len(rows') = n - 1
    <3>1. rows' \in Seq(Row)
      BY DEF FormsetsIInv, GoodPage
    <3> QED BY <1>2, <2>1, <2>2, <3>1
  <2>4. ASSUME NEW j \in 1..(n - 1) PROVE rows'[j].form = q[j].form
    <3>1. PICK r \in Row : r = q[j]
      BY <1>4
    <3>2. rows'[j] = [r EXCEPT !.index = j - 1]
      BY <2>1, <2>2, <3>1
    <3> QED BY <3>1, <3>2 DEF Row
  <2> QED BY <1>1, <1>4, <2>3, <2>4
<1>7. CASE CrispyDelete(i)
  <2>1. rows' = Reindexed(q)
    BY <1>3, <1>7 DEF CrispyDelete
  <2>2. DOMAIN rows' = 1..(n - 1)
    BY <1>2, <1>4, <2>1 DEF Reindexed
  <2>3. Len(rows') = n - 1
    <3>1. rows' \in Seq(Row)
      BY DEF FormsetsIInv, GoodPage
    <3> QED BY <1>2, <2>2, <3>1
  <2>4. \A j \in 1..(n - 1) : rows'[j].form = q[j].form
    BY <1>4, <2>1, ReindexedForms
  <2> QED BY <1>1, <1>4, <2>3, <2>4
<1> QED BY <1>5, <1>6, <1>7

\* The buttons keep the limits.
LEMMA LimitsStart == FormsetsInit => WithinLimits
BY DEF FormsetsInit, WithinLimits

\* WithinLimits is inductive, given FormsetsIInv.
LEMMA LimitsKept ==
  FormsetsIInv /\ FormsetsIInv' /\ WithinLimits /\ [FormsetsNext]_formsetVars
    => WithinLimits'
<1> SUFFICES ASSUME FormsetsIInv, FormsetsIInv', WithinLimits, [FormsetsNext]_formsetVars
             PROVE  WithinLimits'
  OBVIOUS
<1>1. MinForms \in Nat /\ MaxForms \in Nat /\ total \in Nat
  BY FormsetsAssumption DEF FormsetsAssumption, FormsetsIInv, GoodPage
<1>2. CASE \E i \in DOMAIN rows : TypeIn(i)
  BY <1>2 DEF TypeIn, WithinLimits
<1>3. ASSUME NEW f \in Forms,
             \/ script = "unfold" /\ UnfoldAdd(f)
             \/ script = "django" /\ DjangoAdd(f)
             \/ script = "crispy" /\ CrispyAdd(f)
      PROVE  WithinLimits'
  <2>1. total' = total + 1 /\ script' = script
    BY <1>3 DEF UnfoldAdd, DjangoAdd, CrispyAdd
  <2>2. MinForms <= total'
    BY <1>1, <2>1 DEF WithinLimits
  <2>3. ASSUME script # "unfold" PROVE addable' = (total' < MaxForms)
    BY <1>3, <2>3 DEF DjangoAdd, CrispyAdd
  <2>4. script' # "unfold" /\ addable' => total' < MaxForms
    BY <2>1, <2>3
  <2> QED BY <2>2, <2>4 DEF WithinLimits
<1>4. ASSUME NEW i \in DOMAIN rows,
             \/ script = "unfold" /\ UnfoldDelete(i)
             \/ script = "django" /\ DjangoDelete(i)
             \/ script = "crispy" /\ CrispyDelete(i)
      PROVE  WithinLimits'
  <2>1. total' = total - 1
    BY <1>4, DeletedForms DEF FormsetsIInv
  <2>2. script' = script
    BY <1>4 DEF UnfoldDelete, DjangoDelete, CrispyDelete
  <2>3. total # MinForms
    BY <1>1, <1>4 DEF UnfoldDelete, DjangoDelete, DjangoRemovable, CrispyDelete
  <2>4. MinForms <= total'
    BY <1>1, <2>1, <2>3 DEF WithinLimits
  <2>5. ASSUME script # "unfold", addable' PROVE total' < MaxForms
    <3>1. CASE DjangoDelete(i)
      <4>1. addable \/ total' < MaxForms
        BY <2>5, <3>1 DEF DjangoDelete
      <4>2. addable => total < MaxForms
        BY <2>5 DEF WithinLimits
      <4> QED BY <1>1, <2>1, <4>1, <4>2
    <3>2. CASE CrispyDelete(i)
      BY <2>5, <3>2 DEF CrispyDelete
    <3> QED BY <1>4, <2>5, <3>1, <3>2
  <2> QED BY <2>2, <2>4, <2>5 DEF WithinLimits
<1>5. CASE UNCHANGED formsetVars
  BY <1>5 DEF formsetVars, WithinLimits
<1> QED BY <1>2, <1>3, <1>4, <1>5 DEF FormsetsNext

\* The server starts with a list of different forms.
LEMMA ServerStarts == FormsetsInit => Server!ListInit
<1> SUFFICES ASSUME FormsetsInit PROVE Server!ListInit
  OBVIOUS
<1>1. PICK f \in SeqOf(Forms, MaxForms) : \E m \in 0..Len(f) :
        /\ IsInjective(f)
        /\ rows = [i \in DOMAIN f |-> [Fresh(f[i], i - 1) EXCEPT !.saved = (i <= m)]]
  BY DEF FormsetsInit
<1>2. PICK n \in 0..MaxForms : f \in [1..n -> Forms]
  BY <1>1 DEF SeqOf
<1>3. n \in Nat
  BY FormsetsAssumption DEF FormsetsAssumption
<1>4. f \in Seq(Forms) /\ Len(f) = n /\ DOMAIN f = 1..n
  BY <1>2, <1>3, ListOf
<1>5. rows \in Seq(Row) /\ Posted = FormSeq(rows)
  BY FormsetsStart, PostedIsShown DEF FormsetsIInv, GoodPage
<1>6. DOMAIN rows = 1..n /\ \A i \in 1..n : rows[i].form = f[i]
  BY <1>1, <1>4 DEF Fresh
<1>7. Len(rows) = n
  BY <1>3, <1>5, <1>6
<1>8. FormSeq(rows) = f
  BY <1>2, <1>6, <1>7 DEF FormSeq
<1>9. Posted = f /\ IsInjective(f)
  BY <1>1, <1>5, <1>8
<1>10. Server!IsInjective(Posted)
  BY <1>9 DEF IsInjective, Server!IsInjective
<1> QED BY <1>4, <1>9, <1>10 DEF Server!ListInit

\* Every step shows the server a form more, a form less, or nothing new.
LEMMA ServerSteps ==
  FormsetsIInv /\ FormsetsIInv' /\ WithinLimits /\ [FormsetsNext]_formsetVars
    => [Server!AddForm \/ Server!RemoveForm]_Posted
<1> SUFFICES ASSUME FormsetsIInv, FormsetsIInv', WithinLimits, [FormsetsNext]_formsetVars
             PROVE  [Server!AddForm \/ Server!RemoveForm]_Posted
  OBVIOUS
<1>1. PICK p : p = Posted /\ p = FormSeq(rows)
  BY PostedIsShown
<1>2. Posted' = FormSeq(rows')
  BY PostedIsShownNext
<1>3. rows \in Seq(Row) /\ p \in Seq(Forms) /\ Len(p) = Len(rows) /\ total = Len(rows)
  BY <1>1, FormSeqIsList DEF FormsetsIInv, GoodPage
<1>4. MinForms \in Nat /\ MaxForms \in Nat
  BY FormsetsAssumption DEF FormsetsAssumption
<1>5. CASE \E i \in DOMAIN rows : TypeIn(i)
  <2>1. FormSeq(rows') = FormSeq(rows)
    BY <1>5, TypingShowsNothing
  <2> QED BY <1>1, <1>2, <2>1
<1>6. ASSUME NEW f \in Forms \ FormsOf(rows),
             \/ script = "unfold" /\ UnfoldAdd(f)
             \/ script = "django" /\ DjangoAdd(f)
             \/ script = "crispy" /\ CrispyAdd(f)
      PROVE  Server!AddForm
  <2>1. total < MaxForms
    BY <1>6 DEF UnfoldAdd, DjangoAdd, CrispyAdd, WithinLimits
  <2>2. rows' = Append(rows, Fresh(f, Len(rows)))
    BY <1>3, <1>6 DEF UnfoldAdd, DjangoAdd, CrispyAdd
  <2>3. Posted' = Append(p, f)
    BY <1>1, <1>2, <2>2, AddingShown
  <2>4. f \notin Range(p)
    <3>1. DOMAIN p = 1..Len(rows) /\ DOMAIN rows = 1..Len(rows)
      BY <1>3
    <3>2. \A i \in 1..Len(rows) : p[i] = rows[i].form
      BY <1>1 DEF FormSeq
    <3>3. \A i \in 1..Len(rows) : rows[i].form # f
      BY <1>6, <3>1 DEF FormsOf
    <3> QED BY <3>1, <3>2, <3>3 DEF Range
  <2>5. f \in Forms \ Server!Range(Posted)
    BY <1>1, <2>4 DEF Range, Server!Range
  <2>6. Len(Posted) < MaxForms /\ Posted' = Append(Posted, f)
    BY <1>1, <1>3, <2>1, <2>3
  <2> QED BY <2>5, <2>6 DEF Server!AddForm
<1>7. ASSUME NEW i \in DOMAIN rows,
             \/ script = "unfold" /\ UnfoldDelete(i)
             \/ script = "django" /\ DjangoDelete(i)
             \/ script = "crispy" /\ CrispyDelete(i)
      PROVE  Server!RemoveForm
  <2>1. total > MinForms
    <3>1. total # MinForms
      BY <1>3, <1>4, <1>7 DEF UnfoldDelete, DjangoDelete, DjangoRemovable, CrispyDelete
    <3> QED BY <1>3, <1>4, <3>1 DEF WithinLimits
  <2>2. Posted' = RemoveAt(p, i)
    <3>1. rows' \in Seq(Row)
      BY DEF FormsetsIInv, GoodPage
    <3>2. /\ Len(rows') = Len(rows) - 1
          /\ \A j \in 1..(Len(rows) - 1) :
               rows'[j].form = IF j < i THEN rows[j].form ELSE rows[j + 1].form
      BY <1>7, DeletedForms
    <3> QED BY <1>1, <1>2, <3>1, <3>2, DeletingShown
  <2>3. i \in DOMAIN p
    BY <1>3
  <2>4. Posted' = Server!RemoveAt(Posted, i)
    BY <1>1, <2>2 DEF RemoveAt, Server!RemoveAt
  <2>5. Len(Posted) > MinForms /\ i \in DOMAIN Posted
    BY <1>1, <1>3, <2>1, <2>3
  <2> QED BY <2>4, <2>5 DEF Server!RemoveForm
<1>8. CASE UNCHANGED formsetVars
  BY <1>8 DEF formsetVars, Posted
<1> QED BY <1>5, <1>6, <1>7, <1>8 DEF FormsetsNext

-----------------------------------------------------------------------------
\* The three scripts implement the list that the server is promised: whatever is added,
\* typed and deleted, each step adds one form at the end, removes one, or changes
\* nothing that the server reads, and never beyond the limits.
THEOREM ScriptsImplementTheList == FormsetsSpec => ServerSeesList
<1>1. FormsetsInit => FormsetsIInv /\ WithinLimits /\ Server!ListInit
  BY FormsetsStart, LimitsStart, ServerStarts
<1>2. FormsetsIInv /\ WithinLimits /\ [FormsetsNext]_formsetVars
        => FormsetsIInv' /\ WithinLimits'
  BY FormsetsKept, LimitsKept
<1>3. FormsetsIInv /\ FormsetsIInv' /\ WithinLimits /\ [FormsetsNext]_formsetVars
        => [Server!AddForm \/ Server!RemoveForm]_Posted
  BY ServerSteps
<1> QED BY <1>1, <1>2, <1>3, PTL DEF FormsetsSpec, ServerSeesList, Server!ListSpec

-----------------------------------------------------------------------------
(***************************************************************************)
(* What was typed. A row is known by its form, so that it matters that no   *)
(* form is on the page twice.                                               *)
(***************************************************************************)

\* No form has two rows.
DistinctForms(rs) == \A i, j \in 1..Len(rs) : rs[i].form = rs[j].form => i = j

\* The server renders each form once.
LEMMA DistinctStart == FormsetsInit => DistinctForms(rows)
<1> SUFFICES ASSUME FormsetsInit PROVE DistinctForms(rows)
  OBVIOUS
<1>1. PICK f \in SeqOf(Forms, MaxForms) : \E m \in 0..Len(f) :
        /\ IsInjective(f)
        /\ rows = [i \in DOMAIN f |-> [Fresh(f[i], i - 1) EXCEPT !.saved = (i <= m)]]
  BY DEF FormsetsInit
<1>2. PICK n \in 0..MaxForms : f \in [1..n -> Forms]
  BY <1>1 DEF SeqOf
<1>3. n \in Nat
  BY FormsetsAssumption DEF FormsetsAssumption
<1>4. DOMAIN f = 1..n
  BY <1>2, <1>3, ListOf
<1>5. DOMAIN rows = 1..n /\ \A i \in 1..n : rows[i].form = f[i]
  BY <1>1, <1>4 DEF Fresh
<1>6. rows \in Seq(Row)
  BY FormsetsStart DEF FormsetsIInv, GoodPage
<1>7. Len(rows) = n
  BY <1>3, <1>5, <1>6
<1>8. \A i, j \in 1..n : f[i] = f[j] => i = j
  BY <1>1, <1>4 DEF IsInjective
<1> QED BY <1>5, <1>7, <1>8 DEF DistinctForms

\* Where the rows of a list stand after the i-th was taken out of n.
Stood(i, j) == IF j < i THEN j ELSE j + 1

\* Positions stay apart, and only the one that was taken out is left over.
LEMMA StoodApart ==
  ASSUME NEW n \in Nat, NEW i \in 1..n
  PROVE  /\ \A j \in 1..(n - 1) : Stood(i, j) \in 1..n /\ Stood(i, j) # i
         /\ \A j, k \in 1..(n - 1) : Stood(i, j) = Stood(i, k) => j = k
         /\ \A a \in 1..n : a # i => \E j \in 1..(n - 1) : Stood(i, j) = a
<1>1. \A j \in 1..(n - 1) : Stood(i, j) \in 1..n /\ Stood(i, j) # i
  BY DEF Stood
<1>2. \A j, k \in 1..(n - 1) : Stood(i, j) = Stood(i, k) => j = k
  BY DEF Stood
<1>3. ASSUME NEW a \in 1..n, a # i PROVE \E j \in 1..(n - 1) : Stood(i, j) = a
  <2>1. CASE a < i
    <3>1. a \in 1..(n - 1) /\ Stood(i, a) = a
      BY <2>1 DEF Stood
    <3> QED BY <3>1
  <2>2. CASE ~(a < i)
    <3>1. a - 1 \in 1..(n - 1) /\ Stood(i, a - 1) = a
      BY <1>3, <2>2 DEF Stood
    <3> QED BY <3>1
  <2> QED BY <2>1, <2>2
<1> QED BY <1>1, <1>2, <1>3

\* A script adds a form that is not on the page, and takes out one row.
LEMMA DistinctKept ==
  FormsetsIInv /\ FormsetsIInv' /\ DistinctForms(rows) /\ [FormsetsNext]_formsetVars
    => DistinctForms(rows)'
<1> SUFFICES ASSUME FormsetsIInv, FormsetsIInv', DistinctForms(rows),
                    [FormsetsNext]_formsetVars
             PROVE  DistinctForms(rows')
  OBVIOUS
<1>1. PICK n \in Nat : n = Len(rows) /\ rows \in Seq(Row) /\ total = n
  BY DEF FormsetsIInv, GoodPage
<1>2. \A i, j \in 1..n : rows[i].form = rows[j].form => i = j
  BY <1>1 DEF DistinctForms
<1>3. CASE \E i \in DOMAIN rows : TypeIn(i)
  <2>1. FormSeq(rows') = FormSeq(rows)
    BY <1>3, TypingShowsNothing
  <2>2. PICK p : p = FormSeq(rows)
    OBVIOUS
  <2>3. Len(p) = n /\ \A j \in 1..n : p[j] = rows[j].form
    BY <1>1, <2>2, FormSeqIsList DEF FormSeq
  <2>4. rows' \in Seq(Row)
    BY DEF FormsetsIInv, GoodPage
  <2>5. Len(rows') = n /\ \A j \in 1..n : p[j] = rows'[j].form
    BY <2>1, <2>2, <2>3, <2>4, FormSeqIsList DEF FormSeq
  <2> QED BY <1>2, <2>3, <2>5 DEF DistinctForms
<1>4. ASSUME NEW f \in Forms \ FormsOf(rows),
             \/ script = "unfold" /\ UnfoldAdd(f)
             \/ script = "django" /\ DjangoAdd(f)
             \/ script = "crispy" /\ CrispyAdd(f)
      PROVE  DistinctForms(rows')
  <2>1. rows' = Append(rows, Fresh(f, n))
    BY <1>1, <1>4 DEF UnfoldAdd, DjangoAdd, CrispyAdd
  <2>2. PICK r : r = Fresh(f, n)
    OBVIOUS
  <2>3. r \in Row /\ r.form = f
    BY <2>2 DEF Fresh, Row
  <2>4. Len(rows') = n + 1 /\ rows'[n + 1] = r /\ \A j \in 1..n : rows'[j] = rows[j]
    BY <1>1, <2>1, <2>2, <2>3
  <2>5. \A j \in 1..n : rows[j].form # f
    BY <1>1, <1>4 DEF FormsOf
  <2> QED BY <1>2, <2>3, <2>4, <2>5 DEF DistinctForms
<1>5. ASSUME NEW i \in DOMAIN rows,
             \/ script = "unfold" /\ UnfoldDelete(i)
             \/ script = "django" /\ DjangoDelete(i)
             \/ script = "crispy" /\ CrispyDelete(i)
      PROVE  DistinctForms(rows')
  <2>1. i \in 1..n
    BY <1>1
  <2>2. Len(rows') = n - 1 /\ \A j \in 1..(n - 1) : rows'[j].form = rows[Stood(i, j)].form
    BY <1>1, <1>5, DeletedForms DEF Stood
  <2>3. /\ \A j \in 1..(n - 1) : Stood(i, j) \in 1..n
        /\ \A j, k \in 1..(n - 1) : Stood(i, j) = Stood(i, k) => j = k
    BY <2>1, StoodApart
  <2>4. ASSUME NEW j \in 1..(n - 1), NEW k \in 1..(n - 1), rows'[j].form = rows'[k].form
        PROVE  j = k
    <3>1. rows[Stood(i, j)].form = rows[Stood(i, k)].form
      BY <2>2, <2>4
    <3>2. Stood(i, j) = Stood(i, k)
      BY <1>2, <2>3, <3>1
    <3> QED BY <2>3, <3>2
  <2> QED BY <2>2, <2>4 DEF DistinctForms
<1>6. CASE UNCHANGED formsetVars
  BY <1>6 DEF formsetVars
<1> QED BY <1>3, <1>4, <1>5, <1>6 DEF FormsetsNext

\* Unfold's script rebuilds the rows below the one it deletes and leaves those above.
LEMMA UnfoldLeaves ==
  ASSUME FormsetsIInv, FormsetsIInv', NEW i \in DOMAIN rows, UnfoldDelete(i),
         NEW j \in 1..(Len(rows) - 1)
  PROVE  rows'[j] = IF j < i THEN rows[Stood(i, j)] ELSE Renamed(Stood(i, j))
BY DEF UnfoldDelete, Stood

\* The other two scripts change no more than the numbers.
LEMMA OthersLeaveTyped ==
  ASSUME FormsetsIInv, FormsetsIInv', NEW i \in DOMAIN rows,
         DjangoDelete(i) \/ CrispyDelete(i), NEW j \in 1..(Len(rows) - 1)
  PROVE  rows'[j].typed = rows[Stood(i, j)].typed
<1>1. PICK n \in Nat : n = Len(rows) /\ rows \in Seq(Row)
  BY DEF FormsetsIInv, GoodPage
<1>2. PICK q : q = RemoveAt(rows, i)
  OBVIOUS
<1>3. /\ q \in Seq(Row) /\ Len(q) = n - 1 /\ DOMAIN q = 1..(n - 1)
      /\ q[j] = rows[Stood(i, j)]
  <2>0. i \in 1..n
    BY <1>1
  <2>1. /\ q \in Seq(Row) /\ Len(q) = n - 1
        /\ \A k \in 1..(n - 1) : q[k] = IF k < i THEN rows[k] ELSE rows[k + 1]
    BY <1>1, <1>2, <2>0, Removed
  <2>2. DOMAIN q = 1..(n - 1)
    BY <1>1, <2>1
  <2>3. q[j] = rows[Stood(i, j)]
    BY <1>1, <2>1 DEF Stood
  <2> QED BY <2>1, <2>2, <2>3
<1>4. PICK r \in Row : r = q[j]
  BY <1>1, <1>3
<1>5. CASE DjangoDelete(i)
  <2>1. rows' = [k \in DOMAIN q |-> [q[k] EXCEPT !.index = k - 1]]
    BY <1>2, <1>5 DEF DjangoDelete
  <2>2. rows'[j] = [r EXCEPT !.index = j - 1]
    BY <1>1, <1>3, <1>4, <2>1
  <2> QED BY <1>3, <1>4, <2>2 DEF Row
<1>6. CASE CrispyDelete(i)
  <2>1. PICK k : k = SavedUpTo(q, Len(q)) + NewUpTo(q, j - 1)
    OBVIOUS
  <2>2. rows' = Reindexed(q)
    BY <1>2, <1>6 DEF CrispyDelete
  <2>3. rows'[j] = IF r.saved THEN r ELSE [r EXCEPT !.index = k]
    BY <1>1, <1>3, <1>4, <2>1, <2>2 DEF Reindexed
  <2> QED BY <1>3, <1>4, <2>3 DEF Row
<1> QED BY <1>5, <1>6

\* What TypedStays asks of the row at position i.
TypedKept(i) ==
  (rows[i].typed /\ rows[i].form \in FormsOf(rows'))
    => \/ \E j \in DOMAIN rows' : rows'[j].form = rows[i].form /\ rows'[j].typed
       \/ /\ script = "unfold"
          /\ \E j \in DOMAIN rows' : rows'[j] = Renamed(i)
          /\ Len(rows') < Len(rows)

\* Each step keeps what was typed into the k-th row.
LEMMA TypingSurvives ==
  ASSUME FormsetsIInv, FormsetsIInv', DistinctForms(rows), FormsetsNext,
         NEW k \in DOMAIN rows
  PROVE  TypedKept(k)
<1>1. PICK n \in Nat : n = Len(rows) /\ rows \in Seq(Row) /\ total = n
  BY DEF FormsetsIInv, GoodPage
<1>2. rows' \in Seq(Row) /\ DOMAIN rows' = 1..Len(rows') /\ k \in 1..n
  BY <1>1 DEF FormsetsIInv, GoodPage
<1>3. CASE \E i \in DOMAIN rows : TypeIn(i)
  <2>1. PICK i \in DOMAIN rows : rows' = [rows EXCEPT ![i].typed = TRUE]
    BY <1>3 DEF TypeIn
  <2>2. PICK r \in Row : r = rows[k]
    BY <1>1, <1>2
  <2>3. k \in DOMAIN rows' /\ (rows'[k] = r \/ rows'[k] = [r EXCEPT !.typed = TRUE])
    BY <2>1, <2>2
  <2>4. r.typed => rows'[k].form = r.form /\ rows'[k].typed
    BY <2>2, <2>3 DEF Row
  <2> QED BY <2>2, <2>3, <2>4 DEF TypedKept
<1>4. ASSUME NEW f \in Forms,
             \/ script = "unfold" /\ UnfoldAdd(f)
             \/ script = "django" /\ DjangoAdd(f)
             \/ script = "crispy" /\ CrispyAdd(f)
      PROVE  TypedKept(k)
  <2>1. rows' = Append(rows, Fresh(f, n))
    BY <1>1, <1>4 DEF UnfoldAdd, DjangoAdd, CrispyAdd
  <2>2. k \in DOMAIN rows' /\ rows'[k] = rows[k]
    BY <1>1, <1>2, <2>1
  <2> QED BY <2>2 DEF TypedKept
<1>5. ASSUME NEW i \in DOMAIN rows,
             \/ script = "unfold" /\ UnfoldDelete(i)
             \/ script = "django" /\ DjangoDelete(i)
             \/ script = "crispy" /\ CrispyDelete(i)
      PROVE  TypedKept(k)
  <2>1. i \in 1..n
    BY <1>1
  <2>2. /\ Len(rows') = n - 1 /\ DOMAIN rows' = 1..(n - 1)
        /\ \A j \in 1..(n - 1) : rows'[j].form = rows[Stood(i, j)].form
    BY <1>1, <1>2, <1>5, DeletedForms DEF Stood
  <2>3. CASE k = i
    \* The row that is deleted: its form is gone from the page.
    <3>1. \A j \in 1..(n - 1) : Stood(i, j) \in 1..n /\ Stood(i, j) # i
      BY <2>1, StoodApart
    <3>2. \A j \in 1..(n - 1) : rows[Stood(i, j)].form # rows[i].form
      BY <1>1, <2>1, <3>1 DEF DistinctForms
    <3>3. rows[k].form \notin FormsOf(rows')
      BY <2>2, <2>3, <3>2 DEF FormsOf
    <3> QED BY <3>3 DEF TypedKept
  <2>4. CASE k # i
    <3>1. PICK j \in 1..(n - 1) : Stood(i, j) = k
      BY <1>2, <2>1, <2>4, StoodApart
    <3>2. rows'[j].form = rows[k].form
      BY <2>2, <3>1
    <3>3. CASE DjangoDelete(i) \/ CrispyDelete(i)
      <4>1. rows'[j].typed = rows[k].typed
        BY <1>1, <3>1, <3>3, OthersLeaveTyped
      <4> QED BY <2>2, <3>2, <4>1 DEF TypedKept
    <3>4. CASE script = "unfold" /\ UnfoldDelete(i)
      <4>1. rows'[j] = IF j < i THEN rows[k] ELSE Renamed(k)
        BY <1>1, <3>1, <3>4, UnfoldLeaves
      <4>2. CASE j < i
        BY <2>2, <3>2, <4>1, <4>2 DEF TypedKept
      <4>3. CASE ~(j < i)
        <5>1. rows'[j] = Renamed(k) /\ j \in DOMAIN rows'
          BY <2>2, <4>1, <4>3
        <5>2. Len(rows') < Len(rows)
          BY <1>1, <2>2
        <5> QED BY <3>4, <5>1, <5>2 DEF TypedKept
      <4> QED BY <4>2, <4>3
    <3> QED BY <1>5, <3>3, <3>4
  <2> QED BY <2>3, <2>4
<1> QED BY <1>3, <1>4, <1>5 DEF FormsetsNext

\* Adding and deleting rows loses nothing that was typed into a row that stays, except
\* that Unfold's script rebuilds the rows below the deleted one.
THEOREM TypedIsKept == FormsetsSpec => TypedStays
<1>1. FormsetsInit => FormsetsIInv /\ DistinctForms(rows)
  BY FormsetsStart, DistinctStart
<1>2. FormsetsIInv /\ DistinctForms(rows) /\ [FormsetsNext]_formsetVars
        => FormsetsIInv' /\ DistinctForms(rows)'
  BY FormsetsKept, DistinctKept
<1>3. FormsetsIInv /\ FormsetsIInv' /\ DistinctForms(rows) /\ [FormsetsNext]_formsetVars
        => [\A i \in DOMAIN rows : TypedKept(i)]_formsetVars
  BY TypingSurvives
<1>4. FormsetsSpec => [][\A i \in DOMAIN rows : TypedKept(i)]_formsetVars
  BY <1>1, <1>2, <1>3, PTL DEF FormsetsSpec
<1> QED BY <1>4 DEF TypedStays, TypedKept
====================================================================================
