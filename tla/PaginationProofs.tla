-------------------------- MODULE PaginationProofs --------------------------
(***************************************************************************)
(* What a paged listing may lack and repeat, for every page size, page     *)
(* limit, length of the listing and number of changes meanwhile.           *)
(***************************************************************************)
EXTENDS Pagination, FiniteSetTheorems, TLAPS

(* The pages so far stand for the first Covered positions of the listing.  *)
Covered == IF fetch = "done" THEN page * PageSize ELSE Offset(page)

(* A row that was removed lets one row slip from the pages to come into    *)
(* those that are past; a row that was added pushes one the other way.     *)
Skipped == {r \in 1 .. started : \E i \in DOMAIN listing :
              i <= Covered /\ listing[i] = r /\ r \notin RangeOf(got)}
Again == {r \in RangeOf(got) : \E i \in DOMAIN listing :
              i > Covered /\ listing[i] = r}

Distinct == \A i, j \in DOMAIN listing : listing[i] = listing[j] => i = j
OnlyKnown == /\ \A i \in DOMAIN listing : listing[i] <= started + inserted
             /\ \A i \in DOMAIN got : got[i] <= started + inserted
SkippedIsPaidFor == Cardinality(Skipped) <= removed
AgainIsPaidFor == Cardinality(Again \cup Repeated) <= inserted
EndsAtTheEnd ==
    (/\ fetch = "done" /\ style # "bare"
     /\ page = MaxPages => total <= Len(got))
       => Len(listing) <= Covered

Sized == Len(listing) + removed = started + inserted
IdleIsEmpty == fetch = "idle" => /\ got = <<>> /\ page = 1
                                 /\ inserted = 0 /\ removed = 0

PInv ==
    /\ PagingTypeOK /\ Sized /\ IdleIsEmpty /\ Distinct /\ OnlyKnown /\ Len(got) <= Covered
    /\ SkippedIsPaidFor /\ AgainIsPaidFor /\ EndsAtTheEnd

-----------------------------------------------------------------------------
(* A set that did not grow, and one that grew by one element at most.      *)
LEMMA NoMore ==
    ASSUME NEW T, IsFiniteSet(T), NEW S \in SUBSET T, NEW n \in Nat, Cardinality(T) <= n
    PROVE  Cardinality(S) <= n
<1>1. Cardinality(S) <= Cardinality(T) /\ IsFiniteSet(S)
  BY FS_Subset
<1>2. Cardinality(S) \in Nat /\ Cardinality(T) \in Nat
  BY <1>1, FS_CardinalityType
<1>3. QED  BY <1>1, <1>2

LEMMA OneMore ==
    ASSUME NEW T, IsFiniteSet(T), NEW x, NEW S \in SUBSET (T \cup {x}),
           NEW n \in Nat, Cardinality(T) <= n
    PROVE  Cardinality(S) <= n + 1
<1>1. /\ IsFiniteSet(T \cup {x})
      /\ Cardinality(T \cup {x}) = IF x \in T THEN Cardinality(T) ELSE Cardinality(T) + 1
  BY FS_AddElement
<1>2. Cardinality(T) \in Nat
  BY FS_CardinalityType
<1>3. Cardinality(T \cup {x}) <= n + 1
  BY <1>1, <1>2
<1>4. QED  BY <1>1, <1>3, NoMore

(* Whole pages grow with their number.                                     *)
LEMMA PagesGrow ==
    ASSUME NEW m \in Nat, NEW n \in Nat, n <= m, NEW s \in Nat
    PROVE  n * s <= m * s
<1>1. PICK d \in Nat : m = n + d
  <2>1. m - n \in Nat /\ m = n + (m - n)
    OBVIOUS
  <2>2. QED  BY <2>1
<1>2. (n + d) * s = n * s + d * s
  OBVIOUS
<1>3. d * s \in Nat /\ n * s \in Nat
  OBVIOUS
<1>4. QED  BY <1>1, <1>2, <1>3

(* A sequence and its range.                                               *)
LEMMA RowInRange ==
    ASSUME NEW S, NEW s \in Seq(S), NEW i \in 1 .. Len(s)
    PROVE  s[i] \in RangeOf(s) /\ s[i] \in S
BY DEF RangeOf

LEMMA RangeIsIn ==
    ASSUME NEW S, NEW s \in Seq(S)
    PROVE  RangeOf(s) \subseteq S
BY DEF RangeOf

(* A function on 1 .. n is a sequence of length n.                         *)
LEMMA IsSequence ==
    ASSUME NEW S, NEW n \in Nat, NEW f \in [1 .. n -> S]
    PROVE  f \in Seq(S) /\ Len(f) = n /\ DOMAIN f = 1 .. n
OBVIOUS

(* One sequence after another.                                             *)
LEMMA Glued ==
    ASSUME NEW S, NEW s \in Seq(S), NEW t \in Seq(S)
    PROVE  /\ s \o t \in Seq(S)
           /\ Len(s \o t) = Len(s) + Len(t)
           /\ DOMAIN (s \o t) = 1 .. Len(s) + Len(t)
           /\ \A i \in 1 .. Len(s) : (s \o t)[i] = s[i]
           /\ \A i \in 1 .. Len(t) : (s \o t)[Len(s) + i] = t[i]
OBVIOUS

LEMMA FiniteSets ==
    ASSUME PagingTypeOK
    PROVE  IsFiniteSet(Skipped) /\ IsFiniteSet(Again \cup Repeated)
<1>1. IsFiniteSet(1 .. started) /\ IsFiniteSet(1 .. MaxRows)
  BY FS_Interval, PagingAssumption DEF PagingTypeOK
<1>2. Skipped \in SUBSET (1 .. started)
  BY DEF Skipped
<1>3. Again \cup Repeated \in SUBSET (1 .. MaxRows)
  BY RangeIsIn DEF Again, Repeated, PagingTypeOK
<1>4. QED  BY <1>1, <1>2, <1>3, FS_Subset

-----------------------------------------------------------------------------
LEMMA CoveredIsNat ==
    ASSUME PagingTypeOK
    PROVE  /\ Covered \in Nat
           /\ Offset(page) \in Nat
           /\ page * PageSize = Offset(page) + PageSize
           /\ page * PageSize \in Nat
           /\ Offset(page + 1) = page * PageSize
<1>1. /\ page \in Nat \ {0} /\ PageSize \in Nat \ {0}
  BY PagingAssumption DEF PagingTypeOK
<1>2. PICK q \in Nat : page = q + 1
  <2>1. page - 1 \in Nat /\ page = (page - 1) + 1
    BY <1>1
  <2>2. QED  BY <2>1
<1>3. q * PageSize \in Nat /\ (q + 1) * PageSize = q * PageSize + PageSize
  BY <1>1, <1>2
<1>4. Offset(page) = q * PageSize /\ Offset(page + 1) = page * PageSize
  BY <1>1, <1>2 DEF Offset
<1>5. QED  BY <1>1, <1>2, <1>3, <1>4 DEF Covered

(* The rows of a page are those of its positions.                          *)
LEMMA BatchRows ==
    ASSUME PagingTypeOK
    PROVE  /\ Batch(page) \in Seq(1 .. MaxRows)
           /\ Len(Batch(page)) = BatchSize(page)
           /\ BatchSize(page) \in 0 .. PageSize
           /\ Offset(page) + BatchSize(page) <= Len(listing) \/ BatchSize(page) = 0
           /\ \A i \in 1 .. BatchSize(page) :
                 /\ Offset(page) + i \in DOMAIN listing
                 /\ Batch(page)[i] = listing[Offset(page) + i]
           /\ \A i \in DOMAIN listing :
                 (Offset(page) < i /\ i <= page * PageSize)
                    => i - Offset(page) \in 1 .. BatchSize(page)
           /\ BatchSize(page) < PageSize => Len(listing) <= page * PageSize
<1>1. /\ Offset(page) \in Nat /\ page * PageSize = Offset(page) + PageSize
      /\ page * PageSize \in Nat /\ PageSize \in Nat \ {0}
  BY CoveredIsNat, PagingAssumption
<1>2. /\ listing \in Seq(1 .. MaxRows) /\ Len(listing) \in Nat
      /\ DOMAIN listing = 1 .. Len(listing)
  BY DEF PagingTypeOK
<1>3. Until(page) = IF page * PageSize < Len(listing) THEN page * PageSize ELSE Len(listing)
  BY DEF Until, Least
<1>4. BatchSize(page) = IF Until(page) > Offset(page) THEN Until(page) - Offset(page) ELSE 0
  BY DEF BatchSize
<1>5. /\ BatchSize(page) \in 0 .. PageSize
      /\ \A i \in 1 .. BatchSize(page) : Offset(page) + i \in DOMAIN listing
      /\ Offset(page) + BatchSize(page) <= Len(listing) \/ BatchSize(page) = 0
      /\ BatchSize(page) < PageSize => Len(listing) <= page * PageSize
      /\ \A i \in DOMAIN listing :
           (Offset(page) < i /\ i <= page * PageSize)
              => i - Offset(page) \in 1 .. BatchSize(page)
  BY <1>1, <1>2, <1>3, <1>4
<1>6. \A i \in 1 .. BatchSize(page) : listing[Offset(page) + i] \in 1 .. MaxRows
  BY <1>2, <1>5, RowInRange
<1>7. /\ Batch(page) \in [1 .. BatchSize(page) -> 1 .. MaxRows]
      /\ \A i \in 1 .. BatchSize(page) : Batch(page)[i] = listing[Offset(page) + i]
  BY <1>6 DEF Batch
<1>8. Batch(page) \in Seq(1 .. MaxRows) /\ Len(Batch(page)) = BatchSize(page)
  <2>1. BatchSize(page) \in Nat
    BY <1>1, <1>5
  <2>2. QED  BY ONLY <2>1, <1>7, IsSequence
<1>9. QED  BY <1>5, <1>7, <1>8

(* What has been fetched once a page has come.                             *)
LEMMA PageAppended ==
    ASSUME PagingTypeOK, got' = got \o Batch(page)
    PROVE  /\ got' \in Seq(1 .. MaxRows)
           /\ Len(got') = Len(got) + BatchSize(page)
           /\ \A i \in 1 .. Len(got) : got'[i] = got[i]
           /\ \A i \in 1 .. BatchSize(page) :
                 got'[Len(got) + i] = listing[Offset(page) + i]
           /\ RangeOf(got) \subseteq RangeOf(got)'
           /\ \A j \in DOMAIN got' :
                 \/ j \in DOMAIN got /\ got'[j] = got[j]
                 \/ \E i \in 1 .. BatchSize(page) :
                       j = Len(got) + i /\ got'[j] = listing[Offset(page) + i]
<1>1. /\ got \in Seq(1 .. MaxRows) /\ Len(got) \in Nat /\ DOMAIN got = 1 .. Len(got)
  BY DEF PagingTypeOK
<1>2. /\ Batch(page) \in Seq(1 .. MaxRows) /\ Len(Batch(page)) = BatchSize(page)
      /\ BatchSize(page) \in Nat
      /\ \A i \in 1 .. BatchSize(page) : Batch(page)[i] = listing[Offset(page) + i]
  BY BatchRows, PagingAssumption
<1>a. /\ got' \in Seq(1 .. MaxRows) /\ Len(got') = Len(got) + Len(Batch(page))
      /\ DOMAIN got' = 1 .. Len(got) + Len(Batch(page))
      /\ \A i \in 1 .. Len(got) : got'[i] = got[i]
      /\ \A i \in 1 .. Len(Batch(page)) : got'[Len(got) + i] = Batch(page)[i]
  <2>1. got' = got \o Batch(page)
    OBVIOUS
  <2>2. PICK b : b = Batch(page)
    OBVIOUS
  <2>3. got' = got \o b /\ b \in Seq(1 .. MaxRows)
    BY <1>2, <2>1, <2>2
  <2>4. got' \in Seq(1 .. MaxRows)
    BY ONLY <1>1, <2>3, Glued
  <2>5. Len(got') = Len(got) + Len(b)
    BY ONLY <1>1, <2>3, Glued
  <2>6. DOMAIN got' = 1 .. Len(got) + Len(b)
    BY ONLY <1>1, <2>3, Glued
  <2>7. \A i \in 1 .. Len(got) : got'[i] = got[i]
    BY ONLY <1>1, <2>3, Glued
  <2>8. \A i \in 1 .. Len(b) : got'[Len(got) + i] = b[i]
    BY ONLY <1>1, <2>3, Glued
  <2>9. QED  BY ONLY <2>2, <2>4, <2>5, <2>6, <2>7, <2>8
<1>3. /\ got' \in Seq(1 .. MaxRows) /\ Len(got') = Len(got) + BatchSize(page)
      /\ DOMAIN got' = 1 .. Len(got) + BatchSize(page)
  BY ONLY <1>a, <1>2
<1>4. \A i \in 1 .. Len(got) : got'[i] = got[i]
  BY ONLY <1>a
<1>5. \A i \in 1 .. BatchSize(page) : got'[Len(got) + i] = listing[Offset(page) + i]
  BY ONLY <1>a, <1>2
<1>6. RangeOf(got) \subseteq RangeOf(got)'
  BY <1>1, <1>2, <1>3, <1>4 DEF RangeOf
<1>7. ASSUME NEW j \in DOMAIN got'
      PROVE  \/ j \in DOMAIN got /\ got'[j] = got[j]
             \/ \E i \in 1 .. BatchSize(page) :
                   j = Len(got) + i /\ got'[j] = listing[Offset(page) + i]
  <2>1. CASE j <= Len(got)
    BY <1>1, <1>2, <1>3, <1>4, <2>1
  <2>2. CASE j > Len(got)
    <3>1. j - Len(got) \in 1 .. BatchSize(page) /\ j = Len(got) + (j - Len(got))
      BY <1>1, <1>2, <1>3, <2>2
    <3>2. QED  BY <1>5, <3>1
  <2>3. QED  BY <1>1, <1>2, <1>3, <2>1, <2>2
<1>8. QED  BY <1>3, <1>4, <1>5, <1>6, <1>7

-----------------------------------------------------------------------------
(* The next page: what it covers now is fetched.                           *)
LEMMA PageIsTyped ==
    ASSUME PInv, FetchPage
    PROVE  PagingTypeOK' /\ Covered = Offset(page) /\ Covered' = page * PageSize
<1>1. /\ PagingTypeOK /\ Sized /\ fetch = "asking"
      /\ got' = got \o Batch(page) /\ total' = Len(listing)
      /\ UNCHANGED <<listing, style, started, inserted, removed>>
      /\ \/ fetch' = "done" /\ page' = page
         \/ fetch' = "asking" /\ page' = page + 1 /\ page # MaxPages
  BY DEF PInv, FetchPage, EndsAfter
<1>2. got' \in Seq(1 .. MaxRows)
  BY <1>1, PageAppended
<1>3. page' \in 1 .. MaxPages
  BY <1>1, PagingAssumption DEF PagingTypeOK
<1>4. total' \in 0 .. MaxRows
  <2>1. Len(listing) \in Nat /\ Len(listing) <= MaxRows
    BY <1>1, PagingAssumption DEF PagingTypeOK, Sized
  <2>2. QED  BY <1>1, <2>1, PagingAssumption
<1>5. PagingTypeOK'
  BY <1>1, <1>2, <1>3, <1>4 DEF PagingTypeOK
<1>6. Covered = Offset(page)
  BY <1>1 DEF Covered
<1>7. Covered' = page * PageSize
  <2>1. Offset(page + 1) = page * PageSize
    BY <1>1, CoveredIsNat
  <2>2. CASE fetch' = "done" /\ page' = page
    BY <2>2 DEF Covered
  <2>3. CASE fetch' = "asking" /\ page' = page + 1
    BY <2>1, <2>3 DEF Covered, Offset
  <2>4. QED  BY <1>1, <2>2, <2>3
<1>8. QED  BY <1>5, <1>6, <1>7

LEMMA PageSkipsNothing ==
    ASSUME PInv, FetchPage
    PROVE  Skipped' \in SUBSET Skipped
<1>1. /\ PagingTypeOK /\ got' = got \o Batch(page)
      /\ listing' = listing /\ started' = started
      /\ listing \in Seq(1 .. MaxRows) /\ got \in Seq(1 .. MaxRows)
  BY DEF PInv, FetchPage, PagingTypeOK
<1>2. /\ Covered = Offset(page) /\ Covered' = page * PageSize
      /\ Offset(page) \in Nat /\ page * PageSize \in Nat
  BY <1>1, PageIsTyped, CoveredIsNat
<1>3. ASSUME NEW x \in Skipped' PROVE x \in Skipped
  <2>1. PICK i \in DOMAIN listing :
            i <= page * PageSize /\ listing[i] = x /\ x \notin RangeOf(got')
    BY <1>1, <1>2, <1>3 DEF Skipped
  <2>2. x \in 1 .. started /\ i \in Nat
    BY <1>1, <1>3 DEF Skipped
  <2>3. x \notin RangeOf(got)
    BY <1>1, <2>1, PageAppended DEF RangeOf
  <2>4. i <= Offset(page)
    <3>1. SUFFICES ASSUME i > Offset(page) PROVE FALSE
      BY <1>2, <2>2
    <3>2. i - Offset(page) \in 1 .. BatchSize(page)
      BY <1>1, <2>1, <3>1, BatchRows
    <3>3. got'[Len(got) + (i - Offset(page))] = listing[Offset(page) + (i - Offset(page))]
      BY <1>1, <3>2, PageAppended
    <3>4. Offset(page) + (i - Offset(page)) = i
      BY <1>2, <2>2
    <3>5. got'[Len(got) + (i - Offset(page))] = x
      BY <2>1, <3>3, <3>4
    <3>6. Len(got) + (i - Offset(page)) \in 1 .. Len(got')
      <4>1. Len(got') = Len(got) + BatchSize(page) /\ Len(got) \in Nat
        BY <1>1, PageAppended
      <4>2. BatchSize(page) \in Nat
        BY <1>1, BatchRows, PagingAssumption
      <4>3. QED  BY <3>2, <4>1, <4>2
    <3>7. got' \in Seq(1 .. MaxRows)
      BY <1>1, PageAppended
    <3>8. x \in RangeOf(got')
      BY <3>5, <3>6, <3>7, RowInRange
    <3>9. QED  BY <2>1, <3>8
  <2>5. QED  BY <1>2, <2>1, <2>2, <2>3, <2>4 DEF Skipped
<1>4. QED  BY <1>3

(* A row on the new page is none of the listing's earlier or later rows.   *)
LEMMA PageRepeatsNothing ==
    ASSUME PInv, FetchPage
    PROVE  (Again \cup Repeated)' \in SUBSET (Again \cup Repeated)
<1>1. /\ PagingTypeOK /\ Distinct /\ got' = got \o Batch(page) /\ listing' = listing
      /\ listing \in Seq(1 .. MaxRows) /\ got \in Seq(1 .. MaxRows)
      /\ Len(got) \in Nat
  BY DEF PInv, FetchPage, PagingTypeOK
<1>2. /\ Covered = Offset(page) /\ Covered' = page * PageSize
      /\ Offset(page) \in Nat /\ page * PageSize = Offset(page) + PageSize
      /\ PageSize \in Nat
  BY <1>1, PageIsTyped, CoveredIsNat, PagingAssumption
<1>3. \A k \in 1 .. BatchSize(page) :
         /\ k \in Nat /\ 1 <= k /\ k <= PageSize
         /\ Offset(page) + k \in DOMAIN listing
  BY <1>1, <1>2, BatchRows
<1>4. \A j \in DOMAIN got' :
         \/ j \in DOMAIN got /\ got'[j] = got[j]
         \/ \E k \in 1 .. BatchSize(page) :
               j = Len(got) + k /\ got'[j] = listing[Offset(page) + k]
  BY <1>1, PageAppended
<1>5. ASSUME NEW x \in Again' PROVE x \in Again
  <2>1. PICK i \in DOMAIN listing : i > page * PageSize /\ listing[i] = x
    BY <1>1, <1>2, <1>5 DEF Again
  <2>2. PICK j \in DOMAIN got' : x = got'[j]
    BY <1>5 DEF Again, RangeOf
  <2>3. i \in Nat
    BY <1>1
  <2>4. CASE j \in DOMAIN got /\ got'[j] = got[j]
    <3>1. x \in RangeOf(got)
      BY <2>2, <2>4 DEF RangeOf
    <3>2. i > Covered
      BY <1>2, <2>1, <2>3
    <3>3. QED  BY <2>1, <3>1, <3>2 DEF Again
  <2>5. ASSUME NEW k \in 1 .. BatchSize(page), got'[j] = listing[Offset(page) + k]
        PROVE  FALSE
    <3>1. i = Offset(page) + k
      BY <1>1, <1>3, <2>1, <2>2, <2>5 DEF Distinct
    <3>2. QED  BY <1>2, <1>3, <2>1, <3>1
  <2>6. QED  BY <1>4, <2>4, <2>5
<1>6. ASSUME NEW x \in Repeated' PROVE x \in Again \cup Repeated
  <2>1. PICK i \in DOMAIN got', j \in DOMAIN got' :
            i # j /\ got'[i] = x /\ got'[j] = x
    BY <1>6 DEF Repeated
  <2>2. ASSUME NEW a \in DOMAIN got, got[a] = x,
               NEW k \in 1 .. BatchSize(page), listing[Offset(page) + k] = x
        PROVE  x \in Again
    <3>1. x \in RangeOf(got)
      BY <2>2 DEF RangeOf
    <3>2. Offset(page) + k > Covered /\ Offset(page) + k \in DOMAIN listing
      BY <1>2, <1>3
    <3>3. QED  BY <2>2, <3>1, <3>2 DEF Again
  <2>3. CASE i \in DOMAIN got /\ got'[i] = got[i] /\ j \in DOMAIN got /\ got'[j] = got[j]
    BY <2>1, <2>3 DEF Repeated, RangeOf
  <2>4. ASSUME NEW k \in 1 .. BatchSize(page), i = Len(got) + k,
               got'[i] = listing[Offset(page) + k],
               NEW l \in 1 .. BatchSize(page), j = Len(got) + l,
               got'[j] = listing[Offset(page) + l]
        PROVE  FALSE
    <3>1. Offset(page) + k = Offset(page) + l
      BY <1>1, <1>3, <2>1, <2>4 DEF Distinct
    <3>2. k = l
      BY <1>2, <1>3, <3>1
    <3>3. QED  BY <2>1, <2>4, <3>2
  <2>5. QED  BY <1>4, <2>1, <2>2, <2>3, <2>4
<1>7. (Again \cup Repeated)' = Again' \cup Repeated'
  OBVIOUS
<1>8. QED  BY <1>5, <1>6, <1>7

(* The loop stops where its API says that the listing ends.                *)
LEMMA PageEndsAtTheEnd ==
    ASSUME PInv, FetchPage
    PROVE  EndsAtTheEnd' /\ Len(got') <= Covered'
<1>1. /\ PagingTypeOK /\ Len(got) <= Covered /\ got' = got \o Batch(page)
      /\ total' = Len(listing) /\ listing' = listing /\ style' = style
      /\ fetch' = "done" => EndsAfter(page) /\ page' = page
  BY DEF PInv, FetchPage
<1>2. /\ Covered = Offset(page) /\ Covered' = page * PageSize
      /\ Offset(page) \in Nat /\ page * PageSize = Offset(page) + PageSize
      /\ PageSize \in Nat \ {0} /\ page \in Nat /\ Len(listing) \in Nat
      /\ Len(got) \in Nat
  BY <1>1, PageIsTyped, CoveredIsNat, PagingAssumption DEF PagingTypeOK
<1>3. /\ BatchSize(page) \in 0 .. PageSize
      /\ BatchSize(page) < PageSize => Len(listing) <= page * PageSize
      /\ Len(got') = Len(got) + BatchSize(page)
  BY <1>1, BatchRows, PageAppended
<1>4. Len(got') <= Covered'
  BY <1>1, <1>2, <1>3
<1>5. ASSUME fetch' = "done", style # "bare", page = MaxPages => total' <= Len(got')
      PROVE  Len(listing) <= page * PageSize
  <2>1. CASE page = MaxPages
    BY <1>1, <1>2, <1>3, <1>4, <1>5, <2>1
  <2>2. CASE BatchSize(page) < PageSize
    BY <1>3, <2>2
  <2>3. ASSUME NEW n \in 0 .. page, IsTotalPages(n)
        PROVE  Len(listing) <= page * PageSize
    <3>1. n * PageSize >= Len(listing) /\ n \in Nat /\ n <= page
      BY <1>2, <2>3 DEF IsTotalPages
    <3>2. n * PageSize <= page * PageSize /\ n * PageSize \in Nat
      BY <1>2, <3>1, PagesGrow
    <3>3. QED  BY <1>2, <3>1, <3>2
  <2>4. QED  BY <1>1, <1>2, <1>5, <2>1, <2>2, <2>3 DEF EndsAfter, IsLastPage
<1>6. QED  BY <1>1, <1>2, <1>4, <1>5 DEF EndsAtTheEnd

LEMMA PageStep ==
    ASSUME PInv, FetchPage
    PROVE  PInv'
<1>1. /\ PagingTypeOK /\ Sized /\ Distinct /\ OnlyKnown
      /\ SkippedIsPaidFor /\ AgainIsPaidFor
      /\ UNCHANGED <<listing, started, inserted, removed>>
      /\ got' = got \o Batch(page) /\ fetch' # "idle"
  BY DEF PInv, FetchPage
<1>2. PagingTypeOK'
  BY PageIsTyped
<1>3. Sized' /\ IdleIsEmpty' /\ Distinct'
  BY <1>1 DEF Sized, IdleIsEmpty, Distinct
<1>4. OnlyKnown'
  <2>1. ASSUME NEW j \in DOMAIN got' PROVE got'[j] <= started + inserted
    <3>1. CASE j \in DOMAIN got /\ got'[j] = got[j]
      BY <1>1, <3>1 DEF OnlyKnown
    <3>2. ASSUME NEW k \in 1 .. BatchSize(page), got'[j] = listing[Offset(page) + k]
          PROVE  got'[j] <= started + inserted
      <4>1. Offset(page) + k \in DOMAIN listing
        BY <1>1, BatchRows
      <4>2. QED  BY <1>1, <3>2, <4>1 DEF OnlyKnown
    <3>3. QED  BY <1>1, <3>1, <3>2, PageAppended
  <2>2. QED  BY <1>1, <2>1 DEF OnlyKnown
<1>5. SkippedIsPaidFor'
  <2>1. IsFiniteSet(Skipped) /\ removed \in Nat
    BY <1>1, FiniteSets DEF PagingTypeOK
  <2>2. Cardinality(Skipped') <= removed
    BY <1>1, <2>1, PageSkipsNothing, NoMore DEF SkippedIsPaidFor
  <2>3. QED  BY <1>1, <2>2 DEF SkippedIsPaidFor
<1>6. AgainIsPaidFor'
  <2>1. IsFiniteSet(Again \cup Repeated) /\ inserted \in Nat
    BY <1>1, FiniteSets DEF PagingTypeOK
  <2>2. Cardinality((Again \cup Repeated)') <= inserted
    BY <1>1, <2>1, PageRepeatsNothing, NoMore DEF AgainIsPaidFor
  <2>3. QED  BY <1>1, <2>2 DEF AgainIsPaidFor
<1>7. QED  BY <1>2, <1>3, <1>4, <1>5, <1>6, PageEndsAtTheEnd DEF PInv

-----------------------------------------------------------------------------
(* Meanwhile: a row comes into the listing, or leaves it.                  *)
LEMMA WithRowIs ==
    ASSUME NEW S, NEW s \in Seq(S), NEW r \in S, NEW k \in 1 .. Len(s) + 1
    PROVE  /\ WithRow(s, k, r) \in Seq(S)
           /\ Len(WithRow(s, k, r)) = Len(s) + 1
           /\ \A i \in DOMAIN WithRow(s, k, r) :
                 \/ i < k /\ i \in DOMAIN s /\ WithRow(s, k, r)[i] = s[i]
                 \/ i = k /\ WithRow(s, k, r)[i] = r
                 \/ i > k /\ i - 1 \in DOMAIN s /\ WithRow(s, k, r)[i] = s[i - 1]
<1>1. Len(s) \in Nat /\ DOMAIN s = 1 .. Len(s) /\ \A i \in 1 .. Len(s) : s[i] \in S
  OBVIOUS
<1>2. WithRow(s, k, r) \in [1 .. Len(s) + 1 -> S]
  BY <1>1 DEF WithRow
<1>3. \A i \in 1 .. Len(s) + 1 :
         \/ i < k /\ i \in DOMAIN s /\ WithRow(s, k, r)[i] = s[i]
         \/ i = k /\ WithRow(s, k, r)[i] = r
         \/ i > k /\ i - 1 \in DOMAIN s /\ WithRow(s, k, r)[i] = s[i - 1]
  BY <1>1 DEF WithRow
<1>4. Len(s) + 1 \in Nat
  BY <1>1
<1>5. /\ WithRow(s, k, r) \in Seq(S) /\ Len(WithRow(s, k, r)) = Len(s) + 1
      /\ DOMAIN WithRow(s, k, r) = 1 .. Len(s) + 1
  BY ONLY <1>2, <1>4, IsSequence
<1>6. QED  BY <1>3, <1>5

LEMMA WithoutRowIs ==
    ASSUME NEW S, NEW s \in Seq(S), NEW k \in 1 .. Len(s)
    PROVE  /\ WithoutRow(s, k) \in Seq(S)
           /\ Len(WithoutRow(s, k)) = Len(s) - 1
           /\ \A i \in DOMAIN WithoutRow(s, k) :
                 \/ i < k /\ i \in DOMAIN s /\ WithoutRow(s, k)[i] = s[i]
                 \/ i >= k /\ i + 1 \in DOMAIN s /\ WithoutRow(s, k)[i] = s[i + 1]
<1>1. Len(s) \in Nat /\ DOMAIN s = 1 .. Len(s) /\ \A i \in 1 .. Len(s) : s[i] \in S
  OBVIOUS
<1>2. WithoutRow(s, k) \in [1 .. Len(s) - 1 -> S]
  BY <1>1 DEF WithoutRow
<1>3. \A i \in 1 .. Len(s) - 1 :
         \/ i < k /\ i \in DOMAIN s /\ WithoutRow(s, k)[i] = s[i]
         \/ i >= k /\ i + 1 \in DOMAIN s /\ WithoutRow(s, k)[i] = s[i + 1]
  BY <1>1 DEF WithoutRow
<1>4. Len(s) - 1 \in Nat
  BY <1>1
<1>5. /\ WithoutRow(s, k) \in Seq(S) /\ Len(WithoutRow(s, k)) = Len(s) - 1
      /\ DOMAIN WithoutRow(s, k) = 1 .. Len(s) - 1
  BY ONLY <1>2, <1>4, IsSequence
<1>6. QED  BY <1>3, <1>5

LEMMA AddStep ==
    ASSUME PInv, AddRow
    PROVE  PInv'
<1>1. PICK k \in 1 .. Len(listing) + 1 :
          listing' = WithRow(listing, k, started + inserted')
  BY DEF AddRow
<1>2. /\ PagingTypeOK /\ Sized /\ Distinct /\ OnlyKnown /\ Len(got) <= Covered
      /\ SkippedIsPaidFor /\ AgainIsPaidFor
      /\ fetch = "asking" /\ inserted' = inserted + 1 /\ started + inserted < MaxRows
      /\ UNCHANGED <<style, page, got, total, fetch, started, removed>>
  BY DEF PInv, AddRow
<1>3. /\ listing \in Seq(1 .. MaxRows) /\ Len(listing) \in Nat
      /\ got \in Seq(1 .. MaxRows)
      /\ started \in Nat /\ inserted \in Nat /\ removed \in Nat /\ MaxRows \in Nat
      /\ started + inserted + 1 \in 1 .. MaxRows
      /\ Covered \in Nat /\ Covered' = Covered
  BY <1>2, CoveredIsNat, PagingAssumption DEF PagingTypeOK, Covered, Offset
<1>a. PICK r : r = started + inserted'
  OBVIOUS
<1>b. /\ r = started + inserted + 1 /\ r \in 1 .. MaxRows /\ r \in Nat
      /\ listing' = WithRow(listing, k, r)
  BY <1>1, <1>2, <1>3, <1>a
<1>4. /\ listing' \in Seq(1 .. MaxRows) /\ Len(listing') = Len(listing) + 1
      /\ \A i \in DOMAIN listing' :
            \/ i < k /\ i \in DOMAIN listing /\ listing'[i] = listing[i]
            \/ i = k /\ listing'[i] = r
            \/ i > k /\ i - 1 \in DOMAIN listing /\ listing'[i] = listing[i - 1]
  <2>1. /\ WithRow(listing, k, r) \in Seq(1 .. MaxRows)
        /\ Len(WithRow(listing, k, r)) = Len(listing) + 1
        /\ \A i \in DOMAIN WithRow(listing, k, r) :
              \/ i < k /\ i \in DOMAIN listing /\ WithRow(listing, k, r)[i] = listing[i]
              \/ i = k /\ WithRow(listing, k, r)[i] = r
              \/ /\ i > k /\ i - 1 \in DOMAIN listing
                 /\ WithRow(listing, k, r)[i] = listing[i - 1]
    <3>1. PICK s : s = listing
      OBVIOUS
    <3>2. s \in Seq(1 .. MaxRows) /\ k \in 1 .. Len(s) + 1 /\ r \in 1 .. MaxRows
      BY <1>3, <1>b, <3>1
    <3>3. /\ WithRow(s, k, r) \in Seq(1 .. MaxRows)
          /\ Len(WithRow(s, k, r)) = Len(s) + 1
          /\ \A i \in DOMAIN WithRow(s, k, r) :
                \/ i < k /\ i \in DOMAIN s /\ WithRow(s, k, r)[i] = s[i]
                \/ i = k /\ WithRow(s, k, r)[i] = r
                \/ i > k /\ i - 1 \in DOMAIN s /\ WithRow(s, k, r)[i] = s[i - 1]
      BY ONLY <3>2, WithRowIs
    <3>4. QED  BY ONLY <3>1, <3>3, Zenon
  <2>2. QED  BY ONLY <2>1, <1>b, Zenon
<1>d. ASSUME NEW i \in DOMAIN listing'
      PROVE  /\ i \in Nat /\ k \in Nat
             /\ \/ i < k /\ i \in DOMAIN listing /\ listing'[i] = listing[i]
                \/ i = k /\ listing'[i] = r
                \/ i > k /\ i - 1 \in DOMAIN listing /\ listing'[i] = listing[i - 1]
  BY <1>3, <1>4, <1>1
<1>5. PagingTypeOK' /\ Sized' /\ IdleIsEmpty' /\ EndsAtTheEnd'
  <2>1. PagingTypeOK'
    BY <1>2, <1>3, <1>4 DEF PagingTypeOK
  <2>2. Sized'
    <3>1. Len(listing') = Len(listing) + 1
      BY ONLY <1>4
    <3>2. Len(listing) + removed = started + inserted
      BY <1>2 DEF Sized
    <3>3. removed' = removed /\ started' = started /\ inserted' = inserted + 1
      BY <1>2
    <3>4. Len(listing) + 1 + removed = started + (inserted + 1)
      BY ONLY <1>3, <3>2
    <3>5. QED  BY ONLY <3>1, <3>3, <3>4 DEF Sized
  <2>3. IdleIsEmpty' /\ EndsAtTheEnd'
    BY <1>2 DEF IdleIsEmpty, EndsAtTheEnd
  <2>4. QED  BY <2>1, <2>2, <2>3
<1>6. /\ \A i \in DOMAIN listing : listing[i] \in Nat /\ listing[i] <= started + inserted
      /\ \A i \in DOMAIN got : got[i] \in Nat /\ got[i] <= started + inserted
      /\ DOMAIN listing' \subseteq Nat /\ DOMAIN listing \subseteq Nat
  <2>1. DOMAIN listing' \subseteq Nat /\ DOMAIN listing \subseteq Nat
    BY <1>3, <1>4
  <2>2. \A i \in DOMAIN listing : listing[i] \in Nat /\ listing[i] <= started + inserted
    BY <1>2, <1>3 DEF OnlyKnown
  <2>3. \A i \in DOMAIN got : got[i] \in Nat /\ got[i] <= started + inserted
    BY <1>2, <1>3 DEF OnlyKnown
  <2>4. QED  BY <2>1, <2>2, <2>3
<1>e. r = started + inserted + 1 /\ started \in Nat /\ inserted \in Nat
  BY <1>3, <1>b
<1>7. OnlyKnown'
  <2>1. \A i \in DOMAIN listing' : listing'[i] <= started + inserted + 1
    <3>1. ASSUME NEW i \in DOMAIN listing' PROVE listing'[i] <= started + inserted + 1
      BY ONLY <1>e, <1>d, <1>6, <3>1
    <3>2. QED  BY <3>1
  <2>2. \A i \in DOMAIN got : got[i] <= started + inserted + 1
    BY <1>3, <1>6
  <2>3. started' + inserted' = started + inserted + 1 /\ got' = got
    BY <1>2, <1>3
  <2>4. QED  BY <2>1, <2>2, <2>3 DEF OnlyKnown
<1>f. \A i, j \in DOMAIN listing : listing[i] = listing[j] => i = j
  BY <1>2 DEF Distinct
<1>8. Distinct'
  <2>1. ASSUME NEW i \in DOMAIN listing', NEW j \in DOMAIN listing',
               listing'[i] = listing'[j]
        PROVE  i = j
    <3>1. i = k <=> j = k
      <4>1. ASSUME NEW h \in DOMAIN listing' PROVE h = k <=> listing'[h] = r
        BY ONLY <1>e, <1>d, <1>6, <4>1
      <4>2. QED  BY <2>1, <4>1
    <3>2. i < k /\ j < k => i = j
      BY <1>f, <1>d, <1>6, <2>1
    <3>3. i > k /\ j > k => i = j
      <4>1. i > k /\ j > k => i - 1 = j - 1
        BY <1>f, <1>d, <1>6, <2>1
      <4>2. QED  BY <1>6, <4>1
    <3>4. i < k /\ j > k => FALSE
      <4>1. i < k /\ j > k => i = j - 1
        BY <1>f, <1>d, <1>6, <2>1
      <4>2. QED  BY <1>6, <4>1
    <3>5. i > k /\ j < k => FALSE
      <4>1. i > k /\ j < k => i - 1 = j
        BY <1>f, <1>d, <1>6, <2>1
      <4>2. QED  BY <1>6, <4>1
    <3>6. QED  BY <1>6, <3>1, <3>2, <3>3, <3>4, <3>5
  <2>2. QED  BY <2>1 DEF Distinct
<1>9. SkippedIsPaidFor'
  <2>1. ASSUME NEW x \in Skipped' PROVE x \in Skipped
    <3>1. PICK i \in DOMAIN listing' :
              i <= Covered /\ listing'[i] = x /\ x \notin RangeOf(got)
      BY <1>2, <1>3, <2>1 DEF Skipped
    <3>2. x \in 1 .. started
      BY <1>2, <2>1 DEF Skipped
    <3>3. \/ i \in DOMAIN listing /\ listing[i] = x
          \/ i - 1 \in DOMAIN listing /\ listing[i - 1] = x
      BY <1>3, <1>b, <1>4, <3>1, <3>2
    <3>4. \E j \in DOMAIN listing : j <= Covered /\ listing[j] = x
      BY <1>3, <1>6, <3>1, <3>3
    <3>5. QED  BY <3>1, <3>2, <3>4 DEF Skipped
  <2>2. IsFiniteSet(Skipped)
    BY <1>2, FiniteSets
  <2>3. Cardinality(Skipped') <= removed
    BY <1>2, <1>3, <2>1, <2>2, NoMore DEF SkippedIsPaidFor
  <2>4. QED  BY <1>2, <2>3 DEF SkippedIsPaidFor
<1>10. AgainIsPaidFor'
  <2>1. ASSUME NEW x \in Again' PROVE x \in Again \cup {listing[Covered]}
    <3>1. PICK i \in DOMAIN listing' : i > Covered /\ listing'[i] = x
      BY <1>3, <2>1 DEF Again
    <3>2. x \in RangeOf(got)
      BY <1>2, <2>1 DEF Again
    <3>3. x # r
      BY <1>3, <1>b, <1>6, <3>2 DEF RangeOf
    <3>4. \/ i \in DOMAIN listing /\ listing[i] = x
          \/ i - 1 \in DOMAIN listing /\ listing[i - 1] = x
      BY <1>4, <3>1, <3>3
    <3>5. CASE i \in DOMAIN listing /\ listing[i] = x
      BY <3>1, <3>2, <3>5 DEF Again
    <3>6. CASE i - 1 \in DOMAIN listing /\ listing[i - 1] = x
      <4>1. i - 1 = Covered \/ i - 1 > Covered
        BY <1>3, <1>6, <3>1
      <4>2. QED  BY <3>2, <3>6, <4>1 DEF Again
    <3>7. QED  BY <3>4, <3>5, <3>6
  <2>2. Repeated' = Repeated
    BY <1>2 DEF Repeated
  <2>3. (Again \cup Repeated)' \in SUBSET ((Again \cup Repeated) \cup {listing[Covered]})
    BY <2>1, <2>2
  <2>4. IsFiniteSet(Again \cup Repeated)
    BY <1>2, FiniteSets
  <2>5. Cardinality((Again \cup Repeated)') <= inserted + 1
    BY <1>2, <1>3, <2>3, <2>4, OneMore DEF AgainIsPaidFor
  <2>6. QED  BY <1>2, <2>5 DEF AgainIsPaidFor
<1>11. QED  BY <1>2, <1>3, <1>5, <1>7, <1>8, <1>9, <1>10 DEF PInv

LEMMA RemoveStep ==
    ASSUME PInv, RemoveRow
    PROVE  PInv'
<1>1. PICK k \in 1 .. Len(listing) : listing' = WithoutRow(listing, k)
  BY DEF RemoveRow
<1>2. /\ PagingTypeOK /\ Sized /\ Distinct /\ OnlyKnown /\ Len(got) <= Covered
      /\ SkippedIsPaidFor /\ AgainIsPaidFor
      /\ fetch = "asking" /\ removed' = removed + 1
      /\ UNCHANGED <<style, page, got, total, fetch, started, inserted>>
  BY DEF PInv, RemoveRow
<1>3. /\ listing \in Seq(1 .. MaxRows) /\ Len(listing) \in Nat
      /\ started \in Nat /\ inserted \in Nat /\ removed \in Nat
      /\ Covered \in Nat /\ Covered' = Covered
  BY <1>2, CoveredIsNat DEF PagingTypeOK, Covered, Offset
<1>4. /\ listing' \in Seq(1 .. MaxRows) /\ Len(listing') = Len(listing) - 1
      /\ \A i \in DOMAIN listing' :
            \/ i < k /\ i \in DOMAIN listing /\ listing'[i] = listing[i]
            \/ i >= k /\ i + 1 \in DOMAIN listing /\ listing'[i] = listing[i + 1]
  <2>1. PICK s : s = listing
    OBVIOUS
  <2>2. s \in Seq(1 .. MaxRows) /\ k \in 1 .. Len(s)
    BY <1>3, <2>1
  <2>3. /\ WithoutRow(s, k) \in Seq(1 .. MaxRows)
        /\ Len(WithoutRow(s, k)) = Len(s) - 1
        /\ \A i \in DOMAIN WithoutRow(s, k) :
              \/ i < k /\ i \in DOMAIN s /\ WithoutRow(s, k)[i] = s[i]
              \/ i >= k /\ i + 1 \in DOMAIN s /\ WithoutRow(s, k)[i] = s[i + 1]
    BY ONLY <2>2, WithoutRowIs
  <2>4. QED  BY ONLY <1>1, <2>1, <2>3, Zenon
<1>5. ASSUME NEW i \in DOMAIN listing'
      PROVE  /\ i \in Nat /\ k \in Nat
             /\ \/ i < k /\ i \in DOMAIN listing /\ listing'[i] = listing[i]
                \/ i >= k /\ i + 1 \in DOMAIN listing /\ listing'[i] = listing[i + 1]
  BY <1>1, <1>3, <1>4
<1>6. PagingTypeOK'
  BY <1>2, <1>3, <1>4 DEF PagingTypeOK
<1>7. Sized'
  <2>1. Len(listing') = Len(listing) - 1
    BY ONLY <1>4
  <2>2. Len(listing) + removed = started + inserted
    BY <1>2 DEF Sized
  <2>3. removed' = removed + 1 /\ started' = started /\ inserted' = inserted
    BY <1>2
  <2>4. (Len(listing) - 1) + (removed + 1) = started + inserted
    BY ONLY <1>3, <2>2
  <2>5. QED  BY ONLY <2>1, <2>3, <2>4 DEF Sized
<1>8. IdleIsEmpty' /\ EndsAtTheEnd'
  BY <1>2 DEF IdleIsEmpty, EndsAtTheEnd
<1>9. OnlyKnown'
  <2>1. ASSUME NEW i \in DOMAIN listing' PROVE listing'[i] <= started + inserted
    BY <1>2, <1>5 DEF OnlyKnown
  <2>2. \A i \in DOMAIN got : got[i] <= started + inserted
    BY <1>2 DEF OnlyKnown
  <2>3. QED  BY <1>2, <2>1, <2>2 DEF OnlyKnown
<1>10. \A i, j \in DOMAIN listing : listing[i] = listing[j] => i = j
  BY <1>2 DEF Distinct
<1>11. Distinct'
  <2>1. ASSUME NEW i \in DOMAIN listing', NEW j \in DOMAIN listing',
               listing'[i] = listing'[j]
        PROVE  i = j
    <3>1. i < k /\ j < k => i = j
      BY <1>5, <1>10, <2>1
    <3>2. i >= k /\ j >= k => i = j
      <4>1. i >= k /\ j >= k => i + 1 = j + 1
        BY <1>5, <1>10, <2>1
      <4>2. QED  BY <1>5, <4>1
    <3>3. i < k /\ j >= k => FALSE
      <4>1. i < k /\ j >= k => i = j + 1
        BY <1>5, <1>10, <2>1
      <4>2. QED  BY <1>5, <4>1
    <3>4. i >= k /\ j < k => FALSE
      <4>1. i >= k /\ j < k => i + 1 = j
        BY <1>5, <1>10, <2>1
      <4>2. QED  BY <1>5, <4>1
    <3>5. QED  BY <1>5, <3>1, <3>2, <3>3, <3>4
  <2>2. QED  BY <2>1 DEF Distinct
<1>12. SkippedIsPaidFor'
  <2>1. ASSUME NEW x \in Skipped' PROVE x \in Skipped \cup {listing[Covered + 1]}
    <3>1. PICK i \in DOMAIN listing' :
              i <= Covered /\ listing'[i] = x /\ x \notin RangeOf(got)
      BY <1>2, <1>3, <2>1 DEF Skipped
    <3>2. x \in 1 .. started
      BY <1>2, <2>1 DEF Skipped
    <3>3. \/ i \in DOMAIN listing /\ listing[i] = x
          \/ i + 1 \in DOMAIN listing /\ listing[i + 1] = x
      BY <1>5, <3>1
    <3>4. CASE i \in DOMAIN listing /\ listing[i] = x
      BY <3>1, <3>2, <3>4 DEF Skipped
    <3>5. CASE i + 1 \in DOMAIN listing /\ listing[i + 1] = x
      <4>1. i = Covered \/ i + 1 <= Covered
        BY <1>3, <1>5, <3>1
      <4>2. QED  BY <3>1, <3>2, <3>5, <4>1 DEF Skipped
    <3>6. QED  BY <3>3, <3>4, <3>5
  <2>2. IsFiniteSet(Skipped)
    BY <1>2, FiniteSets
  <2>3. Cardinality(Skipped') <= removed + 1
    BY <1>2, <1>3, <2>1, <2>2, OneMore DEF SkippedIsPaidFor
  <2>4. QED  BY <1>2, <2>3 DEF SkippedIsPaidFor
<1>13. AgainIsPaidFor'
  <2>1. ASSUME NEW x \in Again' PROVE x \in Again
    <3>1. PICK i \in DOMAIN listing' : i > Covered /\ listing'[i] = x
      BY <1>3, <2>1 DEF Again
    <3>2. x \in RangeOf(got)
      BY <1>2, <2>1 DEF Again
    <3>3. \E j \in DOMAIN listing : j > Covered /\ listing[j] = x
      BY <1>3, <1>5, <3>1
    <3>4. QED  BY <3>2, <3>3 DEF Again
  <2>2. Repeated' = Repeated
    BY <1>2 DEF Repeated
  <2>3. (Again \cup Repeated)' \in SUBSET (Again \cup Repeated)
    BY <2>1, <2>2
  <2>4. IsFiniteSet(Again \cup Repeated)
    BY <1>2, FiniteSets
  <2>5. Cardinality((Again \cup Repeated)') <= inserted
    BY <1>2, <1>3, <2>3, <2>4, NoMore DEF AgainIsPaidFor
  <2>6. QED  BY <1>2, <2>5 DEF AgainIsPaidFor
<1>14. QED  BY <1>2, <1>3, <1>6, <1>7, <1>8, <1>9, <1>11, <1>12, <1>13 DEF PInv

-----------------------------------------------------------------------------
(* While nothing is fetched, nothing is missed or repeated.                *)
NothingYet ==
    /\ PagingTypeOK /\ Sized /\ Distinct /\ fetch # "done"
    /\ got = <<>> /\ page = 1 /\ inserted = 0 /\ removed = 0
    /\ \A i \in DOMAIN listing : listing[i] <= started

LEMMA NothingFetched ==
    NothingYet => PInv
<1> SUFFICES ASSUME NothingYet PROVE PInv
  OBVIOUS
<1> USE DEF NothingYet
<1>1. Covered = 0
  BY PagingAssumption DEF Covered, Offset
<1>2. /\ RangeOf(got) = {} /\ Len(got) = 0 /\ DOMAIN got = {}
      /\ listing \in Seq(1 .. MaxRows)
  BY DEF RangeOf, PagingTypeOK
<1>3. Skipped = {} /\ Again \cup Repeated = {}
  BY <1>1, <1>2 DEF Skipped, Again, Repeated
<1>4. SkippedIsPaidFor /\ AgainIsPaidFor
  BY <1>3, FS_EmptySet DEF SkippedIsPaidFor, AgainIsPaidFor
<1>5. IdleIsEmpty /\ OnlyKnown /\ EndsAtTheEnd
  BY <1>2 DEF IdleIsEmpty, OnlyKnown, EndsAtTheEnd, PagingTypeOK
<1>6. QED  BY <1>1, <1>2, <1>4, <1>5 DEF PInv

LEMMA StartsWithNothing == PagingInit => NothingYet
<1> SUFFICES ASSUME PagingInit PROVE NothingYet
  OBVIOUS
<1>1. /\ listing = <<>> /\ listing \in Seq(1 .. MaxRows) /\ Len(listing) = 0
      /\ DOMAIN listing = {} /\ got = <<>> /\ got \in Seq(1 .. MaxRows)
      /\ style = "bare" /\ page = 1 /\ total = 0 /\ fetch = "idle"
      /\ started = 0 /\ inserted = 0 /\ removed = 0
  BY DEF PagingInit
<1>2. PagingTypeOK
  BY <1>1, PagingAssumption DEF PagingTypeOK
<1>3. QED  BY <1>1, <1>2 DEF NothingYet, Sized, Distinct

LEMMA BeginsWithNothing ==
    ASSUME PInv, BeginPaging
    PROVE  NothingYet'
<1>1. /\ PagingTypeOK /\ got' = <<>> /\ page' = 1 /\ total' = total
      /\ inserted' = 0 /\ removed' = 0 /\ fetch' = "asking"
      /\ started' \in 0 .. MaxRows /\ listing' = [i \in 1 .. started' |-> i]
      /\ style' \in Styles
  BY DEF PInv, IdleIsEmpty, BeginPaging
<1>2. started' \in Nat /\ listing' \in [1 .. started' -> 1 .. MaxRows]
  BY <1>1, PagingAssumption
<1>3. listing' \in Seq(1 .. MaxRows) /\ Len(listing') = started'
      /\ DOMAIN listing' = 1 .. started'
  BY ONLY <1>2, IsSequence
<1>4. \A i \in 1 .. started' : listing'[i] = i
  BY <1>1
<1>5. PagingTypeOK'
  <2>1. page' \in 1 .. MaxPages /\ got' \in Seq(1 .. MaxRows) /\ inserted' \in Nat
    BY <1>1, PagingAssumption
  <2>2. total' \in 0 .. MaxRows
    BY <1>1 DEF PagingTypeOK
  <2>3. started' + inserted' <= MaxRows /\ removed' \in Nat
    <3>1. started' \in 0 .. MaxRows /\ MaxRows \in Nat /\ inserted' = 0 /\ removed' = 0
      BY <1>1, PagingAssumption
    <3>2. started' \in Nat /\ started' <= MaxRows /\ removed' \in Nat
      BY <3>1
    <3>3. started' + 0 <= MaxRows
      BY ONLY <3>2
    <3>4. QED  BY <3>1, <3>2, <3>3
  <2>4. style' \in Styles \cup {"bare"} /\ fetch' \in {"idle", "asking", "done", "failed"}
    BY <1>1
  <2>5. QED  BY ONLY <1>1, <1>3, <2>1, <2>2, <2>3, <2>4 DEF PagingTypeOK
<1>6. Sized' /\ Distinct' /\ \A i \in DOMAIN listing' : listing'[i] <= started'
  <2>1. Sized'
    BY ONLY <1>1, <1>2, <1>3 DEF Sized
  <2>2. Distinct'
    BY ONLY <1>3, <1>4 DEF Distinct
  <2>3. \A i \in DOMAIN listing' : listing'[i] <= started'
    BY ONLY <1>2, <1>3, <1>4
  <2>4. QED  BY <2>1, <2>2, <2>3
<1>7. QED  BY <1>1, <1>5, <1>6 DEF NothingYet

LEMMA EndsWithNothing ==
    ASSUME FetchFails \/ EndPaging
    PROVE  NothingYet'
<1>a. /\ listing' = <<>> /\ got' = <<>>
      /\ style' = "bare" /\ page' = 1 /\ total' = 0 /\ fetch' \in {"idle", "failed"}
      /\ started' = 0 /\ inserted' = 0 /\ removed' = 0
  BY Zenon DEF FetchFails, EndPaging
<1>1. /\ listing' = <<>> /\ listing' \in Seq(1 .. MaxRows) /\ Len(listing') = 0
      /\ DOMAIN listing' = {} /\ got' = <<>> /\ got' \in Seq(1 .. MaxRows)
      /\ style' = "bare" /\ page' = 1 /\ total' = 0 /\ fetch' \in {"idle", "failed"}
      /\ started' = 0 /\ inserted' = 0 /\ removed' = 0
  BY <1>a
<1>2. PagingTypeOK'
  BY <1>1, PagingAssumption DEF PagingTypeOK
<1>3. QED  BY <1>1, <1>2 DEF NothingYet, Sized, Distinct

LEMMA PagingStep == PInv /\ [PagingNext]_pagingVars => PInv' \/ NothingYet'
<1> SUFFICES ASSUME PInv, [PagingNext]_pagingVars PROVE PInv' \/ NothingYet'
  OBVIOUS
<1>1. CASE BeginPaging
  BY <1>1, BeginsWithNothing
<1>2. CASE FetchPage
  BY <1>2, PageStep
<1>3. CASE FetchFails \/ EndPaging
  BY <1>3, EndsWithNothing
<1>4. CASE AddRow
  BY <1>4, AddStep
<1>5. CASE RemoveRow
  BY <1>5, RemoveStep
<1>6. CASE UNCHANGED pagingVars
  BY <1>6 DEF pagingVars, PInv, PagingTypeOK, Sized, IdleIsEmpty, Distinct, OnlyKnown,
     Covered, Offset, Skipped, SkippedIsPaidFor, Again, Repeated, AgainIsPaidFor,
     EndsAtTheEnd, RangeOf
<1>7. QED  BY <1>1, <1>2, <1>3, <1>4, <1>5, <1>6 DEF PagingNext

LEMMA PagingInductive == PagingSpec => []PInv
BY StartsWithNothing, NothingFetched, PagingStep, PTL DEF PagingSpec

(* A finished listing lacks at most one row for every row that another     *)
(* client removed between two of its pages, whatever the page size, the    *)
(* page limit and the order of events (_fetch_measures, _is_last_page).    *)
THEOREM ListingsAreComplete == PagingSpec => []MissesAtMostTheRemoved
<1>1. ASSUME PInv PROVE MissesAtMostTheRemoved
  <2>1. SUFFICES ASSUME fetch = "done", style # "bare",
                        page = MaxPages => total <= Len(got)
                 PROVE  Cardinality(Missing) <= removed
    BY DEF MissesAtMostTheRemoved
  <2>2. /\ PagingTypeOK /\ Len(listing) <= Covered /\ SkippedIsPaidFor
        /\ listing \in Seq(1 .. MaxRows) /\ removed \in Nat
    BY <1>1, <2>1 DEF PInv, EndsAtTheEnd, PagingTypeOK
  <2>3. Covered \in Nat /\ IsFiniteSet(Skipped)
    BY <2>2, CoveredIsNat, FiniteSets
  <2>4. Missing \in SUBSET Skipped
    BY <2>2, <2>3 DEF Missing, Skipped, RangeOf
  <2>5. QED  BY <2>2, <2>3, <2>4, NoMore DEF SkippedIsPaidFor
<1>2. PInv => MissesAtMostTheRemoved
  BY <1>1
<1>3. QED  BY <1>2, PagingInductive, PTL

(* No row is listed twice, but for one row for every row that another      *)
(* client added between two pages.                                         *)
THEOREM ListingsRepeatLittle == PagingSpec => []RepeatsAtMostTheInserted
<1>1. ASSUME PInv PROVE RepeatsAtMostTheInserted
  <2>1. /\ PagingTypeOK /\ AgainIsPaidFor /\ inserted \in Nat
    BY <1>1 DEF PInv, PagingTypeOK
  <2>2. Repeated \in SUBSET (Again \cup Repeated) /\ IsFiniteSet(Again \cup Repeated)
    BY <2>1, FiniteSets
  <2>3. QED  BY <2>1, <2>2, NoMore DEF AgainIsPaidFor, RepeatsAtMostTheInserted
<1>2. PInv => RepeatsAtMostTheInserted
  BY <1>1
<1>3. QED  BY <1>2, PagingInductive, PTL
=============================================================================
