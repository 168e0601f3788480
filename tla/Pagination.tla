----------------------------- MODULE Pagination -----------------------------
(***************************************************************************)
(* The paged fetches of application/use_cases.py (_fetch_measures,         *)
(* _fetch_dimensions, _fetch_facts: one loop three times): pages of        *)
(* PageSize rows are asked for one after another and glued together, while *)
(* other clients of the API add rows to the listing and remove them.       *)
(***************************************************************************)
EXTENDS Integers, Sequences, FiniteSets

CONSTANTS PageSize,    \* _PAGE_SIZE
          MaxPages,    \* _MAX_PAGES
          Styles,      \* what the API says of a listing's size
          MaxRows,     \* bound of the model: rows that are ever listed
          MaxChanges   \* bound of the model: changes during one fetch

ASSUME PagingAssumption ==
    /\ PageSize \in Nat \ {0}
    /\ MaxPages \in Nat \ {0}
    /\ Styles \subseteq {"pages", "total", "bare"}
    /\ MaxRows \in Nat
    /\ MaxChanges \in Nat

(* Rows are numbered in the order in which they are added.                 *)
VARIABLES listing,     \* the rows at the API, in its order
          style,       \* one of Styles
          page,        \* the page asked for next, or the last one got
          got,         \* the rows glued together so far
          total,       \* pagination.total of the last page
          fetch,       \* "idle", "asking", "done" or "failed"
          started,     \* rows 1 .. started were listed when the fetch began
          inserted,    \* how many rows were added since
          removed      \* and how many were removed

pagingVars == <<listing, style, page, got, total, fetch,
                started, inserted, removed>>

RangeOf(s) == {s[i] : i \in DOMAIN s}
Least(a, b) == IF a < b THEN a ELSE b

(* Before and after a fetch the listing is not looked at.                  *)
PagingInit ==
    /\ listing = <<>> /\ style = "bare"
    /\ page = 1 /\ got = <<>> /\ total = 0 /\ fetch = "idle"
    /\ started = 0 /\ inserted = 0 /\ removed = 0

BeginPaging ==
    /\ fetch = "idle"
    /\ fetch' = "asking"
    /\ started' \in 0 .. MaxRows
    /\ listing' = [i \in 1 .. started' |-> i]
    /\ style' \in Styles
    /\ UNCHANGED <<page, got, total, inserted, removed>>

EndPaging ==
    /\ fetch # "asking"
    /\ fetch' = "idle"
    /\ listing' = <<>> /\ style' = "bare"
    /\ page' = 1 /\ got' = <<>> /\ total' = 0
    /\ started' = 0 /\ inserted' = 0 /\ removed' = 0

-----------------------------------------------------------------------------
(* Page p at the API is the listing from after its offset until its end.   *)
Offset(p) == (p - 1) * PageSize
Until(p) == Least(p * PageSize, Len(listing))
BatchSize(p) == IF Until(p) > Offset(p) THEN Until(p) - Offset(p) ELSE 0
Batch(p) == [i \in 1 .. BatchSize(p) |-> listing[Offset(p) + i]]

(* n is totalPages, which the API counts.                                  *)
IsTotalPages(n) ==
    /\ n * PageSize >= Len(listing)
    /\ n = 0 \/ (n - 1) * PageSize < Len(listing)

IsLastPageTooSoon(p) ==     \* mutant: off by one
    \/ BatchSize(p) = 0
    \/ style = "bare"
    \/ style = "pages" /\ \E n \in 0 .. p + 1 : IsTotalPages(n)
    \/ style = "total" /\ BatchSize(p) < PageSize
IsLastPage(p) ==
    \/ BatchSize(p) = 0
    \/ style = "bare"
    \/ style = "pages" /\ \E n \in 0 .. p : IsTotalPages(n)
    \/ style = "total" /\ BatchSize(p) < PageSize

(* The loop also ends with its range.                                      *)
EndsAfter(p) == IsLastPage(p) \/ p = MaxPages

FetchPageAgain ==     \* mutant: the page number stays
    /\ fetch = "asking"
    /\ got' = got \o Batch(page)
    /\ total' = Len(listing)
    /\ fetch' = IF EndsAfter(page) THEN "done" ELSE "asking"
    /\ UNCHANGED <<page, listing, style, started, inserted, removed>>

FetchPage ==
    /\ fetch = "asking"
    /\ got' = got \o Batch(page)
    /\ total' = Len(listing)
    /\ IF EndsAfter(page)
       THEN fetch' = "done" /\ page' = page
       ELSE fetch' = "asking" /\ page' = page + 1
    /\ UNCHANGED <<listing, style, started, inserted, removed>>

(* An exception leaves the loop, and what was collected is dropped.        *)
FetchFails ==
    /\ fetch = "asking"
    /\ fetch' = "failed"
    /\ listing' = <<>> /\ style' = "bare"
    /\ page' = 1 /\ got' = <<>> /\ total' = 0
    /\ started' = 0 /\ inserted' = 0 /\ removed' = 0

-----------------------------------------------------------------------------
(* Meanwhile at the API.  Changes before the first page are another start. *)
WithRow(s, k, r) == [i \in 1 .. Len(s) + 1 |->
                        IF i < k THEN s[i] ELSE IF i = k THEN r ELSE s[i - 1]]
WithoutRow(s, k) == [i \in 1 .. Len(s) - 1 |-> IF i < k THEN s[i] ELSE s[i + 1]]

AddRow ==
    /\ fetch = "asking"
    /\ inserted + removed < MaxChanges
    /\ started + inserted < MaxRows
    /\ inserted' = inserted + 1
    /\ \E k \in 1 .. Len(listing) + 1 :
          listing' = WithRow(listing, k, started + inserted')
    /\ UNCHANGED <<style, page, got, total, fetch, started, removed>>

RemoveRow ==
    /\ fetch = "asking"
    /\ inserted + removed < MaxChanges
    /\ \E k \in 1 .. Len(listing) : listing' = WithoutRow(listing, k)
    /\ removed' = removed + 1
    /\ UNCHANGED <<style, page, got, total, fetch, started, inserted>>

PagingNext ==
    \/ BeginPaging \/ FetchPage \/ FetchFails \/ EndPaging
    \/ AddRow \/ RemoveRow

PagingSpec == PagingInit /\ [][PagingNext]_pagingVars

-----------------------------------------------------------------------------
PagingTypeOK ==
    /\ listing \in Seq(1 .. MaxRows)
    /\ style \in Styles \cup {"bare"}
    /\ page \in 1 .. MaxPages
    /\ got \in Seq(1 .. MaxRows)
    /\ total \in 0 .. MaxRows
    /\ fetch \in {"idle", "asking", "done", "failed"}
    /\ started \in 0 .. MaxRows
    /\ inserted \in Nat /\ removed \in Nat
    /\ started + inserted <= MaxRows

(* Rows that were there all the time and were not fetched, and rows that   *)
(* were fetched more than once.                                            *)
Missing == ((1 .. started) \cap RangeOf(listing)) \ RangeOf(got)
Repeated == {r \in RangeOf(got) :
                \E i, j \in DOMAIN got : i # j /\ got[i] = r /\ got[j] = r}

(* A finished listing lacks at most one row for every row that was removed *)
(* while it was fetched.  When the loop met _MAX_PAGES the total it        *)
(* reports is larger than what it fetched.  It presumes an API that sends  *)
(* a pagination object.                                                    *)
MissesAtMostTheRemoved ==
    (/\ fetch = "done" /\ style # "bare"
     /\ page = MaxPages => total <= Len(got))
       => Cardinality(Missing) <= removed

(* No row is listed twice, but for at most one row for every row that was  *)
(* added while the listing was fetched.                                    *)
RepeatsAtMostTheInserted == Cardinality(Repeated) <= inserted
=============================================================================
