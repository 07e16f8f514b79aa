------------------------------ MODULE ListPages ------------------------------
(***************************************************************************)
(* Paging through the list tools: servicex_list_transforms and             *)
(* servicex_list_datasets over paginate_iter (tools/_helpers.py).          *)
(*                                                                         *)
(* The tools keep nothing between calls: each call fetches the whole list  *)
(* and cuts one page, and the footer tells the caller which offset to pass *)
(* next.  The caller is one that follows the footers.  Between two of its  *)
(* calls other users, sessions and workers of ServiceX add and remove      *)
(* entries, and a call may fail and be made again.  limit and offset are   *)
(* whatever integers the caller passes.                                    *)
(***************************************************************************)
EXTENDS Integers, FiniteSets, SequencesExt

CONSTANTS Item,        \* transforms, or datasets
          Limits,      \* the limits a caller may pass
          Offsets,     \* the offsets a caller may start at
          MaxChanges,  \* bound of the model: changes of the list in a walk
          MaxPages     \* bound of the model: pages of a walk

ASSUME PagesConstantsOK ==
  /\ Limits \subseteq Int /\ Offsets \subseteq Int
  /\ MaxChanges \in Nat /\ MaxPages \in Nat
  /\ IsFiniteSet(Item)

VARIABLES
  items,    \* what ServiceX lists now
  limit, start,
  stage,    \* of the walk
  offset,   \* the offset of the walk's next call
  more,     \* the last page had a footer
  page,     \* history: the last page
  pages,    \* history: how many pages there were
  seen,     \* history: what they listed, one after the other
  initial,  \* history: what ServiceX listed at first
  added, removed  \* history: the changes since

vars == <<items, limit, start, stage, offset, more, page, pages, seen, initial, added, removed>>

-------------------------------------------------------------------------------
(* paginate_iter                                                           *)

Least(a, b) == IF a < b THEN a ELSE b

(***************************************************************************)
(* Python's seq[from:to], in which a negative index counts from the end.   *)
(***************************************************************************)
Slice(seq, from, to) ==
  LET index(i) == IF i >= 0 THEN Least(i, Len(seq))
                  ELSE IF Len(seq) + i > 0 THEN Len(seq) + i ELSE 0
  IN SubSeq(seq, index(from) + 1, index(to))

(***************************************************************************)
(* islice raises ValueError for a negative count, if there is anything to  *)
(* paginate (see ListPage).                                                *)
(***************************************************************************)
Raises(seq, lim, off) == seq # <<>> /\ off + lim + 1 < 0

(***************************************************************************)
(* The window is one entry longer than the page, to tell whether there is  *)
(* more.                                                                   *)
(***************************************************************************)
\* Mutant of Window: no look-ahead.
NoLookAhead(seq, lim, off) ==
  Slice(Slice(seq, 0, off + lim), off, off + lim)

Window(seq, lim, off) ==
  Slice(Slice(seq, 0, off + lim + 1), off, off + lim + 1)

\* Mutant of IsTruncated: a full page gets a footer.
FullIsTruncated(seq, lim, off) == Len(Window(seq, lim, off)) >= lim

IsTruncated(seq, lim, off) == Len(Window(seq, lim, off)) > lim

\* Mutant of Page: the look-ahead entry is not cut off.
UncutPage(seq, lim, off) == Window(seq, lim, off)

Page(seq, lim, off) ==
  IF IsTruncated(seq, lim, off) THEN Slice(Window(seq, lim, off), 0, lim)
  ELSE Window(seq, lim, off)

\* Mutants of Shown: the next page starts one too late, or one too early.
ShownLate(lim, off) == off + lim + 1
ShownEarly(lim, off) == IF lim > 1 THEN off + lim - 1 ELSE off + lim

(***************************************************************************)
(* The offset the footer names.                                            *)
(***************************************************************************)
Shown(lim, off) == off + lim

-------------------------------------------------------------------------------

(***************************************************************************)
(* Types; a page never holds more than a non-negative limit allows.        *)
(***************************************************************************)
TypeOK ==
  /\ items \in Seq(Item) /\ initial \in Seq(Item)
  /\ IsInjective(items)
  /\ limit \in Limits /\ start \in Offsets /\ offset \in Int
  /\ stage \in {"walking", "ended", "raised"}
  /\ more \in BOOLEAN
  /\ pages \in Nat /\ page \in Seq(Item) /\ seen \in Seq(Item)
  /\ limit >= 0 => Len(page) <= limit
  /\ added \subseteq Item /\ removed \subseteq Item

Init ==
  /\ items \in {seq \in SeqOf(Item, Cardinality(Item)) : IsInjective(seq)}
  /\ limit \in Limits
  /\ start \in Offsets
  /\ stage = "walking"
  /\ offset = start
  /\ more = FALSE
  /\ pages = 0 /\ page = <<>> /\ seen = <<>>
  /\ initial = items
  /\ added = {} /\ removed = {}

(***************************************************************************)
(* A list tool answers one page; a footer tells the caller to go on.  An   *)
(* empty list is answered before it is paginated, without a footer.        *)
(***************************************************************************)
ListPage ==
  /\ stage = "walking" /\ pages < MaxPages
  /\ ~Raises(items, limit, offset)
  /\ pages' = pages + 1
  /\ page' = Page(items, limit, offset)
  /\ seen' = seen \o page'
  /\ more' = (items # <<>> /\ IsTruncated(items, limit, offset))
  /\ IF more' THEN offset' = Shown(limit, offset) /\ UNCHANGED stage
     ELSE stage' = "ended" /\ UNCHANGED offset
  /\ UNCHANGED <<items, limit, start, initial, added, removed>>

(***************************************************************************)
(* paginate_iter is called outside the tool's try block, so its exception  *)
(* is not classified and the caller gets no guidance.                      *)
(***************************************************************************)
ListRaises ==
  /\ stage = "walking"
  /\ Raises(items, limit, offset)
  /\ stage' = "raised"
  /\ UNCHANGED <<items, limit, start, offset, more, page, pages, seen, initial, added, removed>>

(***************************************************************************)
(* Getting the client or the list failed; the caller tries again.          *)
(***************************************************************************)
ListFails == stage = "walking" /\ UNCHANGED vars

(***************************************************************************)
(* Somebody else's submission, look-up, or deletion.  ServiceX promises no *)
(* order, so an entry may appear anywhere.                                 *)
(***************************************************************************)
Add(item, at) ==
  /\ stage = "walking"
  /\ Cardinality(added) + Cardinality(removed) < MaxChanges
  /\ item \notin ToSet(initial) \cup added
  /\ items' = InsertAt(items, at, item)
  /\ added' = added \cup {item}
  /\ UNCHANGED <<limit, start, stage, offset, more, page, pages, seen, initial, removed>>

Delete(at) ==
  /\ stage = "walking"
  /\ Cardinality(added) + Cardinality(removed) < MaxChanges
  /\ items' = RemoveAt(items, at)
  /\ removed' = removed \cup {items[at]}
  /\ UNCHANGED <<limit, start, stage, offset, more, page, pages, seen, initial, added>>

Next ==
  \/ ListPage
  \/ ListRaises
  \/ ListFails
  \/ \E item \in Item, at \in 1..Len(items) + 1 : Add(item, at)
  \/ \E at \in 1..Len(items) : Delete(at)

Spec == Init /\ [][Next]_vars

-------------------------------------------------------------------------------
(* Properties                                                              *)

Sensible == limit > 0 /\ start >= 0

(***************************************************************************)
(* Following the footers over a list that does not change yields all of it *)
(* from the first offset on, in order, each entry once.                    *)
(***************************************************************************)
WholeListOnce ==
  Sensible /\ stage = "ended" /\ added = {} /\ removed = {} =>
    seen = SubSeq(initial, start + 1, Len(initial))

(***************************************************************************)
(* While entries are only added, wherever they appear, no entry that was   *)
(* there from the start is missed.                                         *)
(***************************************************************************)
OnlyRemovalsHide ==
  Sensible /\ stage = "ended" /\ removed = {} =>
    \A i \in DOMAIN initial : i > start => initial[i] \in ToSet(seen)

(***************************************************************************)
(* While entries are only removed, no entry is listed twice.               *)
(***************************************************************************)
OnlyAdditionsRepeat ==
  Sensible /\ added = {} => IsInjective(seen)

(***************************************************************************)
(* No page is asked for in vain: of the entries there ever were from the   *)
(* first offset on, the pages before the last cannot have held all.        *)
(***************************************************************************)
WalkIsShort ==
  Sensible /\ pages > 1 =>
    (pages - 1) * limit < Len(initial) + Cardinality(added) - start

(***************************************************************************)
(* The footer's own words, "Pass `offset=...` to see more": on a list that *)
(* has not changed, the call a footer asks for lists something.  A limit   *)
(* of 0 refutes it: every page is empty, and every footer names the offset *)
(* that was just asked for.                                                *)
(***************************************************************************)
FooterShowsMore ==
  [][more /\ added = {} /\ removed = {} /\ pages' > pages => page' # <<>>]_vars
===============================================================================
