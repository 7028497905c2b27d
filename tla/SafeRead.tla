------------------------------ MODULE SafeRead ------------------------------
(***************************************************************************)
(* memory/manager.py read_safe_handle: a read that keeps what the target   *)
(* gives up and reports the rest as gaps.  It asks for a region, reads     *)
(* what of it was asked for, and falls back to page-sized reads from where *)
(* that stopped.  Every call to Windows is a step of its own: the target   *)
(* may run, and change its memory, between two of them.                    *)
(***************************************************************************)
EXTENDS LoadedModules

CONSTANTS Starts, Lengths   \* the reads the client asks for

ASSUME ReadAssumption == Starts \subseteq Addresses /\ Lengths \subseteq Nat \ {0}

VARIABLE
  reading     \* the read in progress or just done, or NoModule

Requested(r) == r.start .. r.end - 1
NotRequested == NoModule

(* One VirtualQueryEx region: from the page asked about, the pages mapped  *)
(* for the same image with the same protection, or the free pages.         *)
Alike(p, q) == /\ Holding(p * PageSize) = Holding(q * PageSize)
               /\ (p \in unreadable) = (q \in unreadable)

region_end(cursor) ==
  LET first == PageOf(cursor)
      run == {p \in first .. Pages - 1 : \A q \in first .. p : Alike(first, q)}
  IN (Max(run) + 1) * PageSize

Committed(addr) == Holding(addr) # {}

(* read_process_memory_partial: what transferred before the first page     *)
(* that did not.                                                           *)
transferred(from, to) == {a \in from .. to - 1 : \A b \in from .. a : Readable(b)}

ReadableNow(r) == {a \in Requested(r) : Readable(a)}

-----------------------------------------------------------------------------
StartRead(start, length) ==
  /\ reading = NotRequested
  /\ LET asked == [start |-> start, end |-> start + length]
     IN reading' = [start |-> start, end |-> start + length, cursor |-> start,
                    stop |-> start, next |-> "query", data |-> {}, gaps |-> {},
                    steady |-> ReadableNow(asked), touched |-> ReadableNow(asked)]

(* Past the last page the query is refused: the rest is one gap. *)
QueryRegion ==
  /\ reading # NotRequested /\ reading.next = "query"
  /\ LET r == reading
         stop == IF r.cursor \in Addresses THEN Min({region_end(r.cursor), r.end}) ELSE r.end
         rest == r.cursor .. stop - 1
         skip == ~(r.cursor \in Addresses /\ Committed(r.cursor))
     IN reading' = IF skip
                   THEN [r EXCEPT !.gaps = @ \cup rest, !.cursor = stop, !.stop = stop,
                                  !.next = IF stop < r.end THEN "query" ELSE "done"]
                   ELSE [r EXCEPT !.stop = stop, !.next = "span"]

After(r, cursor) == IF cursor < r.stop THEN "page" ELSE IF r.stop < r.end THEN "query" ELSE "done"

(* Where the next read resumes, and what a page-sized read steps over. *)
resume(from, got) == from + Cardinality(got)

\* Mutant of page_chunk: the rest of the region retried at once.
whole_rest(r) == r.stop - r.cursor

page_chunk(r) == Min({PageSize, r.stop - r.cursor})

ReadSpan ==
  /\ reading # NotRequested /\ reading.next = "span"
  /\ LET r == reading
         got == transferred(r.cursor, r.stop)
     IN reading' = [r EXCEPT !.data = @ \cup got, !.cursor = resume(r.cursor, got),
                             !.next = After(r, resume(r.cursor, got))]

ReadPage ==
  /\ reading # NotRequested /\ reading.next = "page"
  /\ LET r == reading
         end == r.cursor + page_chunk(r)
         got == transferred(r.cursor, end)
     IN reading' = [r EXCEPT !.data = @ \cup got,
                             !.gaps = @ \cup ((r.cursor .. end - 1) \ got),
                             !.cursor = Min({end, r.stop}), !.next = After(r, end)]

TakeRead ==
  /\ reading # NotRequested /\ reading.next = "done"
  /\ reading' = NotRequested

Busy == reading # NotRequested /\ reading.next # "done"

(* History: what was readable all along, and what was readable at some     *)
(* time, while the target's steps change what is.                          *)
Witnessed ==
  reading' = IF Busy
             THEN LET after == {a \in Requested(reading) : Readable(a)'}
                  IN [reading EXCEPT !.steady = @ \cap after, !.touched = @ \cup after]
             ELSE reading

Reading ==
  \/ \E start \in Starts, length \in Lengths : StartRead(start, length)
  \/ QueryRegion
  \/ ReadSpan
  \/ ReadPage
  \/ TakeRead

ReadInit == reading = NotRequested

-----------------------------------------------------------------------------
(* The read accounts for every byte it has passed: each was read or is in  *)
(* a gap, and none is both; what it read could be read at some time during *)
(* it, and at the end nothing of the request is left over.  And it "keeps  *)
(* every byte the target would give up" (manager.py read_safe_handle):     *)
(* what could be read all along was read, whatever became unreadable       *)
(* around it, when the request starts on a page.  From inside a page the   *)
(* page-sized reads of _read_span straddle two pages, and one that fails   *)
(* on the first gives up the second.                                       *)
ReadAccounts ==
  reading # NotRequested =>
    LET r == reading
        done == r.next = "done"
    IN /\ r.data \cap r.gaps = {}
       /\ r.data \cup r.gaps = r.start .. r.cursor - 1
       /\ r.data \subseteq r.touched
       /\ done => r.cursor = r.end
       /\ done /\ r.start % PageSize = 0 => r.steady \subseteq r.data
=============================================================================
