-------------------------------- MODULE Pager --------------------------------
(* The page cache of Mem.cpp: pages are read from a file when first asked for*)
(* and written back by pager_flush, or all at the end by wrapUp, one write   *)
(* after the other; the process may be killed between any two.               *)
EXTENDS Integers, FiniteSets

CONSTANTS
  TABLE_MAX_PAGES,  \* the length of the array pages; 1024 in the code
  Contents          \* what a page can hold; 0 is all zeros

ASSUME PagerAssumption == TABLE_MAX_PAGES \in Nat \ {0} /\ 0 \in Contents

VARIABLES
  file,    \* page number -> contents
  pages,   \* the pages in memory
  state,   \* closed; open; wrapping, in wrapUp; wild, past the array
  next,    \* wrapUp: the page its loop has come to
  given    \* what the caller has stored into the pages since pager_open

pvars == <<file, pages, state, next, given>>

PageNums == 0 .. TABLE_MAX_PAGES - 1
FileLength == Cardinality(DOMAIN file)    \* in pages

PG_Init ==
  /\ file = << >>
  /\ pages = << >> /\ state = "closed" /\ next = 0 /\ given = << >>

With1(f, n, c) == [m \in DOMAIN f \cup {n} |-> IF m = n THEN c ELSE f[m]]

----------------------------------------------------------------------------
pager_open ==
  /\ state = "closed" /\ state' = "open"
  /\ pages' = << >> /\ given' = << >> /\ UNCHANGED <<file, next>>

(* A page past the end of the file has whatever malloc returned.             *)
Read(n) == IF n \in DOMAIN file THEN {file[n]} ELSE Contents

(* Mutant: the page is read again although it is in memory.                  *)
get_pageUncached(n) ==
  /\ state = "open" /\ n \in PageNums
  /\ \E c \in Read(n) : pages' = With1(pages, n, c)
  /\ UNCHANGED <<file, state, next, given>>

get_page(n) ==
  /\ state = "open" /\ n \in PageNums /\ n \notin DOMAIN pages
  /\ \E c \in Read(n) : pages' = With1(pages, n, c)
  /\ UNCHANGED <<file, state, next, given>>

(* The check lets the number of the first page past the array through.       *)
PastTheArray ==
  /\ state = "open" /\ state' = "wild" /\ UNCHANGED <<file, pages, next, given>>

(* The caller writes into a page that it got.                                *)
Store(n, c) ==
  /\ state = "open" /\ n \in DOMAIN pages /\ pages[n] # c
  /\ pages' = With1(pages, n, c) /\ given' = With1(given, n, c)
  /\ UNCHANGED <<file, state, next>>

(* The file grows as far as the page; pages left out on the way are zero.    *)
Written(n) ==
  [m \in DOMAIN file \cup 0 .. n |->
     IF m = n THEN pages[n] ELSE IF m \in DOMAIN file THEN file[m] ELSE 0]

pager_flush(n) ==
  /\ state = "open" /\ n \in DOMAIN pages
  /\ file' = Written(n) /\ UNCHANGED <<pages, state, next, given>>

Ended == pages' = << >> /\ given' = << >> /\ next' = 0 /\ state' = "closed"

(* Flushing a page that is not in memory ends the process.                   *)
FlushNull ==
  /\ state = "open" /\ PageNums \ DOMAIN pages # {} /\ Ended /\ UNCHANGED file

----------------------------------------------------------------------------
(* wrapUp: the pages that the file has when it begins.                       *)

WrapBegin ==
  /\ state = "open" /\ state' = "wrapping" /\ next' = 0
  /\ UNCHANGED <<file, pages, given>>

WrapPage ==
  /\ state = "wrapping" /\ next < FileLength
  /\ file' = IF next \in DOMAIN pages THEN Written(next) ELSE file
  /\ pages' = [m \in DOMAIN pages \ {next} |-> pages[m]]
  /\ next' = next + 1 /\ UNCHANGED <<state, given>>

WrapEnd ==
  /\ state = "wrapping" /\ next = FileLength
  /\ state' = "closed" /\ pages' = << >> /\ next' = 0 /\ UNCHANGED <<file, given>>

(* addTable opens a pager of its own, stores into the first page past the    *)
(* end of the file, and neither flushes nor closes it: of its page nothing   *)
(* is left, and a full file takes it past the array.                         *)
addTable ==
  /\ state = "closed" /\ FileLength = TABLE_MAX_PAGES
  /\ state' = "wild" /\ UNCHANGED <<file, pages, next, given>>

Kill == state \in {"open", "wrapping"} /\ Ended /\ UNCHANGED file

PG_Next ==
  \/ pager_open \/ PastTheArray \/ FlushNull \/ addTable \/ Kill
  \/ WrapBegin \/ WrapPage \/ WrapEnd
  \/ \E n \in PageNums : get_page(n) \/ pager_flush(n) \/ \E c \in Contents : Store(n, c)

----------------------------------------------------------------------------
(* After wrapUp every page of the file holds what was last stored into it,   *)
(* however often it was asked for and whatever was flushed in between.       *)
(* A page that was never flushed and lies past the end of the file is lost.  *)
WrittenBack ==
  state = "closed" => \A n \in DOMAIN given \cap DOMAIN file : file[n] = given[n]
=============================================================================
