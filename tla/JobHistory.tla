------------------------------- MODULE JobHistory -------------------------------
(***************************************************************************)
(* The paged history of jobs (JobHistoryView.vue over listJobs of          *)
(* services/jobService.js and the queries of models/compatibility.js),     *)
(* while jobs are created and others leave the filter that is applied.     *)
(* The page and the total of an answer are read by two queries.            *)
(***************************************************************************)
EXTENDS Naturals, FiniteSets

CONSTANTS
    Posting,       \* the jobs there may be, as the numbers of their createdAt
    OldPosting,    \* those that match when the history is opened
    Limit,         \* jobs on a page
    Inquiry        \* the requests of the view

ASSUME HistoryAssumption ==
    Posting \subseteq Nat /\ IsFiniteSet(Posting) /\ OldPosting \subseteq Posting /\ Limit \in Nat \ {0}

VARIABLES
    postings,    \* jobs that match the filter
    inquiries,   \* [Inquiry -> the request and what it has read]
    view         \* what the view shows, and what it has shown since its first page

historyVars == <<postings, inquiries, view>>

NoInquiry == [page |-> 0, reads |-> {}, found |-> {}, matched |-> {}, total |-> 0]

(* totalPages of the view *)
TotalPages(total) == IF total = 0 THEN 1 ELSE (total + Limit - 1) \div Limit

HistoryTypeOK ==
    /\ postings \subseteq Posting
    /\ \A i \in Inquiry : /\ inquiries[i].page \in 0..TotalPages(Cardinality(Posting)) /\ inquiries[i].reads \subseteq {"page", "total"}
                          /\ inquiries[i].found \cup inquiries[i].matched \subseteq Posting
    /\ view.page \in 1..TotalPages(Cardinality(Posting)) /\ view.seen \cup view.since \subseteq Posting
    /\ {view.loading, view.disturbed, view.paged} \subseteq BOOLEAN

HistoryInit ==
    /\ postings = OldPosting
    /\ inquiries = [i \in Inquiry |-> NoInquiry]
    /\ view = [page |-> 1, total |-> 0, seen |-> {}, since |-> {}, loading |-> FALSE, disturbed |-> FALSE, paged |-> FALSE]

-----------------------------------------------------------------------------
(* What the view has shown no longer counts *)
Disturbed == [view EXCEPT !.disturbed = TRUE, !.seen = {}, !.since = {}]

JobPosted ==
    /\ \E n \in Posting \ postings : postings' = postings \cup {n}
    /\ UNCHANGED <<inquiries, view>>

(* Its status is no longer the one that is asked for *)
JobDeparts ==
    /\ \E n \in postings : postings' = postings \ {n}
    /\ view' = Disturbed /\ UNCHANGED inquiries

-----------------------------------------------------------------------------
(* listJobs: sort({ createdAt: -1 }).skip(skip).limit(limit), and countDocuments *)

Newer(n) == Cardinality({m \in postings : m > n})

(* Mutant: pages are counted from zero *)
SkipFromZero(p) == p * Limit

Skip(p) == (p - 1) * Limit

OnPage(p) == {n \in postings : Skip(p) <= Newer(n) /\ Newer(n) < Skip(p) + Limit}

Asked(i) == inquiries[i].page # 0

FindPage(i) ==
    /\ Asked(i) /\ "page" \notin inquiries[i].reads
    /\ inquiries' = [inquiries EXCEPT ![i].reads = @ \cup {"page"},
                        ![i].found = IF view.disturbed THEN {} ELSE OnPage(inquiries[i].page),
                        ![i].matched = IF view.disturbed \/ view.paged THEN {} ELSE postings]
    /\ UNCHANGED <<postings, view>>

CountTotal(i) ==
    /\ Asked(i) /\ "total" \notin inquiries[i].reads
    /\ inquiries' = [inquiries EXCEPT ![i].reads = @ \cup {"total"}, ![i].total = Cardinality(postings)]
    /\ UNCHANGED <<postings, view>>

-----------------------------------------------------------------------------
(* JobHistoryView.vue *)

LoadJobs(i, p, loaded) ==
    /\ ~Asked(i)
    /\ inquiries' = [inquiries EXCEPT ![i] = [NoInquiry EXCEPT !.page = p]]
    /\ LET first == [view EXCEPT !.seen = {}, !.since = {}, !.disturbed = FALSE]
           shown == IF \E k \in Inquiry : Asked(k) THEN Disturbed ELSE IF loaded THEN view ELSE first
       IN  view' = [shown EXCEPT !.page = p, !.loading = TRUE, !.paged = loaded]
    /\ UNCHANGED postings

(* mounted and resetFilters; "Apply" leaves the page number as it is *)
ResetFilters(i) == LoadJobs(i, 1, FALSE)
ApplyFilters(i) == view.paged /\ LoadJobs(i, view.page, TRUE)

(* The buttons "Previous" and "Next" are off while a request is loading *)
ChangePage(i) ==
    /\ ~view.loading
    /\ \/ view.page > 1 /\ LoadJobs(i, view.page - 1, TRUE)
       \/ view.page < TotalPages(view.total) /\ LoadJobs(i, view.page + 1, TRUE)

JobsShown(i) ==
    /\ Asked(i) /\ inquiries[i].reads = {"page", "total"}
    /\ LET a == inquiries[i] IN
       view' = [view EXCEPT !.loading = FALSE, !.total = a.total, !.paged = TRUE,
                            !.seen  = IF view.disturbed THEN {} ELSE @ \cup a.found,
                            !.since = IF view.disturbed THEN {} ELSE @ \cup a.matched]
    /\ inquiries' = [inquiries EXCEPT ![i] = NoInquiry]
    /\ UNCHANGED postings

ListFails(i) ==
    /\ Asked(i) /\ inquiries' = [inquiries EXCEPT ![i] = NoInquiry]
    /\ view' = [Disturbed EXCEPT !.loading = FALSE]
    /\ UNCHANGED postings

HistoryNext ==
    \/ JobPosted \/ JobDeparts
    \/ \E i \in Inquiry : \/ FindPage(i) \/ CountTotal(i) \/ JobsShown(i) \/ ListFails(i)
                          \/ ResetFilters(i) \/ ApplyFilters(i) \/ ChangePage(i)

-----------------------------------------------------------------------------
(* Paging on through the history skips nothing: on its last page the view has shown *)
(* every job that matched when it was opened, although jobs are created meanwhile,  *)
(* with earlier dates too.  Not so when a job has left the filter, when a request   *)
(* was made before the last one was answered, or when one failed.                   *)
PagingSkipsNothing ==
    view.paged /\ ~view.loading /\ ~view.disturbed /\ Skip(view.page) + Limit >= Cardinality(postings)
        => view.since \subseteq view.seen
=============================================================================
