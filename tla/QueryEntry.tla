----------------------------- MODULE QueryEntry -----------------------------
(***************************************************************************)
(* One entry of the browser's query cache (React Query, as the pages use   *)
(* it): what the page shows, whether it has been marked invalid, and the   *)
(* GET under way, if any.  There is no clock: data older than              *)
(* lib/query-client's 60 seconds is stale, so it may be at any moment.     *)
(***************************************************************************)

\* What a page shows before anything else happens: d, which no answer brought.
NewEntry(d) ==
    [data |-> d, invalid |-> FALSE, get |-> "none", answer |-> d, received |-> FALSE]

Entry(Data) == [data : Data, invalid : BOOLEAN, get : {"none", "asked", "read"}, answer : Data,
                received : BOOLEAN]

Fetching(e) == e.get # "none"

\* The first load is under way: nothing was received yet.
Loading(e) == Fetching(e) /\ ~e.received

\* A fetch: the one under way, if any, is cancelled and never lands; while no
\* data was ever received it is joined instead, whatever it has read by now.
Ask(e) == IF Loading(e) THEN e ELSE [e EXCEPT !.get = "asked", !.answer = e.data]

\* The server reads d for the GET of e.
Answer(e, d) == [e EXCEPT !.get = "read", !.answer = d]

\* The answer arrives; it makes the entry valid, whenever it was read.
Land(e) == [e EXCEPT !.data = e.answer, !.get = "none", !.invalid = FALSE, !.received = TRUE]

\* The GET fails for good: what is shown stays and is flagged.
Lose(e) == [e EXCEPT !.get = "none", !.invalid = TRUE, !.answer = e.data]

\* invalidateQueries: refetched at once only while some component shows it.
Invalidate(e, shown) ==
    LET marked == [e EXCEPT !.invalid = TRUE] IN IF shown THEN Ask(marked) ELSE marked

\* setQueryData: the new data counts as received and valid; a GET under way is
\* left alone.
SetData(e, d) == [e EXCEPT !.data = d, !.invalid = FALSE, !.received = TRUE,
                           !.answer = IF Fetching(e) /\ e.get = "read" THEN e.answer ELSE d]
=============================================================================
