--------------------------- MODULE MCSpecRuntime ---------------------------
(***************************************************************************)
(* SpecRuntime on small instances.                                         *)
(***************************************************************************)
EXTENDS SpecRuntime, DeriveOrder

Query == <<"query">>
Page == <<"page">>
Total == <<"total">>
Label == <<"label">>
Rows == <<"rows">>

TwoInputs == {Query, Page}
TwoDerives == <<Label, Total>>
QueryText == <<"query", "text">>
Exact == {<<QueryText>>, <<Total>>, <<Label>>, <<Rows, Page>>}
Nested == {<<Query>>, <<<<"total", "sum">>>>}

OnlyRows == <<"rows">>

\* One source asks for the derived label with a url from the page, emptying its rows,
\* a debounce after what it reads has changed.
OneSource == [rows |->
    [target |-> Rows, url |-> {Page}, params |-> {QueryText, Total}, auto |-> TRUE,
     debounced |-> TRUE, initialFetch |-> TRUE, emptied |-> TRUE]]

\* Before it mounts another, which asks for what those rows are.
ReaderFirst == <<"reader", "rows">>
Reader == ("reader" :>
    [target |-> <<"read">>, url |-> {}, params |-> {Rows}, auto |-> TRUE,
     debounced |-> FALSE, initialFetch |-> TRUE, emptied |-> FALSE]) @@ OneSource
=============================================================================
