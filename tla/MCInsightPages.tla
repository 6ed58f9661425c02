--------------------------- MODULE MCInsightPages ---------------------------
(* A model-checking instance of InsightPages.                                *)
EXTENDS InsightPages

\* Ids excluded from a search: none, one, and the same one twice.
MCExclude == {<<>>, <<1>>, <<1, 1>>}
=============================================================================
