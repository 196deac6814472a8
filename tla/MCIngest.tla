------------------------------ MODULE MCIngest ------------------------------
(* A few items of each of the five sources for TLC. *)
EXTENDS Ingest, TLC

Item(id, url, title, valid) == [id |-> id, url |-> url, title |-> title, valid |-> valid]
Row(id, valid) == Item(id, Missing, "t", valid)
Good(url) == Item(Missing, url, "t", TRUE)
NullTitle(url) == Item(Missing, url, Null, TRUE)

\* Two rows with a wanted event code.
GdeltExport == <<<<Row("1", TRUE), Row("2", TRUE)>>>>

\* The first feed fails each time, the second has an entry with neither id nor link.
RssFeeds ==
  <<<<>>, <<Item(Missing, Missing, "t", TRUE), Item("a", Missing, Missing, TRUE)>>>>

\* A failing term, and an article under the next that has only its URL.
GuardianTerms == <<<<>>, <<Good("h")>>>>

\* A null title under the term before the article's.
NewsapiTerms == <<<<NullTitle("y")>>, <<Good("x")>>>>

\* One term a poll; a null title under one of them.
GnewsTerms == <<<<NullTitle("n")>>, <<Good("m")>>>>

MCFeeds == [gdelt |-> GdeltExport, rss |-> RssFeeds, guardian |-> GuardianTerms,
            newsapi |-> NewsapiTerms, gnews |-> GnewsTerms]
MCFailing == {<<"rss", 1>>, <<"guardian", 1>>}
=============================================================================
