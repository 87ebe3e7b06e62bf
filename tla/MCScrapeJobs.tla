----------------------------- MODULE MCScrapeJobs -----------------------------
(***************************************************************************)
(* Instances of ScrapeJobs for TLC.                                        *)
(***************************************************************************)
EXTENDS ScrapeJobs, TLC

CONSTANTS home, shop, news, j1, j2, d1

TwoSources == {home, shop}
Pages      == {home, shop, news}
OneSource  == {home}
TwoJobs    == {j1, j2}
OneDeleter == {d1}
NoDeleter  == {}

\* The site of home links shop, which is a source of its own, and news.
TwoSites == home :> Pages @@ shop :> {shop}
OneSite  == home :> {home}

JobsAlike == Permutations(TwoJobs)
===============================================================================
