--------------------------- MODULE MCSitemapRefresh ---------------------------
(* Instances for TLC: one article in each of two locales.                  *)
EXTENDS SitemapRefresh

OneEach == [a \in Article |-> a]
=============================================================================
