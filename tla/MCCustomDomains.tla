--------------------------- MODULE MCCustomDomains ---------------------------
EXTENDS CustomDomains, TLC

CONSTANTS q1, q2

\* BASE_DOMAIN "mini.host"; two hostnames of a customer and one of MiniPaaS itself.
Base == <<"mini", "host">>
Asked == {<<"www", "shop">>, <<"api", "shop">>, <<"app">> \o Base}

Symmetry == Permutations(Requests)

\* The properties are about domains nobody handled with outdated knowledge; of
\* those a verification left astray one is enough beside another that was not.
NothingStale == stale = {}
OneStrayed == Cardinality(strayed) <= 1

\* Nothing tells the customer's hostnames apart: one of them is asked for first.
FirstAsked == domains[1].host # <<"api", "shop">>
=============================================================================
