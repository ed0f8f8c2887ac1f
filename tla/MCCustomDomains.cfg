CONSTANTS
    Domains = {1, 2}
    Hostnames <- Asked
    BaseDomain <- Base
    q1 = q1
    q2 = q2
    Requests = {q1, q2}
    MaxReleases = 2
    MaxMishaps = 1
SPECIFICATION Spec
SYMMETRY Symmetry
CONSTRAINT NothingStale
CONSTRAINT OneStrayed
CONSTRAINT FirstAsked
INVARIANT DomainsFollowRelease
INVARIANT OnlyVerifiedRouted
PROPERTY RemovedUnrouted
PROPERTY NoGap
