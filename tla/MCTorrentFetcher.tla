-------------------------- MODULE MCTorrentFetcher --------------------------
EXTENDS TorrentFetcher, TLC

CONSTANTS a, b

\* Two torrents that share a bit, one of them covered by the other: once b is
\* in the filter, so it seems is a.
Overlapping == (a :> {1}) @@ (b :> {1, 2})

Alone == a :> {1}

TwoBits == 1 .. 2
=============================================================================
