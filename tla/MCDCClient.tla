----------------------------- MODULE MCDCClient -----------------------------
\* Instances of DCClient for TLC.
EXTENDS DCClient

CONSTANTS t1, t2, s1, s2, h1, h2

TwoThreads == {t1, t2}
TwoServers == {s1, s2}
TwoHashes == {h1, h2}
OnlyMeta == {h2}

=============================================================================
