----------------------------- MODULE MCHitlGate -----------------------------
\* Two keys, three wait() calls (so that a third can follow two overlapping
\* ones) and two resolve() calls.
EXTENDS HitlGate, TLC

CONSTANTS k1, k2, w1, w2, w3, d1, d2, t1

MCKeys == {k1, k2}
MCWaits == {w1, w2, w3}
MCDecisions == {d1, d2}
MCTools == {t1}
=============================================================================
