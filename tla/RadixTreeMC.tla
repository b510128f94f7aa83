---------------------------- MODULE RadixTreeMC ----------------------------
\* RadixTree with two trees at most.  A byte of a link has two values, so that
\* links become wider at once, and a node moves to another place at 5 bytes.
EXTENDS RadixTree, TLC

CONSTANTS t1, t2

MCThreads == {t1, t2}
MCSymmetry == Permutations(MCThreads)

\* Keys that part at the leaf and at the root.
MCKeys == {<<0, 0, 0>>, <<0, 0, 1>>, <<1, 0, 0>>}

\* Nothing is promised once two look-ups have overlapped, so that it need not be
\* found out what comes of it.
BeforeOverlap == ~overlapped
=============================================================================
