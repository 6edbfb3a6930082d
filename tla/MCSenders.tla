------------------------------- MODULE MCSenders -------------------------------
EXTENDS Senders, TLC

CONSTANTS tab1, tab2

TwoTabs == {tab1, tab2}

\* No definition tells the tabs apart.
Permuted == Permutations(TwoTabs)
================================================================================
