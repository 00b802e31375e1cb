---------------------------- MODULE MCSaveBanks ----------------------------
EXTENDS SaveBanks

\* Two games with one image in common, and three different ones.
SavedGames == {<<"a", "a", "b">>, <<"a", "b", "c">>}

\* Each selector its own bank; all selectors one bank; two of them one bank.
SelectorViews == {<<1, 2, 3>>, <<1, 1, 1>>, <<1, 1, 3>>, <<1, 3, 3>>}

============================================================================
