---------------------------- MODULE MCChatPlugin -----------------------------
(***************************************************************************)
(* One or two requests, two channels, and as many handlers at a time as    *)
(* make a pending event, a resolution and a deletion of one request        *)
(* overlap.  A channel has a timestamp more than it can get messages.      *)
(***************************************************************************)
EXTENDS ChatPlugin, TLC

CONSTANTS r1, r2, c1, c2, h1, h2, h3, t1, t2, t3

OneRequest == {r1}
TwoRequests == {r1, r2}
OneChannel == {c1}
TwoChannels == {c1, c2}
TwoHandlers == {h1, h2}
ThreeHandlers == {h1, h2, h3}
TwoStamps == {t1, t2}
ThreeStamps == {t1, t2, t3}

\* Sound for the safety properties: nothing tells the members of a set apart.
ChatSymmetry ==
  Permutations(Channel) \union Permutations(Handler) \union
  Permutations(Stamp) \union Permutations(Request)
=============================================================================
