----------------------------- MODULE MCLiveFeed -----------------------------
(* LiveFeed for TLC: the poll and a callback write, one dashboard watches. *)
EXTENDS LiveFeed

CONSTANTS poll, hook, desk

WriterSet == {poll, hook}
ViewerSet == {desk}
=============================================================================
