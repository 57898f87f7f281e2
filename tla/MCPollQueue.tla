----------------------------- MODULE MCPollQueue ----------------------------
(* Three sources for two places, of which one has no fetcher and one is paid.*)
EXTENDS PollQueue

CONSTANTS a, c, u

ThreeSources == {a, c, u}
OneUnknown == {u}
OnePaid == {c}
=============================================================================
