--------------------------- MODULE MCRuntimeCore ---------------------------
(***************************************************************************)
(* Instances of RuntimeCore: one task, up to three tool calls, and up to    *)
(* three user commands.                                                    *)
(***************************************************************************)
EXTENDS RuntimeCore

CONSTANTS edit, bash, read, fix, driver, owner, peer

\* edit and bash need approval, read does not.
OneCall    == {edit}
TwoCalls   == {edit, bash}
MixedCalls == {edit, bash, read}
NoPeers    == {}

NoPause   == {"approve", "reject", "cancel"}
AllKinds  == {"approve", "reject", "pause", "resume", "cancel"}
YesPause  == {"approve", "pause", "resume"}

\* The instances of the README's further divergences.
OnePeer    == {peer}
PauseOnly  == {"pause", "resume"}
JustCancel == {"cancel"}
Nobody     == {}
=============================================================================
