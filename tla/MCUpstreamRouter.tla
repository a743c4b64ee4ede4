-------------------------- MODULE MCUpstreamRouter --------------------------
(* Small instances of UpstreamRouter for TLC. *)
EXTENDS UpstreamRouter, TLC

CONSTANTS p, q, good, bad

\* Only the MIC "good" verifies, for either payload.
GoodIsGenuine == [c \in Corr |-> {good}]

\* q's only genuine MIC differs from p's: acks must not be swapped.
EachItsOwn == [c \in Corr |-> IF c = p THEN {good} ELSE {bad}]

BothListed == [c \in Corr |-> "listed"]

ListedAndUnlisted == p :> "listed" @@ q :> "unlisted"

ListedAndMalformed == p :> "listed" @@ q :> "malformed"

ChangingAndUnsupported == p :> "changing" @@ q :> "unsupported"

OnlyKeyless == [c \in Corr |-> "keyless"]

Messages == Permutations(Tx)
=============================================================================
