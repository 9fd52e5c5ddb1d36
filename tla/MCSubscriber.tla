---------------------------- MODULE MCSubscriber ----------------------------
(* Values for model-checking Subscriber.                                   *)
EXTENDS Subscriber

CONSTANTS l1, a, b, p

MCLinks == {l1}
MCChannels1 == {a}
MCChannels2 == {a, b}
MCPatterns == {p}

=============================================================================
