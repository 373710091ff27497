------------------------------ MODULE MCSpans ------------------------------
(* Three block services, each in a failure domain of its own.              *)
EXTENDS Spans

CONSTANTS s1, s2, s3

MCServices == {s1, s2, s3}
MCDomain == s1 :> "A" @@ s2 :> "B" @@ s3 :> "C"
MCContent == <<"x", "y">>
MCInline == {"y"}
MCPlaced == <<s1, s2>>
MCDrainable == {s1}
MCCasts == {{"writer", "gc"}, {"migrator", "gc"}, {"defrag", "gc"},
            {"migrator", "scrubber"}, {"migrator", "defrag"}}
MCMovers == {{"migrator", "gc"}}
=============================================================================
