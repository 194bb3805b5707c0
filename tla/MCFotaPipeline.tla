------------------------- MODULE MCFotaPipeline ----------------------------
(* TLC instance of FotaPipeline.  Names are sequences of letters: the     *)
(* requested file is "ab"; the bucket listings are ["b", "ab"] (two keys  *)
(* that both match, the last one wins), ["c"] (no key matches) and the    *)
(* empty bucket.  One command of each kind the callback can be handed:    *)
(* a flash into an existing directory, a flash into a missing one, a      *)
(* command other than flash-vip, a flash-vip without its keys, and a      *)
(* payload that is not JSON.                                              *)
EXTENDS FotaPipeline

CONSTANTS c1, c2, c3, c4, c5, dhome, dwork, dmissing

MCFile == <<"a", "b">>

MCBuckets == {<<<<"b">>, <<"a", "b">>>>, <<<<"c">>>>, <<>>}

MCCmdKind == [c \in {c1, c2, c3, c4, c5} |->
                CASE c \in {c1, c2} -> "flash"
                  [] c = c3 -> "other"
                  [] c = c4 -> "nokeys"
                  [] c = c5 -> "badjson"]

MCCmdFile == [c \in {c1, c2, c3, c4, c5} |-> MCFile]

MCCmdDir == [c \in {c1, c2, c3, c4, c5} |-> IF c = c2 THEN dmissing ELSE dwork]
=============================================================================
