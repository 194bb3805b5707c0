------------------------- MODULE MCFotaUploader ----------------------------
(* TLC instance of FotaUploader: one flash command whose artifact "ab"    *)
(* lands in dwork, one scan request of dlogs, which already holds a log   *)
(* file of the same name and one named "c"; one update run at a time as   *)
(* the spec assumes.                                                      *)
EXTENDS FotaUploader

CONSTANTS c1, dhome, dwork, dlogs

MCFile == <<"a", "b">>

MCBuckets == {<<<<"a", "b">>>>}

MCCmdKind == [c \in {c1} |-> "flash"]

MCCmdFile == [c \in {c1} |-> MCFile]

MCCmdDir == [c \in {c1} |-> dwork]

MCDirFiles == [d \in {dhome, dwork, dlogs} |->
                 IF d = dlogs THEN {<<"a", "b">>, <<"c">>} ELSE {}]
=============================================================================
