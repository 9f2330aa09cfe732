------------------------------ MODULE MCUserDB ------------------------------
(* A phrase that is the beginning of another one, and one whose first       *)
(* character has two readings.                                             *)
EXTENDS UserDB

ThePhrases == {"women", "womende"}
TheKeysOf ==
    [p \in ThePhrases |->
        IF p = "women" THEN << <<"wo", "men">>, <<"wu", "men">> >>
                       ELSE << <<"wo", "men", "de">> >>]
TheSysKeys == { <<"wu", "men">> }
=============================================================================
