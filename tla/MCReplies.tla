----------------------------- MODULE MCReplies -----------------------------
(* Instances of Replies for TLC: two services of one host, a stranger, two *)
(* runs whose ports differ, cookies at both ends of the u32 range.         *)
EXTENDS Replies, TLC

MCTargets == {<<"a", 1>>, <<"a", 2>>}
MCStrangers == {<<"b", 1>>}

MCPortHash == [p \in Run \X Remote |-> IF p[1] = 1 THEN 7 ELSE 8]

MCCookieHash == [p \in Remote \X LocalPort |->
                    IF p[2] = 7 THEN IF p[1][2] = 1 THEN U32 - 1 ELSE 0
                                ELSE IF p[1][2] = 1 THEN 1 ELSE U32 - 1]
=============================================================================
