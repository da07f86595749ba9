---------------------------- MODULE MCRankTables ----------------------------
(* Instances of RankTables for TLC: vectors of eight lanes as in the code,  *)
(* two of them to a super block, blocks of two bits, narrow entries.        *)
EXTENDS RankTables

MCMaxOf == [w \in Widths |-> CASE w = 1 -> 7 [] w = 2 -> 32 [] w = 4 -> 40 [] OTHER -> 63]

(* Vectors that are alike in all blocks but one.                            *)
MCBitmasks ==
  UNION {{[k \in 0 .. n - 1 |-> IF k = j THEN odd ELSE even] :
            j \in 0 .. n, odd \in {{}, {0}}, even \in {{1}, {0, 1}}} :
         n \in {0, 1, 2, 3, 4, 9, 16, 17, 20, 21}}
=============================================================================
