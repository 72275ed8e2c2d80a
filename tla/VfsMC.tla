------------------------------- MODULE VfsMC -------------------------------
(* Three letters, two paths with one hash and one with the hash 0.         *)
EXTENDS Vfs

MCPaths == {[letter |-> "A", name |-> "x"], [letter |-> "B", name |-> "x"],
            [letter |-> "B", name |-> "y"], [letter |-> "B", name |-> "z"]}
MCHash == [p \in MCPaths |->
             IF p.name = "z" THEN 0 ELSE IF p.letter = "A" THEN 2 ELSE 1]
=============================================================================
