------------------------------ MODULE QueueMC ------------------------------
(* Queue on two cores: one queue of two elements, hence three slots.       *)
EXTENDS Queue

CONSTANTS c0, c1, fifo, lock

MCSpinOf == [q \in {fifo} |-> lock]
MCCount == [q \in {fifo} |-> 2]
MCBudget == [x \in {c0, c1} \X {"thread", "irq"} |->
               CASE x[2] = "thread" -> 2
                 [] x = <<c0, "irq">> -> 3
                 [] OTHER -> 0]
=============================================================================
