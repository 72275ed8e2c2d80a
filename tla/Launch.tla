------------------------------- MODULE Launch -------------------------------
(***************************************************************************)
(* multicore_launch_core1_raw and multicore_reset_core1 on core 0, and the *)
(* bootrom of core 1 that they talk to, modelled from what they and their  *)
(* comments expect of it: after a reset it drains its FIFO and sends a 0;  *)
(* then it echoes what it is sent, 0 starts over, 1 and three more words   *)
(* start the program.                                                      *)
(***************************************************************************)
EXTENDS Fifo

VARIABLES
  seq,    \* the local of the launch
  core1,  \* where core 1 stands in the bootrom, or "app"
  got,    \* what it has accepted since the last 0
  answer  \* what it is about to send back

launchVars == <<seq, core1, got, answer>>

cmd_sequence == <<"0", "0", "1", "vector", "sp", "entry">>
Program == <<"1", "vector", "sp", "entry">>
BootWords == {cmd_sequence[k] : k \in 1..Len(cmd_sequence)}

LaunchTypeOK ==
  /\ seq \in 1..Len(cmd_sequence)
  /\ core1 \in {"drain", "hello", "wait", "echo", "app"}
  /\ got \in Seq(BootWords) /\ Len(got) <= Len(Program)
  /\ answer \in BootWords

LaunchInit == seq = 1 /\ core1 = "drain" /\ got = << >> /\ answer = "0"

CallLaunch ==
  /\ at[0] = "idle" /\ core1 # "app"
  /\ Go(0, "send") /\ seq' = 1
  /\ call' = [call EXCEPT ![0] = [@ EXCEPT !.op = "launch"]]
  /\ saved' = [saved EXCEPT ![0] = irq_enabled[0]]
  /\ irq_enabled' = [irq_enabled EXCEPT ![0] = FALSE]
  /\ UNCHANGED <<fifo, event, core1, got, answer>>

\* The head of the loop: multicore_fifo_drain and __sev before a 0.
Send ==
  /\ at[0] = "send" /\ Go(0, "push")
  /\ IF cmd_sequence[seq] = "0"
     THEN fifo' = [fifo EXCEPT ![0] = << >>] /\ Sev
     ELSE UNCHANGED <<fifo, event>>
  /\ UNCHANGED <<call, irq_enabled, saved, launchVars>>

LaunchPush ==
  /\ at[0] = "push" /\ call[0].op = "launch"
  /\ Push(0, cmd_sequence[seq])
  /\ Go(0, "pop")
  /\ UNCHANGED <<call, irq_enabled, saved, launchVars>>

\* Mutant: the answer is not compared.
NextSeqAnyway(response) == seq + 1

\* The echoed word leads on, any other starts the sequence over.
NextSeq(response) == IF response = cmd_sequence[seq] THEN seq + 1 ELSE 1

LaunchPop ==
  LET next == NextSeq(Head(fifo[0])) IN
  /\ at[0] = "pop" /\ call[0].op = "launch"
  /\ Pop(0)
  /\ IF next > Len(cmd_sequence) THEN Go(0, "launched") /\ UNCHANGED seq
     ELSE Go(0, "send") /\ seq' = next
  /\ UNCHANGED <<call, irq_enabled, saved, core1, got, answer>>

LaunchReturn ==
  /\ at[0] = "launched"
  /\ irq_enabled' = [irq_enabled EXCEPT ![0] = saved[0]]
  /\ Go(0, "idle") /\ call' = [call EXCEPT ![0] = NoCall]
  /\ UNCHANGED <<fifo, event, saved, launchVars>>

\* The reset of core 1, when core 0 has seen it off and let it go again.
ResetCore1 ==
  /\ at[0] = "idle"
  /\ core1' = "drain" /\ got' = << >>
  /\ UNCHANGED <<seq, answer>>

BootPop ==
  LET word == Head(fifo[1])
      accepted == \/ word = "0"
                  \/ got = << >> /\ word = "1"
                  \/ got # << >>
  IN
  /\ core1 = "wait" /\ Pop(1)
  /\ core1' = "echo"
  /\ got' = CASE word = "0" -> << >>
              [] word # "0" /\ accepted -> Append(got, word)
              [] OTHER -> got
  /\ answer' = IF accepted THEN word ELSE "0"
  /\ UNCHANGED seq

BootStep ==
  /\ \/ BootPop
     \/ /\ core1 = "drain" /\ core1' = "hello"
        /\ fifo' = [fifo EXCEPT ![1] = << >>]
        /\ UNCHANGED <<event, seq, got, answer>>
     \/ /\ core1 = "hello" /\ Push(1, "0") /\ core1' = "wait"
        /\ UNCHANGED <<seq, got, answer>>
     \/ /\ core1 = "echo" /\ Push(1, answer)
        /\ core1' = IF Len(got) = Len(Program) THEN "app" ELSE "wait"
        /\ UNCHANGED <<seq, got, answer>>
  /\ UNCHANGED <<at, call, irq_enabled, saved>>

LaunchStep ==
  \/ Send \/ LaunchPush \/ LaunchPop \/ LaunchReturn
  \/ call[0].op = "launch" /\ PopWait(0) /\ UNCHANGED launchVars
=============================================================================
