---------------------------- MODULE MCScheduler ----------------------------
(* Small instances of Scheduler for TLC.  The quanta are those of the code    *)
(* divided by ten or more; the limits for demotion and promotion are those of *)
(* the code (255 stands for infinity there).                                  *)
EXTENDS Scheduler

MCQuantum == <<2, 3, 4>>
MCLimitB  == <<1, 2, 255>>
MCLimitG  == <<255, 2, 1>>

Line(cpu, io, n) == [cpuburst |-> cpu, ioburst |-> io, repeat |-> n]

\* Bursts that end before, with and after a quantum, at every level, one line or
\* two, with and without time for I/O.
Descriptions ==
    {<<Line(1, 0, 1)>>, <<Line(2, 1, 1)>>, <<Line(1, 3, 2)>>, <<Line(8, 0, 2)>>,
     <<Line(9, 1, 1), Line(1, 0, 3)>>, <<Line(5, 1, 1), Line(2, 2, 2)>>,
     <<Line(12, 2, 1)>>, <<Line(3, 4, 2), Line(7, 0, 1)>>}

\* Bursts that end with the second quantum of the middle level.
Aligned == {<<Line(3, 0, 1)>>, <<Line(8, 0, 2)>>}

InputsOf(times, descriptions) ==
    [Pids -> [arrival_time : times, behaviors : descriptions]]

MCInputs        == InputsOf({1, 3}, Descriptions) \cup InputsOf({0, 1}, Aligned)
MCAlignedInputs == InputsOf({1, 3}, Aligned)

=============================================================================
